------------------------------ MODULE ThrPool ------------------------------
(***************************************************************************)
(* A pool of worker threads that take jobs from a bounded queue.  The      *)
(* queue is a fifo: q_ with its two condition variables, modelled by the   *)
(* sets of the threads that sleep on them.  Each operation under the mutex *)
(* of the queue is one step, from the lock or the wakeup to the unlock or  *)
(* the wait.  What a job does belongs to the module that extends this one. *)
(***************************************************************************)
EXTENDS Integers, Sequences, FiniteSets

CONSTANTS Worker,       \* the threads of the pool
          Capacity,     \* max_ of the queue: 100 * sz in the code
          Pill          \* the job without a function that ends a worker

ASSUME CapacityAssumption == Capacity \in Nat \ {0}

VARIABLES q_,
          worker,       \* "deq", "run" or "exited": where each worker is
          job,          \* the job each worker runs
          non_empty_c_, \* the workers asleep in deq
          has_space_c_, \* whether ~ThrPool is asleep in enq; addJob never sleeps
          pills         \* poison pills still to be queued; -1 before ~ThrPool starts

poolVars == <<q_, worker, job, non_empty_c_, has_space_c_, pills>>

PoolInit ==
    /\ q_ = <<>> /\ non_empty_c_ = {} /\ has_space_c_ = FALSE /\ pills = -1
    /\ worker = [w \in Worker |-> "deq"]
    /\ job = [w \in Worker |-> Pill]

\* pthread_cond_signal(&non_empty_c_): wakes one sleeper, if there is any.
signal_non_empty ==
    IF non_empty_c_ = {} THEN non_empty_c_' = {}
    ELSE \E w \in non_empty_c_ : non_empty_c_' = non_empty_c_ \ {w}

\* fifo::enq where there is space.
enq(e) ==
    /\ Len(q_) < Capacity
    /\ q_' = Append(q_, e)
    /\ signal_non_empty

\* addJob of a pool that does not block: without space the job is refused.
addJob(e, succ) ==
    /\ succ = (Len(q_) < Capacity)
    /\ IF succ THEN enq(e) ELSE UNCHANGED <<q_, non_empty_c_>>
    /\ UNCHANGED <<worker, job, has_space_c_, pills>>

\* fifo::deq of a worker that finds nothing.
deq_wait(w) ==
    /\ worker[w] = "deq" /\ w \notin non_empty_c_ /\ q_ = <<>>
    /\ non_empty_c_' = non_empty_c_ \cup {w}
    /\ UNCHANGED <<q_, worker, job, has_space_c_, pills>>

\* deq of a worker that finds a job, and the end of takeJob: a pill makes the
\* worker leave its loop.
takeJob(w) ==
    /\ worker[w] = "deq" /\ w \notin non_empty_c_ /\ q_ # <<>>
    /\ q_' = Tail(q_)
    /\ worker' = [worker EXCEPT ![w] = IF Head(q_) = Pill THEN "exited" ELSE "run"]
    /\ job' = [job EXCEPT ![w] = Head(q_)]
    /\ has_space_c_' = FALSE
    /\ UNCHANGED <<non_empty_c_, pills>>

\* The function of the job returns, and do_worker goes round its loop.
job_done(w) ==
    /\ worker[w] = "run"
    /\ worker' = [worker EXCEPT ![w] = "deq"]
    /\ job' = [job EXCEPT ![w] = Pill]
    /\ UNCHANGED <<q_, non_empty_c_, has_space_c_, pills>>

\* ~ThrPool: one pill for each worker, which waits for space in the queue, and
\* then the join of all of them.
ThrPool_dtor ==
    /\ pills = -1
    /\ pills' = Cardinality(Worker)
    /\ UNCHANGED <<q_, worker, job, non_empty_c_, has_space_c_>>

enq_pill ==
    /\ pills > 0 /\ ~has_space_c_
    /\ IF Len(q_) < Capacity
       THEN enq(Pill) /\ pills' = pills - 1 /\ UNCHANGED has_space_c_
       ELSE has_space_c_' = TRUE /\ UNCHANGED <<q_, non_empty_c_, pills>>
    /\ UNCHANGED <<worker, job>>

Joined == pills = 0 /\ \A w \in Worker : worker[w] = "exited"
=============================================================================
