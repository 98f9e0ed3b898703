----------------------------- MODULE LockServer -----------------------------
(***************************************************************************)
(* The lock service without caching, lock_client and lock_server, on the   *)
(* pool that runs the handlers of its rpcs.  The handler of an acquire     *)
(* waits on the condition variable of the lock and keeps its worker all    *)
(* the while, so that the release that would wake it needs another one.    *)
(*                                                                         *)
(* One lock stands for all of the map, whose entries share only the mutex. *)
(* Calls are those of an rpcc whose connection stays up.                   *)
(***************************************************************************)
EXTENDS ThrPool

CONSTANT Client         \* clt_nonce_ of the clients: positive numbers

VARIABLES locks,        \* the entry's client, 0 before there is one, -1 after a release
          cond,         \* the workers asleep on the condition variable of the lock
          call          \* what each client does: "idle", "acquire", "hold" or "release"

vars == <<poolVars, locks, cond, call>>

Init ==
    /\ PoolInit
    /\ locks = 0 /\ cond = {}
    /\ call = [c \in Client |-> "idle"]

\* lock_client::acquire and release: a call, that is a job for the pool.
client_acquire(c) ==
    /\ call[c] = "idle"
    /\ call' = [call EXCEPT ![c] = "acquire"]
    /\ addJob([clt |-> c, proc |-> "acquire"], TRUE)
    /\ UNCHANGED <<locks, cond>>

client_release(c) ==
    /\ call[c] = "hold"
    /\ call' = [call EXCEPT ![c] = "release"]
    /\ addJob([clt |-> c, proc |-> "release"], TRUE)
    /\ UNCHANGED <<locks, cond>>

Runs(w, proc) == worker[w] = "run" /\ job[w].proc = proc

\* Mutant of acquire: the client on record is looked at once, before the wait.
acquire_once(w) ==
    /\ Runs(w, "acquire") /\ w \notin cond
    /\ IF locks > 0
       THEN /\ cond' = cond \cup {w} /\ locks' = -1
            /\ UNCHANGED <<poolVars, call>>
       ELSE /\ locks' = job[w].clt
            /\ call' = [call EXCEPT ![job[w].clt] = "hold"]
            /\ job_done(w)
            /\ UNCHANGED cond

\* lock_server::acquire, from the lock of the mutex or the wakeup to the next
\* wait or to the reply.
acquire(w) ==
    /\ Runs(w, "acquire") /\ w \notin cond
    /\ IF locks > 0
       THEN /\ cond' = cond \cup {w}
            /\ UNCHANGED <<poolVars, locks, call>>
       ELSE /\ locks' = job[w].clt
            /\ call' = [call EXCEPT ![job[w].clt] = "hold"]
            /\ job_done(w)
            /\ UNCHANGED cond

\* Mutant of release: the waiting handlers are not told.
release_silent(w) ==
    /\ Runs(w, "release")
    /\ locks' = IF locks # 0 THEN -1 ELSE locks
    /\ call' = [call EXCEPT ![job[w].clt] = "idle"]
    /\ job_done(w)
    /\ UNCHANGED cond

\* lock_server::release.  It does not look at who the holder is.
release(w) ==
    /\ Runs(w, "release")
    /\ locks' = IF locks # 0 THEN -1 ELSE locks
    /\ cond' = {}
    /\ call' = [call EXCEPT ![job[w].clt] = "idle"]
    /\ job_done(w)

\* pthread_cond_wait may return without a signal.
spurious_wakeup(w) ==
    /\ w \in cond
    /\ cond' = cond \ {w}
    /\ UNCHANGED <<poolVars, locks, call>>

Take(w) == (takeJob(w) \/ deq_wait(w)) /\ UNCHANGED <<locks, cond, call>>

Next ==
    \/ \E c \in Client : client_acquire(c) \/ client_release(c)
    \/ \E w \in Worker : Take(w) \/ acquire(w) \/ release(w) \/ spurious_wakeup(w)

Spec == Init /\ [][Next]_vars

\* Workers that can run do; a client that has the lock releases it in the end.
Fairness ==
    /\ \A w \in Worker : WF_vars(Take(w)) /\ WF_vars(acquire(w)) /\ WF_vars(release(w))
    /\ \A c \in Client : WF_vars(client_release(c))

FairSpec == Spec /\ Fairness

-----------------------------------------------------------------------------
\* The lock is with one client at a time, from the reply to its acquire to its
\* release, although release asks nobody and acquire waits without the mutex.
OneHolder ==
    \A c, d \in Client : call[c] \in {"hold", "release"} /\ call[d] \in {"hold", "release"} =>
        c = d

\* As long as the pool has a worker for every client: a release finds a worker,
\* whatever acquires wait, and a lock that is wanted is granted to someone.
LockMoves ==
    /\ \A c \in Client : call[c] = "release" ~> call[c] # "release"
    /\ (\E c \in Client : call[c] = "acquire") ~> (\E c \in Client : call[c] = "hold")
=============================================================================
