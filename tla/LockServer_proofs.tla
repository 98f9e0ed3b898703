------------------------- MODULE LockServer_proofs -------------------------
(***************************************************************************)
(* Proofs about the lock service without caching, for any number of        *)
(* clients and workers and any capacity of the queue.  release does not    *)
(* look at who calls it, so that the lock depends on its clients: every    *)
(* job is the call that its client waits for, and a client has one.        *)
(***************************************************************************)
EXTENDS LockServer, TLAPS

Job == [clt : Client, proc : {"acquire", "release"}]

\* What is assumed of the constants: clt_nonce_ is random() and not 0.
Positive == Client \subseteq Nat \ {0} /\ Pill \notin Job

TypeOK ==
    /\ q_ \in Seq(Job)
    /\ worker \in [Worker -> {"deq", "run"}]
    /\ job \in [Worker -> Job \cup {Pill}]
    /\ locks \in Client \cup {0, -1}
    /\ call \in [Client -> {"idle", "acquire", "hold", "release"}]

\* A job in the queue or with a worker is the call its client waits for.
Called ==
    /\ \A i \in 1..Len(q_) : call[q_[i].clt] = q_[i].proc
    /\ \A w \in Worker : worker[w] = "run" => job[w] \in Job /\ call[job[w].clt] = job[w].proc

\* No client has two.
OneCall ==
    /\ \A i, j \in 1..Len(q_) : q_[i].clt = q_[j].clt => i = j
    /\ \A v, w \in Worker : worker[v] = "run" /\ worker[w] = "run" /\ job[v].clt = job[w].clt => v = w
    /\ \A i \in 1..Len(q_), w \in Worker : worker[w] = "run" => q_[i].clt # job[w].clt

\* The client that has the lock is the one on record.
OnRecord == \A c \in Client : call[c] \in {"hold", "release"} => locks = c

Inv == TypeOK /\ Called /\ OneCall /\ OnRecord

-----------------------------------------------------------------------------

\* No call is made at first.
LEMMA InitInv == Init => Inv
BY DEF Init, PoolInit, Inv, TypeOK, Called, OneCall, OnRecord

\* A call of a client that waits for none is put into the queue.
LEMMA CallInv ==
    ASSUME Inv, NEW c \in Client, NEW proc \in {"acquire", "release"},
           call[c] \in {"idle", "hold"}, (proc = "release") <=> (call[c] = "hold"),
           call' = [call EXCEPT ![c] = proc],
           addJob([clt |-> c, proc |-> proc], TRUE), UNCHANGED <<locks, cond>>
    PROVE  Inv'
<1> USE DEF Inv
<1> DEFINE e == [clt |-> c, proc |-> proc]
<1>1. q_' = Append(q_, e) /\ UNCHANGED <<worker, job, locks>>
  BY DEF addJob, enq
<1>2. e \in Job /\ e.clt = c /\ e.proc = proc
  BY DEF Job
<1> HIDE DEF e
<1>3. /\ Len(q_) \in Nat /\ Len(q_') = Len(q_) + 1 /\ q_'[Len(q_) + 1] = e
      /\ \A i \in 1..Len(q_) : q_'[i] = q_[i] /\ q_[i] \in Job
  BY <1>1, <1>2 DEF TypeOK
<1>4. TypeOK'
  BY <1>1, <1>2 DEF TypeOK
<1>5. /\ \A i \in 1..Len(q_) : q_[i].clt # c
      /\ \A w \in Worker : worker[w] = "run" => job[w].clt # c
  <2>1. \A i \in 1..Len(q_) : q_[i].proc \in {"acquire", "release"} /\ call[q_[i].clt] = q_[i].proc
    BY <1>3 DEF Called, Job
  <2>2. \A w \in Worker : worker[w] = "run" =>
            job[w].proc \in {"acquire", "release"} /\ call[job[w].clt] = job[w].proc
    BY DEF Called, Job
  <2>3. QED
    BY <2>1, <2>2
<1>6. Called'
  BY <1>1, <1>2, <1>3, <1>5 DEF TypeOK, Called, Job
<1>7. OneCall'
  BY <1>1, <1>2, <1>3, <1>5 DEF OneCall
<1>8. OnRecord'
  BY <1>1 DEF TypeOK, OnRecord
<1>9. QED
  BY <1>4, <1>6, <1>7, <1>8

\* The call of a worker's job ends: its client waits for none any more.
LEMMA DoneInv ==
    ASSUME Inv, NEW w \in Worker, worker[w] = "run", NEW next \in {"idle", "hold"},
           job_done(w), call' = [call EXCEPT ![job[w].clt] = next],
           locks' \in Client \cup {0, -1}, OnRecord'
    PROVE  Inv'
<1> USE DEF Inv
<1>1. /\ worker' = [worker EXCEPT ![w] = "deq"] /\ job' = [job EXCEPT ![w] = Pill]
      /\ UNCHANGED q_
  BY DEF job_done
<1>2. job[w] \in Job /\ job[w].clt \in Client
  BY DEF Called, Job
<1>3. TypeOK'
  BY <1>1, <1>2 DEF TypeOK
<1>4. \A i \in 1..Len(q_) : q_[i] \in Job /\ q_[i].clt \in Client /\ q_[i].clt # job[w].clt
  <2>1. \A i \in 1..Len(q_) : q_[i] \in Job
    BY DEF TypeOK
  <2>2. QED
    BY <2>1 DEF OneCall, Job
<1>5. \A v \in Worker : worker'[v] = "run" =>
        /\ v # w /\ worker[v] = "run" /\ job'[v] = job[v] /\ job[v] \in Job
        /\ job[v].clt \in Client /\ job[v].clt # job[w].clt
  BY <1>1 DEF TypeOK, Called, OneCall, Job
<1>6. Called'
  BY <1>1, <1>4, <1>5 DEF TypeOK, Called
<1>7. OneCall'
  BY <1>1, <1>5 DEF OneCall
<1>8. QED
  BY <1>3, <1>6, <1>7

\* Each step keeps the invariant.
LEMMA NextInv == Positive /\ Inv /\ [Next]_vars => Inv'
<1> SUFFICES ASSUME Positive, Inv, [Next]_vars PROVE Inv'
  OBVIOUS
<1>1. ASSUME NEW c \in Client, client_acquire(c) PROVE Inv'
  BY <1>1, CallInv DEF client_acquire
<1>2. ASSUME NEW c \in Client, client_release(c) PROVE Inv'
  BY <1>2, CallInv DEF client_release
<1>3. ASSUME NEW w \in Worker, acquire(w) PROVE Inv'
  <2>1. CASE locks > 0
    <3>1. UNCHANGED <<poolVars, locks, call>>
      BY <1>3, <2>1 DEF acquire
    <3>2. QED
      BY <3>1 DEF Inv, TypeOK, Called, OneCall, OnRecord, poolVars
  <2>2. CASE ~(locks > 0)
    <3>1. /\ worker[w] = "run" /\ locks' = job[w].clt /\ job_done(w)
          /\ call' = [call EXCEPT ![job[w].clt] = "hold"]
      BY <1>3, <2>2 DEF acquire, Runs
    <3>2. job[w].clt \in Client
      BY <3>1 DEF Inv, Called, Job
    <3>3. \A c \in Client : call[c] \notin {"hold", "release"}
      BY <2>2 DEF Inv, OnRecord, Positive
    <3>4. OnRecord'
      BY <3>1, <3>2, <3>3 DEF Inv, TypeOK, OnRecord
    <3>5. QED
      BY <3>1, <3>2, <3>4, DoneInv
  <2>3. QED
    BY <2>1, <2>2
<1>4. ASSUME NEW w \in Worker, release(w) PROVE Inv'
  <2>1. /\ worker[w] = "run" /\ job[w].proc = "release" /\ job_done(w)
        /\ locks' = (IF locks # 0 THEN -1 ELSE locks)
        /\ call' = [call EXCEPT ![job[w].clt] = "idle"]
    BY <1>4 DEF release, Runs
  <2>2. job[w].clt \in Client /\ call[job[w].clt] = "release"
    BY <2>1 DEF Inv, Called, Job
  <2>3. locks' \in Client \cup {0, -1}
    BY <2>1 DEF Inv, TypeOK
  <2>4. \A c \in Client : call[c] \in {"hold", "release"} => c = job[w].clt
    BY <2>2 DEF Inv, OnRecord
  <2>5. OnRecord'
    BY <2>1, <2>2, <2>4 DEF Inv, TypeOK, OnRecord
  <2>6. QED
    BY <2>1, <2>3, <2>5, DoneInv
<1>5. ASSUME NEW w \in Worker, takeJob(w), UNCHANGED <<locks, cond, call>> PROVE Inv'
  <2> USE DEF Inv
  <2>1. q_ # <<>> /\ q_ \in Seq(Job) /\ Len(q_) \in Nat \ {0}
    BY <1>5 DEF takeJob, TypeOK
  <2>2. Head(q_) = q_[1] /\ q_[1] \in Job /\ q_' = Tail(q_) /\ Tail(q_) \in Seq(Job)
    BY <1>5, <2>1 DEF takeJob
  <2>3. /\ Len(q_') = Len(q_) - 1
        /\ \A i \in 1..Len(q_') : q_'[i] = q_[i + 1] /\ i + 1 \in 1..Len(q_)
    BY <2>1, <2>2
  <2>4. CASE Head(q_) = Pill
    BY <2>2, <2>4 DEF Positive
  <2>5. CASE Head(q_) # Pill
    <3>1. worker' = [worker EXCEPT ![w] = "run"] /\ job' = [job EXCEPT ![w] = q_[1]]
          /\ worker[w] = "deq"
      BY <1>5, <2>2, <2>5 DEF takeJob
    <3>2. TypeOK'
      BY <1>5, <2>2, <3>1 DEF TypeOK
    <3>3. Called'
      BY <1>5, <2>1, <2>2, <2>3, <3>1 DEF TypeOK, Called
    <3>a. /\ worker'[w] = "run" /\ job'[w] = q_[1] /\ 1 \in 1..Len(q_)
          /\ \A v \in Worker \ {w} : worker'[v] = worker[v] /\ job'[v] = job[v]
      BY <2>1, <3>1 DEF TypeOK
    <3>b. \A i, j \in 1..Len(q_') : q_'[i].clt = q_'[j].clt => i = j
      <4>1. SUFFICES ASSUME NEW i \in 1..Len(q_'), NEW j \in 1..Len(q_'), q_'[i].clt = q_'[j].clt
                     PROVE  i = j
        OBVIOUS
      <4>2. i + 1 = j + 1
        BY <2>3, <4>1 DEF OneCall
      <4>3. QED
        BY <4>2
    <3>c. \A u, v \in Worker : worker'[u] = "run" /\ worker'[v] = "run" /\ job'[u].clt = job'[v].clt
                               => u = v
      BY <3>a DEF OneCall
    <3>d. \A i \in 1..Len(q_'), v \in Worker : worker'[v] = "run" => q_'[i].clt # job'[v].clt
      <4>1. SUFFICES ASSUME NEW i \in 1..Len(q_'), NEW v \in Worker, worker'[v] = "run"
                     PROVE  q_'[i].clt # job'[v].clt
        OBVIOUS
      <4>2. q_'[i] = q_[i + 1] /\ i + 1 \in 1..Len(q_) /\ i + 1 # 1
        BY <2>3
      <4>3. CASE v = w
        BY <3>a, <4>2, <4>3 DEF OneCall
      <4>4. CASE v # w
        BY <3>a, <4>1, <4>2, <4>4 DEF OneCall
      <4>5. QED
        BY <4>3, <4>4
    <3>4. OneCall'
      BY <3>b, <3>c, <3>d DEF OneCall
    <3>5. QED
      BY <1>5, <3>2, <3>3, <3>4 DEF OnRecord
  <2>6. QED
    BY <2>4, <2>5
<1>6. ASSUME NEW w \in Worker, deq_wait(w) \/ spurious_wakeup(w), UNCHANGED <<locks, call>> PROVE Inv'
  <2>1. UNCHANGED <<q_, worker, job>>
    BY <1>6 DEF deq_wait, spurious_wakeup, poolVars
  <2>2. QED
    BY <1>6, <2>1 DEF Inv, TypeOK, Called, OneCall, OnRecord
<1>7. CASE UNCHANGED vars
  BY <1>7 DEF vars, poolVars, Inv, TypeOK, Called, OneCall, OnRecord
<1>8. QED
  BY <1>1, <1>2, <1>3, <1>4, <1>5, <1>6, <1>7 DEF Next, Take, spurious_wakeup

-----------------------------------------------------------------------------
\* For any number of clients and any pool, the lock is with one client at a time
\* (lock_server.cc): the handlers that wait for it look again when they are woken.
THEOREM OneHolderCorrect == Positive => (Spec => []OneHolder)
<1> SUFFICES ASSUME Positive PROVE Spec => []OneHolder
  OBVIOUS
<1>1. Init => Inv
  BY InitInv
<1>2. Inv /\ [Next]_vars => Inv'
  BY NextInv
<1>3. Inv => OneHolder
  BY DEF Inv, OnRecord, OneHolder
<1>4. QED
  BY <1>1, <1>2, <1>3, PTL DEF Spec
=============================================================================
