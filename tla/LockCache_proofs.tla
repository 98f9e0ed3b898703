-------------------------- MODULE LockCache_proofs --------------------------
(***************************************************************************)
(* Proofs about LockCache, for every set of clients and threads and any    *)
(* number of late calls.                                                   *)
(***************************************************************************)
EXTENDS LockCache, WellFoundedInduction, TLAPS

-----------------------------------------------------------------------------
(***************************************************************************)
(* Facts about the operators of the model.                                 *)
(***************************************************************************)

\* Every agent belongs to one client; the agent of a revoke_handler to its own.
LEMMA HomeOfType ==
    /\ \A a \in Agent : HomeOf(a) \in Client
    /\ \A c \in Client : HomeOf(c) = c /\ c \in Agent
    /\ \A t \in Thread : t \in Agent /\ t \notin Client
    /\ \A l \in Late : l \notin Agent
    /\ NoClient \notin Client
BY ConstantsAssumption DEF HomeOf, Agent, NoClient

\* *(queue.begin()) is a member of the queue, unless the queue is empty.
LEMMA BeginMember ==
    ASSUME NEW q \in SUBSET Client, q # {}
    PROVE  begin(q) \in q
<1>1. PICK c \in q : \A d \in q : ~(<<d, c>> \in OpToRel(<, Nat))
  <2>1. q \subseteq Nat
    BY ConstantsAssumption
  <2>2. QED
    BY <2>1, NatLessThanWellFounded, WFMin
<1>2. \A d \in q : c <= d
  <2> SUFFICES ASSUME NEW d \in q PROVE c <= d
    OBVIOUS
  <2>1. c \in Nat /\ d \in Nat
    BY ConstantsAssumption
  <2>2. ~(d < c)
    BY <1>1, <2>1, Zenon DEF OpToRel
  <2>3. QED
    BY <2>1, <2>2
<1>3. QED
  BY <1>2 DEF begin

\* Signalling moves at most one thread, and only a thread of that client that
\* is blocked on that condition.
LEMMA SignalledEffect ==
    ASSUME NEW c, NEW cond, NEW next, NEW pcs, NEW f \in Signalled(c, cond, next, pcs)
    PROVE  \/ f = pcs
           \/ \E b \in Agent : /\ HomeOf(b) = c /\ pc[b] = cond
                               /\ f = [pcs EXCEPT ![b] = next]
BY DEF Signalled, Blocked

-----------------------------------------------------------------------------
(***************************************************************************)
(* Types, with the shape of the queue that begin() depends on.             *)
(***************************************************************************)

\* The values a slot can hold.
LEMMA NoCallType == NoCall \in Calls /\ NoCall.phase = "none" /\ NoNested \in NestedCalls
BY DEF Calls, NoCall, NestedCalls, NoNested

\* The calls that acquire() and release() of the client send are well formed.
LEMMA RequestType ==
    ASSUME NEW c \in Client, NEW ph \in AcquirePhase \cup ReleasePhase
    PROVE  /\ Request(ph, c) \in Calls
           /\ Request(ph, c).phase = ph /\ Request(ph, c).id = c
BY DEF Calls, Request

\* The revoke and retry calls of the server are well formed.
LEMMA NestedType ==
    ASSUME NEW c \in Client, NEW kind \in {"revoke", "retry"}
    PROVE  Nested(kind, c) \in NestedCalls
BY DEF NestedCalls, Nested

\* A slot in use names a client.
LEMMA InUseSlot ==
    ASSUME TypeOK, NEW s \in Slot
    PROVE  /\ call[s] \in Calls /\ nested[s] \in NestedCalls
           /\ call[s].phase # "none" => call[s].id \in Client
           /\ call[s] # NoCall => call[s].phase # "none" /\ call[s].id \in Client
           /\ call[s].phase \in {"none"} \cup AcquirePhase \cup ReleasePhase
           /\ nested[s].kind # "none" => /\ nested[s].to \in Client
                                         /\ [nested[s] EXCEPT !.at = "running"] \in NestedCalls
<1>1. call[s] \in Calls /\ nested[s] \in NestedCalls
  BY DEF TypeOK
<1>2. call[s] = NoCall \/ call[s] \in [phase : AcquirePhase \cup ReleasePhase, id : Client]
  BY <1>1 DEF Calls
<1>3. CASE call[s] = NoCall
  BY <1>1, <1>3, NoCallType DEF NoNested, NestedCalls
<1>4. CASE call[s] \in [phase : AcquirePhase \cup ReleasePhase, id : Client]
  <2>1. call[s].phase \in AcquirePhase \cup ReleasePhase /\ call[s].id \in Client
    BY <1>4
  <2>2. QED
    BY <1>1, <2>1 DEF NoNested, NestedCalls, AcquirePhase, ReleasePhase
<1>5. QED
  BY <1>2, <1>3, <1>4

\* Answering a call changes its phase and nothing else.
LEMMA AnsweredEffect ==
    ASSUME TypeOK, NEW s \in Slot, NEW ph \in AcquirePhase \cup ReleasePhase,
           call[s].phase # "none"
    PROVE  /\ Answered(s, ph) \in [Slot -> Calls]
           /\ Answered(s, ph)[s].phase = ph /\ Answered(s, ph)[s].id = call[s].id
           /\ \A r \in Slot : r # s => Answered(s, ph)[r] = call[r]
BY DEF TypeOK, Answered, Calls, NoCall

\* What revoke_handler does to the lock's state and to who is in charge of it.
LEMMA RevokeEffect ==
    ASSUME TypeOK, NEW s \in Slot, revoke_handler(s)
    PROVE  \E c \in Client :
             /\ call' = call
             /\ \/ /\ cstate[c] = "FREE" /\ cstate' = [cstate EXCEPT ![c] = "RELEASING"]
                   /\ pc' = [pc EXCEPT ![c] = "dorelease"]
                \/ /\ cstate[c] = "LOCKED" /\ cstate' = [cstate EXCEPT ![c] = "RELEASING"]
                   /\ pc' = pc
                \/ cstate' = cstate /\ pc' = pc
<1> DEFINE c == nested[s].to
<1>1. c \in Client
  BY InUseSlot, Zenon DEF revoke_handler
<1>2. /\ call' = call
      /\ cstate' = [cstate EXCEPT ![c] = AfterRevoke[cstate[c]]]
      /\ pc' = [pc EXCEPT ![c] = IF cstate[c] = "FREE" THEN "dorelease" ELSE pc[c]]
  BY DEF revoke_handler
<1>3. cstate[c] # "FREE" => pc' = pc
  BY <1>1, <1>2 DEF TypeOK, Agent
<1>4. CASE cstate[c] \in {"FREE", "LOCKED"}
  <2>0. AfterRevoke[cstate[c]] = "RELEASING"
    BY <1>4 DEF AfterRevoke
  <2>1. cstate' = [cstate EXCEPT ![c] = "RELEASING"]
    BY <1>2, <2>0
  <2>2. cstate[c] = "FREE" => pc' = [pc EXCEPT ![c] = "dorelease"]
    BY <1>2
  <2>3. QED
    BY <1>1, <1>2, <1>3, <1>4, <2>1, <2>2, Zenon
<1>5. CASE cstate[c] \notin {"FREE", "LOCKED"}
  <2>1. AfterRevoke[cstate[c]] = cstate[c]
    BY <1>1, <1>5 DEF AfterRevoke, TypeOK, ClientState
  <2>2. cstate' = cstate
    BY <1>1, <1>2, <2>1 DEF TypeOK
  <2>3. QED
    BY <1>1, <1>2, <1>3, <1>5, <2>2
<1>6. QED
  BY <1>4, <1>5

\* A retry moves at most one thread, from retry_cond to the test of the flag.
LEMMA RetryEffect ==
    ASSUME TypeOK, NEW s \in Slot, retry_handler(s)
    PROVE  /\ UNCHANGED <<cstate, sstate, client, call>>
           /\ \A a \in Agent : pc'[a] = pc[a] \/ (pc[a] = "retry_cond" /\ pc'[a] = "retry_woken")
<1>1. UNCHANGED <<cstate, sstate, client, call>>
  BY DEF retry_handler, serverVars
<1>2. CASE pc' = pc
  BY <1>1, <1>2
<1>3. CASE \E b \in Agent : pc[b] = "retry_cond" /\ pc' = [pc EXCEPT ![b] = "retry_woken"]
  BY <1>1, <1>3 DEF TypeOK
<1>4. QED
  BY <1>2, <1>3, SignalledEffect DEF retry_handler

\* The service starts well typed, with the lock FREE at the server.
LEMMA InitTypes == Init => TypeOK /\ ServerShape
BY HomeOfType, NoCallType
   DEF Init, TypeOK, ServerShape, ClientState, ServerState, ThreadPC, HandlerPC

\* Every step of the client, of the server and of the network keeps the types
\* and the shape of the server's record.
LEMMA NextTypes == TypeOK /\ ServerShape /\ [Next]_vars => TypeOK' /\ ServerShape'
<1> SUFFICES ASSUME TypeOK, ServerShape, [Next]_vars
             PROVE  TypeOK' /\ ServerShape'
  OBVIOUS
<1> USE HomeOfType, NoCallType
    DEF TypeOK, ServerShape, ClientState, ServerState, ThreadPC, HandlerPC,
        Slot, clientVars, serverVars
<1>0. \A c \in Client : Request("acquire", c) \in Calls /\ Request("release", c) \in Calls
  BY RequestType DEF AcquirePhase, ReleasePhase
<1>1. ASSUME NEW t \in Thread, acquire_enter(t) PROVE TypeOK' /\ ServerShape'
  BY <1>1 DEF acquire_enter
<1>2. ASSUME NEW t \in Thread, acquire(t) PROVE TypeOK' /\ ServerShape'
  BY <1>0, <1>2 DEF acquire
<1>3. ASSUME NEW t \in Thread, acquire_return(t) PROVE TypeOK' /\ ServerShape'
  BY <1>0, <1>3 DEF acquire_return, acquire_result
<1>4. ASSUME NEW t \in Thread, acquire_retry(t) PROVE TypeOK' /\ ServerShape'
  BY <1>0, <1>4 DEF acquire_retry, acquire_result
<1>5. ASSUME NEW t \in Thread, spurious_wakeup(t) PROVE TypeOK' /\ ServerShape'
  BY <1>5 DEF spurious_wakeup
<1>6. ASSUME NEW t \in Thread, release(t) PROVE TypeOK' /\ ServerShape'
  <2>1. HomeOf(t) \in Client /\ t \in Agent
    OBVIOUS
  <2>2. pc' \in [Agent -> ThreadPC] /\ \A c \in Client : pc'[c] \in HandlerPC
    <3>1. CASE pc' = [pc EXCEPT ![t] = "idle"] \/ pc' = [pc EXCEPT ![t] = "dorelease"]
      BY <3>1
    <3>2. CASE pc' \in Signalled(HomeOf(t), "wait_cond", "acquire", [pc EXCEPT ![t] = "idle"])
      <4>1. CASE pc' = [pc EXCEPT ![t] = "idle"]
        BY <4>1, <3>1
      <4>2. ASSUME NEW b \in Agent, pc[b] = "wait_cond",
                   pc' = [[pc EXCEPT ![t] = "idle"] EXCEPT ![b] = "acquire"]
            PROVE  pc' \in [Agent -> ThreadPC] /\ \A c \in Client : pc'[c] \in HandlerPC
        BY <4>2
      <4>3. \/ pc' = [pc EXCEPT ![t] = "idle"]
            \/ \E b \in Agent : /\ HomeOf(b) = HomeOf(t) /\ pc[b] = "wait_cond"
                                /\ pc' = [[pc EXCEPT ![t] = "idle"] EXCEPT ![b] = "acquire"]
        BY <3>2 DEF Signalled, Blocked
      <4>4. QED
        BY <4>1, <4>2, <4>3
    <3>3. QED
      BY <1>6, <3>1, <3>2 DEF release
  <2>3. QED
    BY <1>6, <2>1, <2>2 DEF release
<1>7. ASSUME NEW a \in Agent, dorelease(a) PROVE TypeOK' /\ ServerShape'
  BY <1>0, <1>7 DEF dorelease
<1>8. ASSUME NEW a \in Agent, release_return(a) PROVE TypeOK' /\ ServerShape'
  BY <1>8 DEF release_return, release_result, Returned
<1>9. ASSUME NEW s \in Slot, revoke_handler(s) PROVE TypeOK' /\ ServerShape'
  <2>1. nested[s].to \in Client /\ [nested[s] EXCEPT !.at = "running"] \in NestedCalls
    BY <1>9, InUseSlot DEF revoke_handler
  <2>2. \A x \in ClientState : AfterRevoke[x] \in ClientState
    BY DEF AfterRevoke
  <2>3. cstate[nested[s].to] \in ClientState /\ nested[s].to \in Agent
    BY <2>1
  <2>4. cstate' \in [Client -> ClientState] /\ revoke' \in [Client -> Nat]
    BY <1>9, <2>1, <2>2, <2>3 DEF revoke_handler
  <2>5. pc' \in [Agent -> ThreadPC] /\ \A c \in Client : pc'[c] \in HandlerPC
    BY <1>9, <2>1, <2>3 DEF revoke_handler
  <2>6. nested' \in [Slot -> NestedCalls]
    BY <1>9, <2>1 DEF revoke_handler
  <2>7. UNCHANGED <<retry, serverVars, call>>
    BY <1>9 DEF revoke_handler
  <2>8. QED
    BY <2>4, <2>5, <2>6, <2>7
<1>10. ASSUME NEW s \in Slot, retry_handler(s) PROVE TypeOK' /\ ServerShape'
  <2>1. nested[s].to \in Client
    BY <1>10, InUseSlot, Zenon DEF retry_handler
  <2>2. pc' \in [Agent -> ThreadPC] /\ \A c \in Client : pc'[c] \in HandlerPC
    <3>1. ASSUME NEW b \in Agent, pc[b] = "retry_cond", pc' = [pc EXCEPT ![b] = "retry_woken"]
          PROVE  pc' \in [Agent -> ThreadPC] /\ \A c \in Client : pc'[c] \in HandlerPC
      BY <3>1
    <3>2. QED
      BY <1>10, <3>1, SignalledEffect DEF retry_handler
  <2>3. QED
    BY <1>10, <2>1, <2>2 DEF retry_handler
<1>11. ASSUME NEW s \in Slot, server_acquire(s) PROVE TypeOK' /\ ServerShape'
  <2>1. call[s].phase = "acquire" /\ call[s].phase # "none" /\ call[s].id \in Client
    BY <1>11, InUseSlot, Zenon DEF server_acquire
  <2>2. /\ Answered(s, "acquire_OK") \in [Slot -> Calls]
        /\ Answered(s, "acquire_RETRY") \in [Slot -> Calls]
    BY <2>1, AnsweredEffect DEF AcquirePhase
  <2>3. UNCHANGED clientVars
    BY <1>11 DEF server_acquire
  <2>4. CASE grant_free(s)
    BY <2>1, <2>2, <2>3, <2>4 DEF grant_free
  <2>5. CASE queue_and_revoke(s)
    BY <2>1, <2>2, <2>3, <2>5, NestedType DEF queue_and_revoke
  <2>6. CASE queue_only(s)
    BY <2>1, <2>2, <2>3, <2>6 DEF queue_only
  <2>7. CASE grant_ordered(s)
    <3>1. Nested("revoke", call[s].id) \in NestedCalls
      BY <2>1, NestedType
    <3>2. QED
      BY <2>1, <2>2, <2>3, <2>7, <3>1 DEF grant_ordered
  <2>8. QED
    BY <1>11, <2>4, <2>5, <2>6, <2>7 DEF server_acquire
<1>12. ASSUME NEW s \in Slot, server_release(s) PROVE TypeOK' /\ ServerShape'
  <2>1. call[s].phase # "none"
    BY <1>12 DEF server_release
  <2>2. Answered(s, "release_OK") \in [Slot -> Calls]
    BY <2>1, AnsweredEffect DEF ReleasePhase
  <2>3. sstate = "LOCKED_AND_WAIT" => Nested("retry", begin(queue)) \in NestedCalls
    BY BeginMember, NestedType
  <2>4. QED
    BY <1>12, <2>2, <2>3 DEF server_release, AfterRelease
<1>13. ASSUME NEW l \in Late, NEW t \in Thread, acquire_timeout(t, l) PROVE TypeOK' /\ ServerShape'
  BY <1>0, <1>13 DEF acquire_timeout, acquire_result, Abandoned, AbandonedNested
<1>14. ASSUME NEW l \in Late, NEW a \in Agent, release_timeout(a, l) PROVE TypeOK' /\ ServerShape'
  BY <1>14 DEF release_timeout, release_result, Returned, Abandoned, AbandonedNested
<1>15. ASSUME NEW l \in Late, NEW s \in Slot, nested_timeout(s, l) PROVE TypeOK' /\ ServerShape'
  BY <1>15 DEF nested_timeout, AbandonedNested
<1>16. ASSUME NEW l \in Late, discard(l) PROVE TypeOK' /\ ServerShape'
  BY <1>16 DEF discard
<1>17. CASE UNCHANGED vars
  BY <1>17 DEF vars
<1>18. QED
  BY <1>1, <1>2, <1>3, <1>4, <1>5, <1>6, <1>7, <1>8, <1>9, <1>10, <1>11, <1>12, <1>13, <1>14,
     <1>15, <1>16, <1>17 DEF Next, ClientNext, ServerNext, FaultNext

-----------------------------------------------------------------------------
(***************************************************************************)
(* One agent in charge of each client's lock.                              *)
(***************************************************************************)

\* A step in which every client keeps its state and every agent its call, and
\* in which nobody takes charge of a lock or gives it up.
LEMMA InChargeFrame ==
    ASSUME InChargeOfOne, cstate' = cstate,
           \A a \in Agent : /\ call'[a] = call[a]
                            /\ \/ pc'[a] = pc[a]
                               \/ pc[a] \notin InCharge /\ pc'[a] \notin InCharge
                               \/ pc[a] = "retry_cond" /\ pc'[a] = "retry_woken"
    PROVE  InChargeOfOne'
<1>1. \A a \in Agent : pc'[a] \in InCharge => pc[a] \in InCharge
  BY DEF InCharge
<1>2. \A a, b \in Agent :
         HomeOf(a) = HomeOf(b) /\ pc'[a] \in InCharge /\ pc'[b] \in InCharge => a = b
  BY <1>1 DEF InChargeOfOne
<1>3. ASSUME NEW a \in Agent
      PROVE  /\ pc'[a] \in {"call_acquire", "retry_cond", "retry_woken"} =>
                   cstate'[HomeOf(a)] = "ACQUIRING"
             /\ pc'[a] \in {"holds", "dorelease", "call_release"} =>
                   cstate'[HomeOf(a)] \in {"LOCKED", "RELEASING"}
             /\ call'[a].phase \in AcquirePhase => pc'[a] = "call_acquire"
             /\ call'[a].phase \in ReleasePhase => pc'[a] = "call_release"
             /\ call'[a] # NoCall => call'[a].id = HomeOf(a)
  BY <1>3 DEF InChargeOfOne, InCharge
<1>4. QED
  BY <1>2, <1>3 DEF InChargeOfOne

\* A step of agent t when no other agent of its client is in charge: what t
\* becomes must fit the new state of its client, and nobody else takes charge.
LEMMA InChargeStep ==
    ASSUME InChargeOfOne, NEW t \in Agent,
           \A a \in Agent : HomeOf(a) = HomeOf(t) /\ pc[a] \in InCharge => a = t,
           \A a \in Agent : HomeOf(a) # HomeOf(t) => cstate'[HomeOf(a)] = cstate[HomeOf(a)],
           \A a \in Agent : a # t =>
              /\ call'[a] = call[a]
              /\ pc'[a] = pc[a] \/ (pc[a] \notin InCharge /\ pc'[a] \notin InCharge),
           pc'[t] \in {"call_acquire", "retry_cond", "retry_woken"} =>
              cstate'[HomeOf(t)] = "ACQUIRING",
           pc'[t] \in {"holds", "dorelease", "call_release"} =>
              cstate'[HomeOf(t)] \in {"LOCKED", "RELEASING"},
           call'[t].phase \in AcquirePhase => pc'[t] = "call_acquire",
           call'[t].phase \in ReleasePhase => pc'[t] = "call_release",
           call'[t] # NoCall => call'[t].id = HomeOf(t)
    PROVE  InChargeOfOne'
<1>1. \A a \in Agent : a # t /\ pc'[a] \in InCharge => pc'[a] = pc[a] /\ HomeOf(a) # HomeOf(t)
  OBVIOUS
<1>2. \A a, b \in Agent :
         HomeOf(a) = HomeOf(b) /\ pc'[a] \in InCharge /\ pc'[b] \in InCharge => a = b
  BY <1>1 DEF InChargeOfOne
<1>3. ASSUME NEW a \in Agent
      PROVE  /\ pc'[a] \in {"call_acquire", "retry_cond", "retry_woken"} =>
                   cstate'[HomeOf(a)] = "ACQUIRING"
             /\ pc'[a] \in {"holds", "dorelease", "call_release"} =>
                   cstate'[HomeOf(a)] \in {"LOCKED", "RELEASING"}
             /\ call'[a].phase \in AcquirePhase => pc'[a] = "call_acquire"
             /\ call'[a].phase \in ReleasePhase => pc'[a] = "call_release"
             /\ call'[a] # NoCall => call'[a].id = HomeOf(a)
  <2>1. CASE a = t
    BY <2>1
  <2>2. CASE a # t
    BY <1>1, <2>2 DEF InChargeOfOne, InCharge
  <2>3. QED
    BY <2>1, <2>2
<1>4. QED
  BY <1>2, <1>3 DEF InChargeOfOne

\* The server's answer to a call keeps the kind of the call and its caller.
LEMMA InChargeAnswer ==
    ASSUME InChargeOfOne, TypeOK, cstate' = cstate, pc' = pc, NEW s \in Slot,
           call'[s].id = call[s].id, call[s].phase # "none",
           \/ call[s].phase \in AcquirePhase /\ call'[s].phase \in AcquirePhase
           \/ call[s].phase \in ReleasePhase /\ call'[s].phase \in ReleasePhase,
           \A r \in Slot : r # s => call'[r] = call[r]
    PROVE  InChargeOfOne'
<1>1. call[s] # NoCall /\ Agent \subseteq Slot
  BY NoCallType DEF Slot
<1>2. \A a \in Agent : /\ call'[a].phase \in AcquirePhase => call[a].phase \in AcquirePhase
                       /\ call'[a].phase \in ReleasePhase => call[a].phase \in ReleasePhase
                       /\ call'[a] # NoCall => call[a] # NoCall /\ call'[a].id = call[a].id
  BY <1>1 DEF AcquirePhase, ReleasePhase
<1>3. QED
  BY <1>2 DEF InChargeOfOne

\* What the do-loop of acquire() does up to the point where it blocks.
LEMMA AcquireEffect ==
    ASSUME TypeOK, NEW t \in Thread, acquire(t)
    PROVE  /\ pc[t] = "acquire" /\ UNCHANGED <<sstate, client>>
           /\ \A a \in Agent : a # t => pc'[a] = pc[a]
           /\ \/ /\ cstate[HomeOf(t)] = "NONE" /\ cstate'[HomeOf(t)] = "ACQUIRING"
                 /\ \A c \in Client : c # HomeOf(t) => cstate'[c] = cstate[c]
                 /\ pc'[t] = "call_acquire"
                 /\ call' = [call EXCEPT ![t] = Request("acquire", HomeOf(t))]
              \/ /\ cstate[HomeOf(t)] = "FREE" /\ cstate'[HomeOf(t)] = "LOCKED"
                 /\ \A c \in Client : c # HomeOf(t) => cstate'[c] = cstate[c]
                 /\ pc'[t] = "holds" /\ call' = call
              \/ /\ cstate[HomeOf(t)] # "FREE" /\ cstate' = cstate
                 /\ pc'[t] \in {"wait_cond", "release_cond"} /\ call' = call
<1>1. t \in Agent /\ HomeOf(t) \in Client /\ pc[t] = "acquire" /\ UNCHANGED <<sstate, client>>
  BY HomeOfType DEF acquire, serverVars
<1>2. PICK p \in {"call_acquire", "holds", "wait_cond", "release_cond"} :
         pc' = [pc EXCEPT ![t] = p]
  BY DEF acquire
<1>3. pc'[t] = p /\ \A a \in Agent : a # t => pc'[a] = pc[a]
  BY <1>1, <1>2 DEF TypeOK
<1>4. \A x : cstate' = [cstate EXCEPT ![HomeOf(t)] = x] =>
         cstate'[HomeOf(t)] = x /\ \A c \in Client : c # HomeOf(t) => cstate'[c] = cstate[c]
  BY <1>1 DEF TypeOK
<1>5. \A q : pc' = [pc EXCEPT ![t] = q] => pc'[t] = q
  BY <1>1 DEF TypeOK
<1>6. QED
  BY <1>1, <1>3, <1>4, <1>5 DEF acquire

\* What the section after a failed or refused acquire RPC does to the client.
LEMMA AcquireFailedEffect ==
    ASSUME TypeOK, NEW t \in Thread, NEW calls, acquire_result(t, FALSE, calls)
    PROVE  /\ cstate' = cstate /\ pc'[t] \in {"call_acquire", "retry_cond"}
           /\ \A a \in Agent : a # t => pc'[a] = pc[a]
<1>1. t \in Agent
  BY HomeOfType
<1>2. /\ cstate' = cstate
      /\ pc' = [pc EXCEPT ![t] = "call_acquire"] \/ pc' = [pc EXCEPT ![t] = "retry_cond"]
  BY DEF acquire_result
<1>3. QED
  BY <1>1, <1>2 DEF TypeOK

\* A client owns the lock as before if its state is the same and none of its
\* agents starts or ends a release RPC.
LEMMA OwnsFrame ==
    ASSUME cstate' = cstate,
           \A a \in Agent : pc'[a] = "call_release" <=> pc[a] = "call_release"
    PROVE  \A c \in Client : Owns(c)' <=> Owns(c)
BY DEF Owns

\* What the end of the release RPC does to the threads of its client.
LEMMA ReleaseResultEffect ==
    ASSUME TypeOK, NEW a \in Agent, release_result(a)
    PROVE  /\ cstate'[HomeOf(a)] = "NONE" /\ pc'[a] = "idle"
           /\ \A c \in Client : c # HomeOf(a) => cstate'[c] = cstate[c]
           /\ \A b \in Agent : b # a =>
                 \/ pc'[b] = pc[b]
                 \/ pc[b] \in {"wait_cond", "release_cond"} /\ pc'[b] = "acquire"
<1>1. HomeOf(a) \in Client
  BY HomeOfType
<1>2. cstate'[HomeOf(a)] = "NONE" /\ \A c \in Client : c # HomeOf(a) => cstate'[c] = cstate[c]
  BY <1>1 DEF release_result, TypeOK
<1>3. QED
  BY <1>2 DEF release_result

\* A call given up moves to the late slot.
LEMMA AbandonedEffect ==
    ASSUME TypeOK, NEW a \in Agent, NEW l \in Late
    PROVE  /\ Abandoned(a, l)[a] = NoCall /\ Abandoned(a, l)[l] = call[a] /\ a # l
           /\ \A r \in Slot : r \notin {a, l} => Abandoned(a, l)[r] = call[r]
           /\ DOMAIN Abandoned(a, l) = Slot
BY HomeOfType DEF Abandoned, TypeOK, Slot

\* What release() does to the state of its client and to the threads: it goes
\* on to dorelease(), or it frees the lock and wakes at most one waiter.
LEMMA ReleaseEffect ==
    ASSUME TypeOK, InChargeOfOne, NEW t \in Thread, release(t)
    PROVE  \/ pc' = [pc EXCEPT ![t] = "dorelease"] /\ cstate' = cstate
           \/ /\ cstate' = [cstate EXCEPT ![HomeOf(t)] = "FREE"]
              /\ pc'[t] = "idle"
              /\ \A a \in Agent : a # t =>
                    pc'[a] = pc[a] \/ (pc[a] = "wait_cond" /\ pc'[a] = "acquire")
<1>1. t \in Agent /\ HomeOf(t) \in Client /\ pc \in [Agent -> ThreadPC] /\ pc[t] = "holds"
  BY HomeOfType DEF TypeOK, release
<1>2. cstate[HomeOf(t)] \in {"LOCKED", "RELEASING"}
  BY <1>1 DEF InChargeOfOne, InCharge
<1>3. CASE pc' = [pc EXCEPT ![t] = "dorelease"] /\ cstate' = cstate
  BY <1>3
<1>4. CASE /\ cstate' = [cstate EXCEPT ![HomeOf(t)] = "FREE"]
           /\ pc' \in Signalled(HomeOf(t), "wait_cond", "acquire", [pc EXCEPT ![t] = "idle"])
  <2>1. CASE pc' = [pc EXCEPT ![t] = "idle"]
    BY <1>1, <1>4, <2>1
  <2>2. CASE \E b \in Agent : pc[b] = "wait_cond" /\ pc' = [[pc EXCEPT ![t] = "idle"] EXCEPT ![b] = "acquire"]
    BY <1>1, <1>4, <2>2
  <2>3. QED
    BY <1>4, <2>1, <2>2 DEF Signalled, Blocked
<1>5. QED
  BY <1>2, <1>3, <1>4 DEF release

\* Every step keeps at most one agent per client between acquire's decision to
\* call the server and the end of the release RPC, in agreement with the cached state.
LEMMA NextInCharge == TypeOK /\ ServerShape /\ InChargeOfOne /\ [Next]_vars => InChargeOfOne'
<1> SUFFICES ASSUME TypeOK, InChargeOfOne, [Next]_vars
             PROVE  InChargeOfOne'
  OBVIOUS
<1>0. /\ Agent \subseteq Slot /\ \A a \in Agent : HomeOf(a) \in Client
      /\ pc \in [Agent -> ThreadPC] /\ cstate \in [Client -> ClientState]
      /\ call \in [Slot -> Calls] /\ NoCall.phase \notin AcquirePhase \cup ReleasePhase
  BY HomeOfType, NoCallType DEF TypeOK, Slot, AcquirePhase, ReleasePhase
<1>a. \A c \in Client :
         /\ Request("acquire", c).phase = "acquire" /\ Request("acquire", c).id = c
         /\ Request("release", c).phase = "release" /\ Request("release", c).id = c
  BY DEF Request
<1>b. \A t \in Agent : pc[t] \in InCharge =>
         \A a \in Agent : HomeOf(a) = HomeOf(t) /\ pc[a] \in InCharge => a = t
  BY DEF InChargeOfOne
<1>c. \A t \in Agent : cstate[HomeOf(t)] \in {"NONE", "FREE"} =>
         \A a \in Agent : HomeOf(a) = HomeOf(t) => pc[a] \notin InCharge
  BY DEF InChargeOfOne, InCharge
<1>d. \A a \in Agent : pc[a] \notin {"call_acquire", "call_release"} =>
         call[a].phase \notin AcquirePhase \cup ReleasePhase
  BY DEF InChargeOfOne
<1>e. \A a \in Agent : call[a] # NoCall => call[a].id = HomeOf(a)
  BY DEF InChargeOfOne
<1>1. ASSUME NEW t \in Thread, acquire_enter(t) PROVE InChargeOfOne'
  <2>1. t \in Agent /\ pc[t] = "idle" /\ pc' = [pc EXCEPT ![t] = "acquire"]
        /\ UNCHANGED <<cstate, call>>
    BY <1>1, HomeOfType DEF acquire_enter
  <2>2. QED
    BY <1>0, <2>1, InChargeFrame DEF InCharge
<1>2. ASSUME NEW t \in Thread, acquire(t) PROVE InChargeOfOne'
  <2>1. t \in Agent /\ HomeOf(t) \in Client /\ pc[t] = "acquire"
    BY <1>2, HomeOfType DEF acquire
  <2>2. CASE /\ cstate[HomeOf(t)] = "NONE"
             /\ cstate' = [cstate EXCEPT ![HomeOf(t)] = "ACQUIRING"]
             /\ pc' = [pc EXCEPT ![t] = "call_acquire"]
             /\ call' = [call EXCEPT ![t] = Request("acquire", HomeOf(t))]
    <3>1. \A a \in Agent : HomeOf(a) = HomeOf(t) /\ pc[a] \in InCharge => a = t
      BY <1>c, <2>1, <2>2
    <3>2. /\ pc'[t] = "call_acquire" /\ cstate'[HomeOf(t)] = "ACQUIRING"
          /\ call'[t] = Request("acquire", HomeOf(t))
          /\ \A a \in Agent : HomeOf(a) # HomeOf(t) => cstate'[HomeOf(a)] = cstate[HomeOf(a)]
          /\ \A a \in Agent : a # t => call'[a] = call[a] /\ pc'[a] = pc[a]
      BY <1>0, <2>1, <2>2
    <3>3. QED
      BY <1>a, <2>1, <3>1, <3>2, InChargeStep DEF AcquirePhase, ReleasePhase
  <2>3. CASE /\ cstate[HomeOf(t)] = "FREE"
             /\ cstate' = [cstate EXCEPT ![HomeOf(t)] = "LOCKED"]
             /\ pc' = [pc EXCEPT ![t] = "holds"] /\ call' = call
    <3>1. \A a \in Agent : HomeOf(a) = HomeOf(t) /\ pc[a] \in InCharge => a = t
      BY <1>c, <2>1, <2>3
    <3>2. /\ pc'[t] = "holds" /\ cstate'[HomeOf(t)] = "LOCKED"
          /\ \A a \in Agent : HomeOf(a) # HomeOf(t) => cstate'[HomeOf(a)] = cstate[HomeOf(a)]
          /\ \A a \in Agent : a # t => call'[a] = call[a] /\ pc'[a] = pc[a]
      BY <1>0, <2>1, <2>3
    <3>3. call'[t].phase \notin AcquirePhase \cup ReleasePhase
          /\ (call'[t] # NoCall => call'[t].id = HomeOf(t))
      BY <1>d, <1>e, <2>1, <2>3
    <3>4. QED
      BY <2>1, <3>1, <3>2, <3>3, InChargeStep
  <2>4. CASE /\ pc' = [pc EXCEPT ![t] = "wait_cond"] \/ pc' = [pc EXCEPT ![t] = "release_cond"]
             /\ UNCHANGED <<cstate, call>>
    BY <1>0, <2>1, <2>4, InChargeFrame DEF InCharge
  <2>5. QED
    BY <1>2, <2>2, <2>3, <2>4 DEF acquire
<1>f. ASSUME NEW t \in Thread, pc[t] \in {"call_acquire", "retry_woken"},
             \A r \in Agent : r # t => call'[r] = call[r],
             \/ /\ cstate' = [cstate EXCEPT ![HomeOf(t)] = "LOCKED"]
                /\ pc' = [pc EXCEPT ![t] = "holds"] /\ call'[t] = NoCall
             \/ /\ cstate' = cstate /\ pc' = [pc EXCEPT ![t] = "call_acquire"]
                /\ call'[t] = Request("acquire", HomeOf(t))
             \/ /\ cstate' = cstate /\ pc' = [pc EXCEPT ![t] = "retry_cond"]
                /\ call'[t].phase \notin AcquirePhase \cup ReleasePhase
                /\ (call'[t] # NoCall => call'[t].id = HomeOf(t))
      PROVE  InChargeOfOne'
  <2>1. t \in Agent /\ HomeOf(t) \in Client
    BY HomeOfType
  <2>2. \A a \in Agent : HomeOf(a) = HomeOf(t) /\ pc[a] \in InCharge => a = t
    BY <1>b, <1>f, <2>1 DEF InCharge
  <2>3. cstate[HomeOf(t)] = "ACQUIRING"
    BY <1>f, <2>1 DEF InChargeOfOne
  <2>4. /\ \A a \in Agent : HomeOf(a) # HomeOf(t) => cstate'[HomeOf(a)] = cstate[HomeOf(a)]
        /\ \A a \in Agent : a # t => pc'[a] = pc[a]
    BY <1>0, <1>f, <2>1
  <2>5. \/ pc'[t] = "holds" /\ cstate'[HomeOf(t)] = "LOCKED" /\ call'[t] = NoCall
        \/ /\ pc'[t] = "call_acquire" /\ cstate'[HomeOf(t)] = "ACQUIRING"
           /\ call'[t] = Request("acquire", HomeOf(t))
        \/ /\ pc'[t] = "retry_cond" /\ cstate'[HomeOf(t)] = "ACQUIRING"
           /\ call'[t].phase \notin AcquirePhase \cup ReleasePhase
           /\ (call'[t] # NoCall => call'[t].id = HomeOf(t))
    BY <1>0, <1>f, <2>1, <2>3
  <2>6. /\ call'[t].phase \in AcquirePhase => pc'[t] = "call_acquire"
        /\ call'[t].phase \notin ReleasePhase
        /\ call'[t] # NoCall => call'[t].id = HomeOf(t)
    BY <1>0, <1>a, <2>1, <2>5 DEF AcquirePhase, ReleasePhase
  <2>7. QED
    BY <1>f, <2>1, <2>2, <2>4, <2>5, <2>6, InChargeStep
<1>3. ASSUME NEW t \in Thread, acquire_return(t) PROVE InChargeOfOne'
  <2>1. t \in Agent /\ t \in Slot /\ pc[t] = "call_acquire"
    BY <1>0, <1>3, HomeOfType DEF acquire_return
  <2>2. \/ /\ cstate' = [cstate EXCEPT ![HomeOf(t)] = "LOCKED"]
           /\ pc' = [pc EXCEPT ![t] = "holds"] /\ call' = [call EXCEPT ![t] = NoCall]
        \/ /\ cstate' = cstate /\ pc' = [pc EXCEPT ![t] = "call_acquire"]
           /\ call' = [[call EXCEPT ![t] = NoCall] EXCEPT ![t] = Request("acquire", HomeOf(t))]
        \/ /\ cstate' = cstate /\ pc' = [pc EXCEPT ![t] = "retry_cond"]
           /\ call' = [call EXCEPT ![t] = NoCall]
    BY <1>3 DEF acquire_return, acquire_result
  <2>3. /\ \A r \in Agent : r # t => call'[r] = call[r]
        /\ call' = [call EXCEPT ![t] = NoCall] => call'[t] = NoCall
        /\ call' = [[call EXCEPT ![t] = NoCall] EXCEPT ![t] = Request("acquire", HomeOf(t))]
              => call'[t] = Request("acquire", HomeOf(t))
    BY <1>0, <2>1, <2>2
  <2>4. QED
    BY <1>0, <1>f, <2>1, <2>2, <2>3
<1>4. ASSUME NEW t \in Thread, acquire_retry(t) PROVE InChargeOfOne'
  <2>1. t \in Agent /\ t \in Slot /\ pc[t] = "retry_woken"
    BY <1>0, <1>4, HomeOfType DEF acquire_retry
  <2>2. \/ /\ cstate' = cstate /\ pc' = [pc EXCEPT ![t] = "call_acquire"]
           /\ call' = [call EXCEPT ![t] = Request("acquire", HomeOf(t))]
        \/ cstate' = cstate /\ pc' = [pc EXCEPT ![t] = "retry_cond"] /\ call' = call
    BY <1>4 DEF acquire_retry, acquire_result
  <2>3. /\ \A r \in Agent : r # t => call'[r] = call[r]
        /\ call' = [call EXCEPT ![t] = Request("acquire", HomeOf(t))]
              => call'[t] = Request("acquire", HomeOf(t))
    BY <1>0, <2>1, <2>2
  <2>4. call[t].phase \notin AcquirePhase \cup ReleasePhase
        /\ (call[t] # NoCall => call[t].id = HomeOf(t))
    BY <1>d, <1>e, <2>1
  <2>5. QED
    BY <1>f, <2>1, <2>2, <2>3, <2>4
<1>5. ASSUME NEW t \in Thread, spurious_wakeup(t) PROVE InChargeOfOne'
  <2>1. /\ t \in Agent /\ UNCHANGED <<cstate, call>>
        /\ \/ pc[t] \in {"wait_cond", "release_cond"} /\ pc' = [pc EXCEPT ![t] = "acquire"]
           \/ pc[t] = "retry_cond" /\ pc' = [pc EXCEPT ![t] = "retry_woken"]
    BY <1>5, HomeOfType DEF spurious_wakeup
  <2>2. QED
    BY <1>0, <2>1, InChargeFrame DEF InCharge
<1>6. ASSUME NEW t \in Thread, release(t) PROVE InChargeOfOne'
  <2>1. t \in Agent /\ HomeOf(t) \in Client /\ call' = call /\ pc[t] = "holds"
    BY <1>6, HomeOfType DEF release
  <2>2. \A a \in Agent : HomeOf(a) = HomeOf(t) /\ pc[a] \in InCharge => a = t
    BY <1>b, <2>1 DEF InCharge
  <2>3. cstate[HomeOf(t)] \in {"LOCKED", "RELEASING"}
    BY <2>1 DEF InChargeOfOne
  <2>4. call'[t].phase \notin AcquirePhase \cup ReleasePhase
        /\ (call'[t] # NoCall => call'[t].id = HomeOf(t))
    BY <1>d, <1>e, <2>1
  <2>5. CASE pc' = [pc EXCEPT ![t] = "dorelease"] /\ cstate' = cstate
    <3>1. pc'[t] = "dorelease" /\ \A a \in Agent : a # t => pc'[a] = pc[a]
      BY <1>0, <2>1, <2>5
    <3>2. QED
      BY <2>1, <2>2, <2>3, <2>4, <2>5, <3>1, InChargeStep
  <2>6. CASE /\ cstate' = [cstate EXCEPT ![HomeOf(t)] = "FREE"] /\ pc'[t] = "idle"
             /\ \A a \in Agent : a # t =>
                   pc'[a] = pc[a] \/ (pc[a] = "wait_cond" /\ pc'[a] = "acquire")
    <3>1. \A a \in Agent : HomeOf(a) # HomeOf(t) => cstate'[HomeOf(a)] = cstate[HomeOf(a)]
      BY <1>0, <2>1, <2>6
    <3>2. \A a \in Agent : a # t =>
             pc'[a] = pc[a] \/ (pc[a] \notin InCharge /\ pc'[a] \notin InCharge)
      BY <2>6 DEF InCharge
    <3>3. QED
      BY <2>1, <2>2, <2>4, <2>6, <3>1, <3>2, InChargeStep
  <2>7. QED
    BY <1>6, <2>5, <2>6, ReleaseEffect
<1>7. ASSUME NEW a \in Agent, dorelease(a) PROVE InChargeOfOne'
  <2>1. /\ pc[a] = "dorelease" /\ pc' = [pc EXCEPT ![a] = "call_release"] /\ cstate' = cstate
        /\ call' = [call EXCEPT ![a] = Request("release", HomeOf(a))]
    BY <1>7 DEF dorelease
  <2>2. \A b \in Agent : HomeOf(b) = HomeOf(a) /\ pc[b] \in InCharge => b = a
    BY <1>b, <2>1 DEF InCharge
  <2>3. cstate[HomeOf(a)] \in {"LOCKED", "RELEASING"}
    BY <2>1 DEF InChargeOfOne
  <2>4. /\ pc'[a] = "call_release" /\ call'[a] = Request("release", HomeOf(a))
        /\ \A b \in Agent : b # a => call'[b] = call[b] /\ pc'[b] = pc[b]
    BY <1>0, <2>1
  <2>5. call'[a].phase = "release" /\ call'[a].id = HomeOf(a)
    BY <1>0, <1>a, <2>4
  <2>6. QED
    BY <2>1, <2>2, <2>3, <2>4, <2>5, InChargeStep DEF AcquirePhase, ReleasePhase
<1>g. ASSUME NEW a \in Agent, pc[a] = "call_release", release_result(a), call'[a] = NoCall,
             \A b \in Agent : b # a => call'[b] = call[b]
      PROVE  InChargeOfOne'
  <2>1. \A b \in Agent : HomeOf(b) = HomeOf(a) /\ pc[b] \in InCharge => b = a
    BY <1>b, <1>g DEF InCharge
  <2>2. /\ pc'[a] = "idle"
        /\ \A b \in Agent : HomeOf(b) # HomeOf(a) => cstate'[HomeOf(b)] = cstate[HomeOf(b)]
        /\ \A b \in Agent : b # a =>
              pc'[b] = pc[b] \/ (pc[b] \notin InCharge /\ pc'[b] \notin InCharge)
    BY <1>0, <1>g, ReleaseResultEffect DEF InCharge
  <2>3. QED
    BY <1>0, <1>g, <2>1, <2>2, InChargeStep
<1>8. ASSUME NEW a \in Agent, release_return(a) PROVE InChargeOfOne'
  <2>1. /\ pc[a] = "call_release" /\ release_result(a)
        /\ call' = [call EXCEPT ![a] = NoCall]
    BY <1>8 DEF release_return
  <2>2. call'[a] = NoCall /\ \A b \in Agent : b # a => call'[b] = call[b]
    BY <1>0, <2>1
  <2>3. QED
    BY <1>g, <2>1, <2>2
<1>9. ASSUME NEW s \in Slot, revoke_handler(s) PROVE InChargeOfOne'
  <2>1. PICK c \in Client :
           /\ call' = call
           /\ \/ /\ cstate[c] = "FREE" /\ cstate' = [cstate EXCEPT ![c] = "RELEASING"]
                 /\ pc' = [pc EXCEPT ![c] = "dorelease"]
              \/ /\ cstate[c] = "LOCKED" /\ cstate' = [cstate EXCEPT ![c] = "RELEASING"]
                 /\ pc' = pc
              \/ cstate' = cstate /\ pc' = pc
    BY <1>9, RevokeEffect
  <2>2. c \in Agent /\ HomeOf(c) = c
    BY HomeOfType
  <2>3. CASE cstate[c] = "FREE" /\ cstate' = [cstate EXCEPT ![c] = "RELEASING"]
             /\ pc' = [pc EXCEPT ![c] = "dorelease"]
    <3>1. \A a \in Agent : HomeOf(a) = c => pc[a] \notin InCharge
      BY <1>c, <2>2, <2>3
    <3>2. /\ pc'[c] = "dorelease" /\ cstate'[c] = "RELEASING"
          /\ \A a \in Agent : HomeOf(a) # c => cstate'[HomeOf(a)] = cstate[HomeOf(a)]
          /\ \A a \in Agent : a # c => pc'[a] = pc[a]
      BY <1>0, <2>2, <2>3
    <3>3. call'[c].phase \notin AcquirePhase \cup ReleasePhase
          /\ (call'[c] # NoCall => call'[c].id = c)
      BY <1>d, <1>e, <2>1, <2>2, <3>1 DEF InCharge
    <3>4. QED
      BY <2>1, <2>2, <3>1, <3>2, <3>3, InChargeStep
  <2>4. CASE cstate[c] = "LOCKED" /\ cstate' = [cstate EXCEPT ![c] = "RELEASING"] /\ pc' = pc
    <3>1. \A a \in Agent : \/ cstate'[HomeOf(a)] = cstate[HomeOf(a)]
                           \/ cstate[HomeOf(a)] = "LOCKED" /\ cstate'[HomeOf(a)] = "RELEASING"
      BY <1>0, <2>4
    <3>2. QED
      BY <2>1, <2>4, <3>1 DEF InChargeOfOne
  <2>5. CASE cstate' = cstate /\ pc' = pc
    BY <2>1, <2>5, InChargeFrame
  <2>6. QED
    BY <2>1, <2>3, <2>4, <2>5
<1>10. ASSUME NEW s \in Slot, retry_handler(s) PROVE InChargeOfOne'
  BY <1>10, RetryEffect, InChargeFrame
<1>11. ASSUME NEW s \in Slot, server_acquire(s) PROVE InChargeOfOne'
  <2>1. call[s].phase = "acquire" /\ UNCHANGED <<cstate, pc>>
    BY <1>11 DEF server_acquire, clientVars
  <2>2. PICK ph \in {"acquire_OK", "acquire_RETRY"} : call' = Answered(s, ph)
    BY <1>11 DEF server_acquire, grant_free, queue_and_revoke, queue_only, grant_ordered
  <2>3. ph \in AcquirePhase /\ "acquire" \in AcquirePhase
    BY DEF AcquirePhase
  <2>4. /\ call'[s].phase = ph /\ call'[s].id = call[s].id
        /\ \A r \in Slot : r # s => call'[r] = call[r]
    BY <2>1, <2>2, <2>3, AnsweredEffect
  <2>5. QED
    BY <2>1, <2>3, <2>4, InChargeAnswer
<1>12. ASSUME NEW s \in Slot, server_release(s) PROVE InChargeOfOne'
  <2>1. call[s].phase = "release" /\ UNCHANGED <<cstate, pc>> /\ call' = Answered(s, "release_OK")
    BY <1>12 DEF server_release, clientVars
  <2>2. {"release", "release_OK"} \subseteq ReleasePhase
    BY DEF ReleasePhase
  <2>3. /\ call'[s].phase = "release_OK" /\ call'[s].id = call[s].id
        /\ \A r \in Slot : r # s => call'[r] = call[r]
    BY <2>1, <2>2, AnsweredEffect
  <2>4. QED
    BY <2>1, <2>2, <2>3, InChargeAnswer
<1>13. ASSUME NEW l \in Late, NEW t \in Thread, acquire_timeout(t, l) PROVE InChargeOfOne'
  <2>1. /\ t \in Agent /\ pc[t] = "call_acquire" /\ cstate' = cstate
        /\ \/ pc' = [pc EXCEPT ![t] = "retry_cond"] /\ call' = Abandoned(t, l)
           \/ /\ pc' = [pc EXCEPT ![t] = "call_acquire"]
              /\ call' = [Abandoned(t, l) EXCEPT ![t] = Request("acquire", HomeOf(t))]
    BY <1>13, HomeOfType DEF acquire_timeout, acquire_result
  <2>2. /\ t \in DOMAIN Abandoned(t, l) /\ Abandoned(t, l)[t] = NoCall
        /\ \A a \in Agent : a # t => a \in DOMAIN Abandoned(t, l) /\ Abandoned(t, l)[a] = call[a]
    BY <1>0, <2>1, AbandonedEffect, HomeOfType
  <2>3. /\ \A r \in Agent : r # t => call'[r] = call[r]
        /\ \/ call'[t] = NoCall /\ pc' = [pc EXCEPT ![t] = "retry_cond"]
           \/ /\ call'[t] = Request("acquire", HomeOf(t))
              /\ pc' = [pc EXCEPT ![t] = "call_acquire"]
    BY <2>1, <2>2
  <2>4. QED
    BY <1>0, <1>f, <2>1, <2>3
<1>14. ASSUME NEW l \in Late, NEW a \in Agent, release_timeout(a, l) PROVE InChargeOfOne'
  <2>1. pc[a] = "call_release" /\ release_result(a) /\ call' = Abandoned(a, l)
    BY <1>14 DEF release_timeout
  <2>2. call'[a] = NoCall /\ \A b \in Agent : b # a => call'[b] = call[b]
    BY <1>0, <2>1, AbandonedEffect, HomeOfType
  <2>3. QED
    BY <1>g, <2>1, <2>2
<1>15. ASSUME NEW l \in Late, NEW s \in Slot, nested_timeout(s, l) PROVE InChargeOfOne'
  <2>1. UNCHANGED <<cstate, pc, call>>
    BY <1>15 DEF nested_timeout, clientVars
  <2>2. QED
    BY <2>1, InChargeFrame
<1>16. ASSUME NEW l \in Late, discard(l) PROVE InChargeOfOne'
  <2>1. UNCHANGED <<cstate, pc>> /\ (call' = call \/ call' = [call EXCEPT ![l] = NoCall])
    BY <1>16 DEF discard, clientVars
  <2>2. \A a \in Agent : call'[a] = call[a]
    BY <1>0, <2>1, HomeOfType
  <2>3. QED
    BY <2>1, <2>2, InChargeFrame
<1>17. CASE UNCHANGED vars
  <2>1. UNCHANGED <<cstate, pc, call>>
    BY <1>17 DEF vars, clientVars
  <2>2. QED
    BY <2>1, InChargeFrame
<1>18. QED
  BY <1>1, <1>2, <1>3, <1>4, <1>5, <1>6, <1>7, <1>8, <1>9, <1>10, <1>11, <1>12, <1>13, <1>14,
     <1>15, <1>16, <1>17 DEF Next, ClientNext, ServerNext, FaultNext

-----------------------------------------------------------------------------
(***************************************************************************)
(* The server and the clients agree on who has the lock.                   *)
(***************************************************************************)

\* A step that grants nothing: no client gains the lock, no slot starts to
\* carry it, and the server's record stays.
LEMMA HolderFrame ==
    ASSUME TypeOK, HolderAgreement, sstate' = sstate, client' = client,
           \A c \in Client : Owns(c)' => Owns(c),
           \A s \in Slot : InTransit(s)' => InTransit(s) /\ call'[s].id = call[s].id
    PROVE  HolderAgreement'
<1>1. \A s \in Slot : InTransit(s) => call[s].id \in Client
  BY InUseSlot, Zenon DEF InTransit
<1>2. QED
  BY <1>1 DEF HolderAgreement

\* A slot in transit belongs to a client that does not own the lock any more or
\* not yet; and an owning client excludes any slot in transit.
LEMMA OwnerExcludesTransit ==
    ASSUME TypeOK, HolderAgreement, NEW c \in Client, Owns(c), NEW s \in Slot
    PROVE  ~InTransit(s)
BY DEF HolderAgreement

\* The agent that uses the lock belongs to the client that owns it.
LEMMA UserOwns ==
    ASSUME TypeOK, InChargeOfOne, NEW a \in Agent, pc[a] \in InUse
    PROVE  Owns(HomeOf(a))
BY HomeOfType DEF InChargeOfOne, InUse, InCharge, Owns

\* When a caller gives up, what its call carries moves to the late slot.
LEMMA TransitMoves ==
    ASSUME TypeOK, HolderAgreement, sstate' = sstate, client' = client,
           \A c \in Client : Owns(c)' => Owns(c),
           NEW a \in Slot, NEW l \in Slot, call[l] = NoCall,
           ~InTransit(a)', call'[l] = call[a],
           \A r \in Slot : r \notin {a, l} => call'[r] = call[r]
    PROVE  HolderAgreement'
<1>1. \A s \in Slot : InTransit(s) => call[s].id \in Client
  BY InUseSlot, Zenon DEF InTransit
<1>2. \A s \in Slot : InTransit(s)' =>
         \E r \in Slot : InTransit(r) /\ call'[s].id = call[r].id /\ r = IF s = l THEN a ELSE s
  BY DEF InTransit
<1>3. \A r, s \in Slot : InTransit(r)' /\ InTransit(s)' => r = s
  BY <1>2 DEF HolderAgreement
<1>4. QED
  BY <1>1, <1>2, <1>3 DEF HolderAgreement

\* Every step keeps the server's record in agreement with the one client that
\* owns the lock, or with the one call that carries it.
LEMMA NextHolder ==
    TypeOK /\ ServerShape /\ InChargeOfOne /\ HolderAgreement /\ [Next]_vars => HolderAgreement'
<1> SUFFICES ASSUME TypeOK, ServerShape, InChargeOfOne, HolderAgreement, [Next]_vars
             PROVE  HolderAgreement'
  OBVIOUS
<1> USE HomeOfType, NoCallType DEF Slot, clientVars, serverVars
<1>0. \A c \in Client :
         /\ Request("acquire", c).phase = "acquire" /\ Request("acquire", c).id = c
         /\ Request("release", c).phase = "release" /\ Request("release", c).id = c
  BY DEF Request
<1>1. ASSUME NEW t \in Thread, acquire_enter(t) PROVE HolderAgreement'
  BY <1>1, HolderFrame DEF acquire_enter, TypeOK, Owns, InTransit
<1>2. ASSUME NEW t \in Thread, acquire(t) PROVE HolderAgreement'
  <2>1. \A d \in Client : Owns(d)' => Owns(d)
    <3> SUFFICES ASSUME NEW d \in Client, Owns(d)' PROVE Owns(d)
      OBVIOUS
    <3>1. \A a \in Agent : HomeOf(a) = d => pc[a] # "call_release"
      BY <1>2, AcquireEffect DEF Owns
    <3>2. cstate[d] \in {"FREE", "LOCKED", "RELEASING"}
      BY <1>2, AcquireEffect DEF Owns
    <3>3. QED
      BY <3>1, <3>2 DEF Owns
  <2>2. call' = call \/ call' = [call EXCEPT ![t] = Request("acquire", HomeOf(t))]
    BY <1>2, AcquireEffect
  <2>3. \A s \in Slot : InTransit(s)' => InTransit(s) /\ call'[s].id = call[s].id
    BY <1>0, <2>2 DEF InTransit, TypeOK
  <2>4. UNCHANGED <<sstate, client>>
    BY <1>2, AcquireEffect
  <2>5. QED
    BY <2>1, <2>3, <2>4, HolderFrame
<1>3. ASSUME NEW t \in Thread, acquire_return(t) PROVE HolderAgreement'
  <2> DEFINE c == HomeOf(t)
  <2>1. t \in Agent /\ c \in Client /\ pc[t] = "call_acquire" /\ call[t].phase # "none"
    BY <1>3 DEF acquire_return
  <2>2. CASE call[t].phase = "acquire_OK"
    <3>1. /\ cstate' = [cstate EXCEPT ![c] = "LOCKED"] /\ pc' = [pc EXCEPT ![t] = "holds"]
          /\ call' = [call EXCEPT ![t] = NoCall] /\ UNCHANGED <<sstate, client>>
      BY <1>3, <2>2 DEF acquire_return, acquire_result
    <3>2. InTransit(t) /\ call[t].id = c
      BY <2>1, <2>2 DEF InTransit, InChargeOfOne
    <3>3. client = c /\ sstate \in {"LOCKED", "LOCKED_AND_WAIT"} /\ \A s \in Slot : InTransit(s) => s = t
      BY <2>1, <3>2 DEF HolderAgreement
    <3>4. \A s \in Slot : ~InTransit(s)'
      BY <2>1, <3>1, <3>3 DEF InTransit, TypeOK
    <3>5. \A d \in Client : Owns(d)' => d = c
      BY <2>1, <3>1, <3>3 DEF HolderAgreement, Owns, TypeOK
    <3>6. QED
      BY <3>1, <3>3, <3>4, <3>5 DEF HolderAgreement
  <2>3. CASE call[t].phase # "acquire_OK"
    <3>1. \A d \in Client : Owns(d)' => Owns(d)
      BY <1>3, <2>1, <2>3 DEF acquire_return, acquire_result, TypeOK, Owns
    <3>2. \A s \in Slot : InTransit(s)' => InTransit(s) /\ call'[s].id = call[s].id
      <4>1. \E r : call' = [call EXCEPT ![t] = r] /\ r.phase \notin {"acquire_OK", "release"}
        BY <1>0, <1>3, <2>1, <2>3 DEF acquire_return, acquire_result, TypeOK, NoCall
      <4>2. QED
        BY <2>1, <4>1 DEF TypeOK, InTransit
    <3>3. QED
      BY <1>3, <3>1, <3>2, HolderFrame DEF acquire_return
  <2>4. QED
    BY <2>2, <2>3
<1>4. ASSUME NEW t \in Thread, acquire_retry(t) PROVE HolderAgreement'
  <2>1. /\ t \in Agent /\ pc[t] = "retry_woken" /\ UNCHANGED <<sstate, client>>
        /\ acquire_result(t, FALSE, call)
    BY <1>4, Zenon DEF acquire_retry
  <2>2. \A d \in Client : Owns(d)' => Owns(d)
    BY <2>1, AcquireFailedEffect, OwnsFrame, Zenon
  <2>3. call' = call \/ call' = [call EXCEPT ![t] = Request("acquire", HomeOf(t))]
    BY <2>1 DEF acquire_result
  <2>4. \A s \in Slot : InTransit(s)' => InTransit(s) /\ call'[s].id = call[s].id
    BY <1>0, <2>1, <2>3 DEF InTransit, TypeOK
  <2>5. QED
    BY <2>1, <2>2, <2>4, HolderFrame
<1>5. ASSUME NEW t \in Thread, spurious_wakeup(t) PROVE HolderAgreement'
  BY <1>5, HolderFrame DEF spurious_wakeup, TypeOK, Owns, InTransit
<1>6. ASSUME NEW t \in Thread, release(t) PROVE HolderAgreement'
  <2>1. UNCHANGED <<sstate, client, call>> /\ HomeOf(t) \in Client /\ pc[t] = "holds" /\ t \in Agent
    BY <1>6 DEF release
  <2>2. cstate[HomeOf(t)] \in {"LOCKED", "RELEASING"}
    BY <2>1 DEF InChargeOfOne
  <2>3. /\ \A a \in Agent : pc[a] = "call_release" => pc'[a] = "call_release"
        /\ cstate' = cstate \/ cstate' = [cstate EXCEPT ![HomeOf(t)] = "FREE"]
    <3>1. CASE pc' = [pc EXCEPT ![t] = "dorelease"] /\ cstate' = cstate
      BY <2>1, <3>1 DEF TypeOK
    <3>2. CASE /\ cstate' = [cstate EXCEPT ![HomeOf(t)] = "FREE"] /\ pc'[t] = "idle"
               /\ \A a \in Agent : a # t =>
                     pc'[a] = pc[a] \/ (pc[a] = "wait_cond" /\ pc'[a] = "acquire")
      BY <2>1, <3>2
    <3>3. QED
      BY <1>6, <3>1, <3>2, ReleaseEffect
  <2>4. \A d \in Client : cstate'[d] = cstate[d] \/ d = HomeOf(t)
    BY <2>1, <2>3 DEF TypeOK
  <2>5. \A d \in Client : Owns(d)' => Owns(d)
    BY <2>2, <2>3, <2>4 DEF Owns
  <2>6. QED
    BY <2>1, <2>5, HolderFrame DEF InTransit
<1>7. ASSUME NEW a \in Agent, dorelease(a) PROVE HolderAgreement'
  <2> DEFINE c == HomeOf(a)
  <2>1. /\ c \in Client /\ pc[a] = "dorelease" /\ pc' = [pc EXCEPT ![a] = "call_release"]
        /\ call' = [call EXCEPT ![a] = Request("release", c)]
        /\ UNCHANGED <<cstate, sstate, client>>
    BY <1>7 DEF dorelease
  <2>2. Owns(c)
    BY <2>1, UserOwns DEF InUse
  <2>3. client = c /\ sstate \in {"LOCKED", "LOCKED_AND_WAIT"} /\ \A s \in Slot : ~InTransit(s)
    BY <2>2, OwnerExcludesTransit DEF HolderAgreement
  <2>4. \A s \in Slot : InTransit(s)' => s = a /\ call'[s].id = c
    BY <1>0, <2>1, <2>3 DEF InTransit, TypeOK
  <2>5. \A d \in Client : ~Owns(d)'
    BY <2>1, <2>2, <2>3 DEF HolderAgreement, Owns, TypeOK
  <2>6. QED
    BY <2>1, <2>3, <2>4, <2>5 DEF HolderAgreement
<1>h. ASSUME NEW a \in Agent, release_result(a) PROVE \A d \in Client : Owns(d)' => Owns(d)
  <2>1. ~Owns(HomeOf(a))'
    BY <1>h, ReleaseResultEffect DEF Owns
  <2>2. \A d \in Client : d # HomeOf(a) /\ Owns(d)' => Owns(d)
    BY <1>h, ReleaseResultEffect DEF Owns
  <2>3. QED
    BY <2>1, <2>2
<1>8. ASSUME NEW a \in Agent, release_return(a) PROVE HolderAgreement'
  <2>1. /\ UNCHANGED <<sstate, client>> /\ release_result(a)
        /\ call' = [call EXCEPT ![a] = NoCall]
    BY <1>8 DEF release_return
  <2>2. \A d \in Client : Owns(d)' => Owns(d)
    BY <1>h, <2>1
  <2>3. \A s \in Slot : InTransit(s)' => InTransit(s) /\ call'[s].id = call[s].id
    BY <2>1 DEF InTransit, TypeOK
  <2>4. QED
    BY <2>1, <2>2, <2>3, HolderFrame
<1>9. ASSUME NEW s \in Slot, revoke_handler(s) PROVE HolderAgreement'
  <2>1. PICK c \in Client :
           /\ call' = call
           /\ \/ /\ cstate[c] = "FREE" /\ cstate' = [cstate EXCEPT ![c] = "RELEASING"]
                 /\ pc' = [pc EXCEPT ![c] = "dorelease"]
              \/ /\ cstate[c] = "LOCKED" /\ cstate' = [cstate EXCEPT ![c] = "RELEASING"]
                 /\ pc' = pc
              \/ cstate' = cstate /\ pc' = pc
    BY <1>9, RevokeEffect
  <2>2. \A d \in Client : Owns(d)' => Owns(d)
    <3> SUFFICES ASSUME NEW d \in Client, Owns(d)' PROVE Owns(d)
      OBVIOUS
    <3>1. CASE pc' = pc
      BY <2>1, <3>1 DEF Owns, TypeOK
    <3>2. CASE cstate[c] = "FREE" /\ cstate' = [cstate EXCEPT ![c] = "RELEASING"]
               /\ pc' = [pc EXCEPT ![c] = "dorelease"]
      <4>1. \A a \in Agent : HomeOf(a) = c => pc[a] # "call_release"
        BY <3>2 DEF InChargeOfOne
      <4>2. QED
        BY <3>2, <4>1 DEF Owns, TypeOK
    <3>3. QED
      BY <2>1, <3>1, <3>2
  <2>3. UNCHANGED <<sstate, client>>
    BY <1>9 DEF revoke_handler
  <2>4. QED
    BY <2>1, <2>2, <2>3, HolderFrame DEF InTransit
<1>10. ASSUME NEW s \in Slot, retry_handler(s) PROVE HolderAgreement'
  <2>1. /\ UNCHANGED <<cstate, sstate, client, call>>
        /\ \A a \in Agent : pc'[a] = "call_release" <=> pc[a] = "call_release"
    BY <1>10, RetryEffect
  <2>2. \A c \in Client : Owns(c)' => Owns(c)
    BY <2>1 DEF Owns
  <2>3. \A r \in Slot : InTransit(r)' => InTransit(r) /\ call'[r].id = call[r].id
    BY <2>1 DEF InTransit
  <2>4. QED
    BY <2>1, <2>2, <2>3, HolderFrame
<1>11. ASSUME NEW s \in Slot, server_acquire(s) PROVE HolderAgreement'
  <2>1. call[s].phase = "acquire" /\ call[s].id \in Client /\ UNCHANGED <<cstate, pc>>
    BY <1>11, InUseSlot, Zenon DEF server_acquire
  <2>2. \A d \in Client : Owns(d)' <=> Owns(d)
    BY <2>1 DEF Owns
  <2>3. \A ph \in {"acquire_OK", "acquire_RETRY"} :
           /\ Answered(s, ph)[s].phase = ph /\ Answered(s, ph)[s].id = call[s].id
           /\ \A r \in Slot : r # s => Answered(s, ph)[r] = call[r]
    BY <2>1, AnsweredEffect DEF AcquirePhase
  <2>4. CASE grant_free(s) \/ grant_ordered(s)
    <3>1. /\ call' = Answered(s, "acquire_OK") /\ client' = call[s].id
          /\ sstate' \in {"LOCKED", "LOCKED_AND_WAIT"} /\ sstate \in {"FREE", "ORDERED"}
      BY <2>4 DEF grant_free, grant_ordered
    <3>2. (\A d \in Client : ~Owns(d)) /\ (\A r \in Slot : ~InTransit(r))
      BY <3>1 DEF HolderAgreement
    <3>3. \A r \in Slot : InTransit(r)' => r = s /\ call'[r].id = call[s].id
      BY <2>3, <3>1, <3>2 DEF InTransit
    <3>4. QED
      BY <2>1, <2>2, <3>1, <3>2, <3>3 DEF HolderAgreement
  <2>5. CASE queue_and_revoke(s) \/ queue_only(s)
    <3>1. /\ call' = Answered(s, "acquire_RETRY") /\ client' = client
          /\ sstate' = sstate \/ sstate' = "LOCKED_AND_WAIT"
      BY <2>5 DEF queue_and_revoke, queue_only
    <3>2. \A r \in Slot : InTransit(r)' => InTransit(r) /\ call'[r].id = call[r].id
      BY <2>3, <3>1 DEF InTransit
    <3>3. \A r \in Slot : InTransit(r) => call[r].id \in Client
      BY InUseSlot, Zenon DEF InTransit
    <3>4. QED
      BY <2>2, <3>1, <3>2, <3>3 DEF HolderAgreement
  <2>6. QED
    BY <1>11, <2>4, <2>5 DEF server_acquire
<1>12. ASSUME NEW s \in Slot, server_release(s) PROVE HolderAgreement'
  <2>1. /\ call[s].phase = "release" /\ call' = Answered(s, "release_OK") /\ UNCHANGED <<cstate, pc>>
    BY <1>12 DEF server_release
  <2>2. InTransit(s) /\ call[s].id \in Client
    BY <2>1, InUseSlot, Zenon DEF InTransit
  <2>3. (\A d \in Client : ~Owns(d)) /\ (\A r \in Slot : InTransit(r) => r = s)
    BY <2>2, OwnerExcludesTransit DEF HolderAgreement
  <2>4. /\ Answered(s, "release_OK")[s].phase = "release_OK"
        /\ \A r \in Slot : r # s => Answered(s, "release_OK")[r] = call[r]
    BY <2>1, AnsweredEffect DEF ReleasePhase
  <2>5. \A r \in Slot : ~InTransit(r)'
    BY <2>1, <2>3, <2>4 DEF InTransit
  <2>6. \A d \in Client : ~Owns(d)'
    BY <2>1, <2>3 DEF Owns
  <2>7. QED
    BY <2>5, <2>6 DEF HolderAgreement
<1>13. ASSUME NEW l \in Late, NEW t \in Thread, acquire_timeout(t, l) PROVE HolderAgreement'
  <2>1. /\ t \in Agent /\ HomeOf(t) \in Client /\ UNCHANGED <<cstate, sstate, client>>
        /\ call[l] = NoCall
        /\ \/ pc' = [pc EXCEPT ![t] = "retry_cond"] /\ call' = Abandoned(t, l)
           \/ /\ pc' = [pc EXCEPT ![t] = "call_acquire"]
              /\ call' = [Abandoned(t, l) EXCEPT ![t] = Request("acquire", HomeOf(t))]
    BY <1>13 DEF acquire_timeout, acquire_result, FreeSlot
  <2>2. \A d \in Client : Owns(d)' => Owns(d)
    BY <1>13, AcquireFailedEffect, OwnsFrame, Zenon DEF acquire_timeout
  <2>3. ~InTransit(t)' /\ call'[l] = call[t] /\ \A r \in Slot : r \notin {t, l} => call'[r] = call[r]
    <3>1. /\ Abandoned(t, l)[t] = NoCall /\ Abandoned(t, l)[l] = call[t] /\ t # l
          /\ \A r \in Slot : r \notin {t, l} => Abandoned(t, l)[r] = call[r]
          /\ DOMAIN Abandoned(t, l) = Slot
      <4>1. t \in Agent
        BY <2>1
      <4>2. QED
        BY <4>1, AbandonedEffect, Zenon
    <3>2. CASE call' = Abandoned(t, l)
      <4>1. /\ call'[t] = NoCall /\ call'[l] = call[t]
            /\ \A r \in Slot : r \notin {t, l} => call'[r] = call[r]
        BY <3>1, <3>2, Zenon
      <4>2. QED
        BY <4>1 DEF InTransit
    <3>3. CASE call' = [Abandoned(t, l) EXCEPT ![t] = Request("acquire", HomeOf(t))]
      <4>1. call'[t] = Request("acquire", HomeOf(t)) /\ \A r \in Slot : r # t => call'[r] = Abandoned(t, l)[r]
        BY <2>1, <3>1, <3>3
      <4>2. QED
        BY <1>0, <2>1, <3>1, <4>1 DEF InTransit
    <3>4. QED
      BY <2>1, <3>2, <3>3
  <2>4. QED
    BY <2>1, <2>2, <2>3, TransitMoves
<1>14. ASSUME NEW l \in Late, NEW a \in Agent, release_timeout(a, l) PROVE HolderAgreement'
  <2>1. /\ UNCHANGED <<sstate, client>> /\ call[l] = NoCall /\ call' = Abandoned(a, l)
    BY <1>14 DEF release_timeout, FreeSlot
  <2>2. \A d \in Client : Owns(d)' => Owns(d)
    BY <1>14, <1>h DEF release_timeout
  <2>3. ~InTransit(a)' /\ call'[l] = call[a] /\ \A r \in Slot : r \notin {a, l} => call'[r] = call[r]
    <3>1. /\ call'[a] = NoCall /\ call'[l] = call[a]
          /\ \A r \in Slot : r \notin {a, l} => call'[r] = call[r]
      <4>1. /\ Abandoned(a, l)[a] = NoCall /\ Abandoned(a, l)[l] = call[a]
            /\ \A r \in Slot : r \notin {a, l} => Abandoned(a, l)[r] = call[r]
        BY AbandonedEffect, Zenon
      <4>2. QED
        BY <2>1, <4>1, Zenon
    <3>2. QED
      BY <3>1 DEF InTransit
  <2>4. QED
    BY <2>1, <2>2, <2>3, TransitMoves
<1>15. ASSUME NEW l \in Late, NEW s \in Slot, nested_timeout(s, l) PROVE HolderAgreement'
  BY <1>15, HolderFrame DEF nested_timeout, Owns, InTransit
<1>16. ASSUME NEW l \in Late, discard(l) PROVE HolderAgreement'
  BY <1>16, HolderFrame DEF discard, TypeOK, Owns, InTransit
<1>17. CASE UNCHANGED vars
  BY <1>17 DEF vars, HolderAgreement, Owns, InTransit
<1>18. QED
  BY <1>1, <1>2, <1>3, <1>4, <1>5, <1>6, <1>7, <1>8, <1>9, <1>10, <1>11, <1>12, <1>13, <1>14,
     <1>15, <1>16, <1>17 DEF Next, ClientNext, ServerNext, FaultNext

-----------------------------------------------------------------------------
(***************************************************************************)
(* The theorems.                                                           *)
(***************************************************************************)

\* The inductive invariant holds initially.
LEMMA InitInv == Init => Inv
<1> SUFFICES ASSUME Init PROVE Inv
  OBVIOUS
<1>1. TypeOK /\ ServerShape
  BY InitTypes
<1>2. InChargeOfOne
  BY HomeOfType, NoCallType DEF Init, InChargeOfOne, InCharge, AcquirePhase, ReleasePhase, Slot
<1>3. HolderAgreement
  BY NoCallType DEF Init, HolderAgreement, Owns, InTransit
<1>4. QED
  BY <1>1, <1>2, <1>3 DEF Inv

\* Every step of the service keeps the inductive invariant.
LEMMA NextInv == Inv /\ [Next]_vars => Inv'
BY NextTypes, NextInCharge, NextHolder DEF Inv

\* The inductive invariant holds in every reachable state of the lock service.
THEOREM Invariance == Spec => []Inv
BY InitInv, NextInv, PTL DEF Spec

\* The variables of lock_client_cache, lock_server_cache and of the calls
\* between them keep their types.
THEOREM TypeCorrect == Spec => []TypeOK
<1>1. Inv => TypeOK
  BY DEF Inv
<1>2. QED
  BY <1>1, Invariance, PTL

\* The server's record of holder and queue fits the lock's state, whatever
\* calls are late or lost.
THEOREM ServerShapeCorrect == Spec => []ServerShape
<1>1. Inv => ServerShape
  BY DEF Inv
<1>2. QED
  BY <1>1, Invariance, PTL

\* At most one agent of a client is in charge of its lock, whatever the threads in
\* acquire(), release() and revoke_handler() do while the mutex is free.
THEOREM InChargeOfOneCorrect == Spec => []InChargeOfOne
<1>1. Inv => InChargeOfOne
  BY DEF Inv
<1>2. QED
  BY <1>1, Invariance, PTL

\* Client caches, grants and releases on the way and the server's record agree.
THEOREM HolderAgreementCorrect == Spec => []HolderAgreement
<1>1. Inv => HolderAgreement
  BY DEF Inv
<1>2. QED
  BY <1>1, Invariance, PTL

\* The client that owns the lock is unique.
LEMMA UserIsOnRecord ==
    ASSUME Inv, NEW a \in Agent, pc[a] \in InUse
    PROVE  client = HomeOf(a) /\ Owns(HomeOf(a))
BY HomeOfType, UserOwns DEF Inv, HolderAgreement

\* The inductive invariant excludes two users of the lock.
LEMMA InvMutex == Inv => MutualExclusion
<1> SUFFICES ASSUME Inv, NEW a \in Agent, NEW b \in Agent, pc[a] \in InUse, pc[b] \in InUse
             PROVE  a = b
  BY DEF MutualExclusion
<1>1. HomeOf(a) = HomeOf(b)
  BY UserIsOnRecord
<1>2. QED
  BY <1>1 DEF Inv, InChargeOfOne, InUse, InCharge

\* Two critical sections of the same lock never overlap, on any client, for any
\* number of clients and threads and any pattern of failed and late calls.
THEOREM MutualExclusionCorrect == Spec => []MutualExclusion
BY Invariance, InvMutex, PTL

-----------------------------------------------------------------------------
(***************************************************************************)
(* The service implements CachedLock.                                      *)
(***************************************************************************)

\* The agents that use the lock, which CachedLock calls users.
Users == {a \in Agent : pc[a] \in InUse}

\* Nobody uses a lock that no client owns, or that its owner has FREE.
LEMMA NobodyUses ==
    ASSUME Inv, \A c \in Client : Owns(c) => cstate[c] = "FREE"
    PROVE  Users = {}
<1> SUFFICES ASSUME NEW a \in Agent, pc[a] \in InUse PROVE FALSE
  BY DEF Users
<1>1. Owns(HomeOf(a)) /\ HomeOf(a) \in Client
  BY UserIsOnRecord, HomeOfType
<1>2. cstate[HomeOf(a)] \in {"LOCKED", "RELEASING"}
  BY DEF Inv, InChargeOfOne, InUse
<1>3. QED
  BY <1>1, <1>2

\* A client with the lock FREE owns it and is on record.
LEMMA FreeIsOwned ==
    ASSUME Inv, NEW c \in Client, cstate[c] = "FREE"
    PROVE  client = c /\ Users = {}
<1>1. Owns(c)
  BY DEF Inv, InChargeOfOne, Owns
<1>2. \A d \in Client : Owns(d) => d = c
  BY <1>1 DEF Inv, HolderAgreement
<1>3. QED
  BY <1>1, <1>2, NobodyUses DEF Inv, HolderAgreement

\* While the lock is in transit nobody uses it.
LEMMA TransitIsUnused ==
    ASSUME Inv, NEW s \in Slot, InTransit(s)
    PROVE  /\ client = call[s].id /\ client \in Client /\ Users = {}
           /\ sstate \in {"LOCKED", "LOCKED_AND_WAIT"}
<1>1. call[s].id \in Client
  BY InUseSlot, Zenon DEF Inv, InTransit
<1>2. \A d \in Client : ~Owns(d)
  BY OwnerExcludesTransit DEF Inv
<1>3. QED
  BY <1>1, <1>2, NobodyUses DEF Inv, HolderAgreement

\* The one user, while there is one.
LEMMA OneUser ==
    ASSUME Inv, NEW a \in Agent, pc[a] \in InUse
    PROVE  Users = {a}
BY InvMutex DEF MutualExclusion, Users

\* Every step of the service is a step of CachedLock or leaves it unchanged.
LEMMA StepRefines == Inv /\ [Next]_vars => [CL!Next]_CL!vars
<1> SUFFICES ASSUME Inv, [Next]_vars PROVE [CL!Next]_(CL!vars)
  OBVIOUS
<1> USE HomeOfType DEF Slot, clientVars, serverVars
<1>a. TypeOK /\ ServerShape /\ InChargeOfOne /\ HolderAgreement
  BY DEF Inv
<1>b. HolderAgreement'
  BY NextInv DEF Inv
<1>c. ASSUME NEW c \in Client, Owns(c) PROVE Owner = c
  BY <1>a, <1>c DEF HolderAgreement, Owner
<1>d. ASSUME NEW c \in Client, Owns(c)' PROVE Owner' = c
  BY <1>b, <1>d DEF HolderAgreement, Owner
<1>e. ASSUME \A c \in Client : ~Owns(c) PROVE Owner = NoClient
  BY <1>e DEF Owner
<1>f. ASSUME \A c \in Client : ~Owns(c)' PROVE Owner' = NoClient
  BY <1>f DEF Owner
<1> DEFINE SameOwner == \A c \in Client : Owns(c)' <=> Owns(c)
<1>stutter. ASSUME SameOwner, Users' = Users PROVE [CL!Next]_(CL!vars)
  <2>1. Owner' = Owner
    BY <1>c, <1>d, <1>e, <1>f, <1>stutter
  <2>2. QED
    BY <1>stutter, <2>1 DEF CL!vars, Users
<1>use. ASSUME NEW a \in Agent, Users = {}, Users' = {a}, Owns(HomeOf(a)), Owns(HomeOf(a))'
        PROVE  [CL!Next]_(CL!vars)
  <2>1. Owner = HomeOf(a) /\ Owner' = HomeOf(a)
    BY <1>c, <1>d, <1>use
  <2>2. QED
    BY <1>use, <2>1 DEF CL!vars, CL!Next, CL!Use, Users
<1>refused. ASSUME NEW t \in Thread, pc[t] \in {"call_acquire", "retry_woken"}, NEW calls,
                   acquire_result(t, FALSE, calls)
            PROVE  [CL!Next]_(CL!vars)
  <2>1. /\ cstate' = cstate
        /\ \A a \in Agent : /\ pc'[a] = "call_release" <=> pc[a] = "call_release"
                            /\ pc'[a] \in InUse <=> pc[a] \in InUse
    BY <1>a, <1>refused, AcquireFailedEffect, Zenon DEF InUse
  <2>2. SameOwner
    BY <2>1, OwnsFrame
  <2>3. Users' = Users
    BY <2>1 DEF Users
  <2>4. QED
    BY <1>stutter, <2>2, <2>3
<1>1. ASSUME NEW t \in Thread, acquire_enter(t) PROVE [CL!Next]_(CL!vars)
  <2>1. SameOwner
    BY <1>a, <1>1 DEF acquire_enter, TypeOK, Owns
  <2>2. QED
    BY <1>a, <1>1, <1>stutter, <2>1 DEF acquire_enter, TypeOK, Users, InUse
<1>2. ASSUME NEW t \in Thread, acquire(t) PROVE [CL!Next]_(CL!vars)
  <2>1. CASE cstate[HomeOf(t)] = "FREE"
    <3>1. Owns(HomeOf(t)) /\ Users = {}
      BY <1>a, <2>1, FreeIsOwned DEF InChargeOfOne, Owns
    <3>2. pc' = [pc EXCEPT ![t] = "holds"] /\ cstate' = [cstate EXCEPT ![HomeOf(t)] = "LOCKED"]
      BY <1>2, <2>1 DEF acquire
    <3>3. Users' = {t}
      BY <1>a, <3>1, <3>2 DEF TypeOK, Users, InUse
    <3>4. Owns(HomeOf(t))'
      BY <1>a, <3>1, <3>2 DEF TypeOK, Owns
    <3>5. QED
      BY <1>use, <3>1, <3>3, <3>4
  <2>2. CASE cstate[HomeOf(t)] # "FREE"
    <3>1. \A c \in Client : \/ cstate'[c] = cstate[c]
                            \/ cstate[c] = "NONE" /\ cstate'[c] = "ACQUIRING"
      BY <1>a, <1>2, <2>2, AcquireEffect
    <3>2. \A a \in Agent : /\ pc'[a] = "call_release" <=> pc[a] = "call_release"
                           /\ pc'[a] \in InUse <=> pc[a] \in InUse
      BY <1>a, <1>2, <2>2, AcquireEffect DEF InUse
    <3>3. SameOwner
      BY <3>1, <3>2 DEF Owns
    <3>4. Users' = Users
      BY <3>2 DEF Users
    <3>5. QED
      BY <1>stutter, <3>3, <3>4
  <2>3. QED
    BY <2>1, <2>2
<1>3. ASSUME NEW t \in Thread, acquire_return(t) PROVE [CL!Next]_(CL!vars)
  <2>1. CASE call[t].phase = "acquire_OK"
    <3>1. InTransit(t)
      BY <2>1 DEF InTransit
    <3>2. Users = {} /\ Owner = NoClient
      BY <1>a, <1>e, <3>1, TransitIsUnused, OwnerExcludesTransit
    <3>3. /\ pc' = [pc EXCEPT ![t] = "holds"]
          /\ cstate' = [cstate EXCEPT ![HomeOf(t)] = "LOCKED"] /\ pc[t] = "call_acquire"
      BY <1>3, <2>1 DEF acquire_return, acquire_result
    <3>4. Users' = {t}
      BY <1>a, <3>2, <3>3 DEF TypeOK, Users, InUse
    <3>5. Owns(HomeOf(t))'
      BY <1>a, <3>3 DEF TypeOK, Owns, InChargeOfOne, InCharge
    <3>6. QED
      BY <1>d, <3>2, <3>4, <3>5 DEF CL!vars, CL!Next, CL!Take, Users
  <2>2. CASE call[t].phase # "acquire_OK"
    <3>1. pc[t] = "call_acquire" /\ acquire_result(t, FALSE, [call EXCEPT ![t] = NoCall])
      BY <1>3, <2>2, Zenon DEF acquire_return
    <3>2. QED
      BY <1>refused, <3>1, Zenon
  <2>3. QED
    BY <2>1, <2>2
<1>4. ASSUME NEW t \in Thread, acquire_retry(t) PROVE [CL!Next]_(CL!vars)
  BY <1>4, <1>refused, Zenon DEF acquire_retry
<1>5. ASSUME NEW t \in Thread, spurious_wakeup(t) PROVE [CL!Next]_(CL!vars)
  <2>1. SameOwner
    BY <1>a, <1>5 DEF spurious_wakeup, TypeOK, Owns
  <2>2. QED
    BY <1>a, <1>5, <1>stutter, <2>1 DEF spurious_wakeup, TypeOK, Users, InUse
<1>6. ASSUME NEW t \in Thread, release(t) PROVE [CL!Next]_(CL!vars)
  <2>1. pc[t] = "holds" /\ Users = {t} /\ Owns(HomeOf(t))
    BY <1>6, OneUser, UserIsOnRecord DEF release, InUse
  <2>2. CASE pc' = [pc EXCEPT ![t] = "dorelease"] /\ cstate' = cstate
    <3>1. SameOwner
      BY <1>a, <2>1, <2>2 DEF TypeOK, Owns
    <3>2. Users' = Users
      BY <1>a, <2>1, <2>2 DEF TypeOK, Users, InUse
    <3>3. QED
      BY <1>stutter, <3>1, <3>2
  <2>3. CASE /\ cstate' = [cstate EXCEPT ![HomeOf(t)] = "FREE"]
             /\ pc'[t] = "idle"
             /\ \A a \in Agent : a # t => pc'[a] = pc[a] \/ pc'[a] = "acquire"
    <3>1. Users' = {}
      BY <2>1, <2>3 DEF Users, InUse
    <3>2. Owns(HomeOf(t))'
      BY <1>a, <2>1, <2>3 DEF TypeOK, Owns
    <3>3. Owner = HomeOf(t) /\ Owner' = HomeOf(t)
      BY <1>c, <1>d, <2>1, <3>2
    <3>4. QED
      BY <2>1, <3>1, <3>3 DEF CL!vars, CL!Next, CL!Finish, Users
  <2>4. QED
    BY <1>a, <1>6, <2>2, <2>3, ReleaseEffect
<1>7. ASSUME NEW a \in Agent, dorelease(a) PROVE [CL!Next]_(CL!vars)
  <2>1. pc[a] = "dorelease" /\ Users = {a} /\ Owns(HomeOf(a))
    BY <1>7, OneUser, UserIsOnRecord DEF dorelease, InUse
  <2>2. Users' = {}
    BY <1>a, <1>7, <2>1 DEF dorelease, TypeOK, Users, InUse
  <2>3. \A c \in Client : Owns(c) => c = HomeOf(a)
    BY <1>a, <2>1 DEF HolderAgreement
  <2>4. \A c \in Client : ~Owns(c)'
    BY <1>a, <1>7, <2>1, <2>3 DEF dorelease, TypeOK, Owns
  <2>5. QED
    BY <1>f, <2>1, <2>2, <2>4 DEF CL!vars, CL!Next, CL!GiveUp, Users
<1>8. ASSUME NEW a \in Agent, pc[a] = "call_release", release_result(a)
      PROVE  [CL!Next]_(CL!vars)
  <2>1. /\ cstate'[HomeOf(a)] = "NONE" /\ pc'[a] = "idle"
        /\ \A c \in Client : c # HomeOf(a) => cstate'[c] = cstate[c]
        /\ \A b \in Agent : b # a => /\ pc'[b] = "call_release" <=> pc[b] = "call_release"
                                     /\ pc'[b] \in InUse <=> pc[b] \in InUse
    BY <1>a, <1>8, ReleaseResultEffect DEF InUse
  <2>2. ~Owns(HomeOf(a)) /\ ~Owns(HomeOf(a))'
    BY <1>8, <2>1 DEF Owns
  <2>3. SameOwner
    BY <2>1, <2>2 DEF Owns
  <2>4. Users' = Users
    BY <1>8, <2>1 DEF Users, InUse
  <2>5. QED
    BY <1>stutter, <2>3, <2>4
<1>9. ASSUME NEW s \in Slot, revoke_handler(s) PROVE [CL!Next]_(CL!vars)
  <2>1. PICK c \in Client :
           \/ /\ cstate[c] = "FREE" /\ cstate' = [cstate EXCEPT ![c] = "RELEASING"]
              /\ pc' = [pc EXCEPT ![c] = "dorelease"]
           \/ /\ cstate[c] = "LOCKED" /\ cstate' = [cstate EXCEPT ![c] = "RELEASING"]
              /\ pc' = pc
           \/ cstate' = cstate /\ pc' = pc
    BY <1>a, <1>9, RevokeEffect
  <2>2. CASE pc' = pc
    <3>1. SameOwner
      BY <1>a, <2>1, <2>2 DEF TypeOK, Owns
    <3>2. QED
      BY <1>stutter, <2>2, <3>1 DEF Users
  <2>3. CASE /\ cstate[c] = "FREE" /\ cstate' = [cstate EXCEPT ![c] = "RELEASING"]
             /\ pc' = [pc EXCEPT ![c] = "dorelease"]
    <3>1. Owns(c) /\ Users = {} /\ c \in Agent /\ HomeOf(c) = c
      BY <1>a, <2>3, FreeIsOwned DEF InChargeOfOne, Owns
    <3>2. Users' = {c}
      BY <1>a, <2>3, <3>1 DEF TypeOK, Users, InUse
    <3>3. Owns(c)'
      BY <1>a, <2>3, <3>1 DEF TypeOK, Owns
    <3>4. QED
      BY <1>use, <3>1, <3>2, <3>3
  <2>4. QED
    BY <2>1, <2>2, <2>3
<1>10. ASSUME NEW s \in Slot, retry_handler(s) PROVE [CL!Next]_(CL!vars)
  <2>1. /\ UNCHANGED cstate
        /\ \A a \in Agent : /\ pc'[a] = "call_release" <=> pc[a] = "call_release"
                            /\ pc'[a] \in InUse <=> pc[a] \in InUse
    BY <1>a, <1>10, RetryEffect DEF InUse
  <2>2. SameOwner
    BY <2>1 DEF Owns
  <2>3. Users' = Users
    BY <2>1 DEF Users
  <2>4. QED
    BY <1>stutter, <2>2, <2>3
<1>11. ASSUME UNCHANGED <<cstate, pc>> PROVE [CL!Next]_(CL!vars)
  BY <1>11, <1>stutter DEF Owns, Users
<1>12. ASSUME ClientNext PROVE [CL!Next]_(CL!vars)
  BY <1>12, <1>1, <1>2, <1>3, <1>4, <1>5, <1>6, <1>7, <1>8, <1>9, <1>10
     DEF ClientNext, release_return
<1>13. ASSUME ServerNext PROVE [CL!Next]_(CL!vars)
  BY <1>13, <1>11 DEF ServerNext, server_acquire, server_release
<1>14. ASSUME FaultNext PROVE [CL!Next]_(CL!vars)
  BY <1>14, <1>8, <1>refused, <1>11
     DEF FaultNext, acquire_timeout, release_timeout, nested_timeout, discard
<1>15. CASE UNCHANGED vars
  BY <1>11, <1>15 DEF vars
<1>16. QED
  BY <1>12, <1>13, <1>14, <1>15 DEF Next

\* The caching lock service, with all its messages, late calls and condition
\* variables, implements the lock its users are promised: one owner at a time,
\* used by its own agents only, and given up only when unused and flushed.
THEOREM Refinement == Spec => ImplementsCachedLock
<1>1. Init => CL!Init
  BY HomeOfType DEF Init, CL!Init, InUse, Owner, Owns
<1>2. QED
  BY <1>1, StepRefines, Invariance, PTL DEF Spec, ImplementsCachedLock, CL!Spec
=============================================================================
