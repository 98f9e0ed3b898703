----------------------------- MODULE LockCache -----------------------------
(***************************************************************************)
(* The caching lock service: lock_client_cache (one per YFS client, used   *)
(* by several threads) and lock_server_cache, for one lock id.  The maps   *)
(* `locks' of both sides are keyed by lock id and no operation touches two *)
(* keys, so one id stands for each of them.                                *)
(*                                                                         *)
(* A call through the RPC library occupies a slot.  The slot of an agent   *)
(* holds the acquire or release call it is waiting for; while the server   *)
(* serves that call it may itself be waiting for a nested revoke or retry  *)
(* call to a client.  A call whose caller gave up moves to a slot of Late, *)
(* where it may still be served, or be lost.  With Late = {} no call fails.*)
(***************************************************************************)
EXTENDS Naturals

CONSTANTS Client,    \* ids of the lock clients ("host:port"), compared as in std::set<string>
          Thread,    \* the threads that call acquire and release
          Home,      \* the client each thread belongs to
          Late       \* slots for calls whose caller timed out

ASSUME ConstantsAssumption ==
    /\ Client \subseteq Nat \ {0}
    /\ Home \in [Thread -> Client]
    /\ Thread \cap Client = {}
    /\ Late \cap (Thread \cup Client) = {}

\* The agents that run client code: the threads, and for each client the
\* RPC dispatch thread that runs its revoke_handler, named by the client's id.
Agent == Thread \cup Client
Slot == Agent \cup Late
HomeOf(a) == IF a \in Client THEN a ELSE Home[a]

NoClient == 0      \* the empty string in CacheLock::client

VARIABLES
    cstate,    \* ClientCacheLock::state of each client
    revoke,    \* ClientCacheLock::revoke
    retry,     \* ClientCacheLock::retry
    pc,        \* where each agent is
    sstate,    \* CacheLock::state
    client,    \* CacheLock::client
    queue,     \* CacheLock::queue
    call,      \* the client-to-server call of each slot
    nested     \* the server-to-client call made while serving it

clientVars == <<cstate, revoke, retry, pc>>
serverVars == <<sstate, client, queue>>
vars == <<cstate, revoke, retry, pc, sstate, client, queue, call, nested>>

ClientState == {"NONE", "FREE", "LOCKED", "ACQUIRING", "RELEASING"}
ServerState == {"FREE", "LOCKED", "LOCKED_AND_WAIT", "ORDERED"}
AcquirePhase == {"acquire", "acquire_OK", "acquire_RETRY"}
ReleasePhase == {"release", "release_OK"}
ThreadPC == {"idle", "acquire", "wait_cond", "release_cond", "call_acquire",
             "retry_cond", "retry_woken", "holds", "dorelease", "call_release"}
HandlerPC == {"idle", "dorelease", "call_release"}

NoCall == [phase |-> "none", id |-> NoClient]
Request(phase, c) == [phase |-> phase, id |-> c]
NoNested == [kind |-> "none", to |-> NoClient, at |-> "none"]
Nested(kind, c) == [kind |-> kind, to |-> c, at |-> "sent"]

Calls == {NoCall} \cup [phase : AcquirePhase \cup ReleasePhase, id : Client]
NestedCalls ==
    {NoNested} \cup [kind : {"revoke", "retry"}, to : Client, at : {"sent", "running"}]

TypeOK ==
    /\ cstate \in [Client -> ClientState]
    /\ revoke \in [Client -> Nat]
    /\ retry \in [Client -> {0, 1}]
    /\ pc \in [Agent -> ThreadPC]
    /\ \A c \in Client : pc[c] \in HandlerPC
    /\ sstate \in ServerState
    /\ client \in Client \cup {NoClient}
    /\ queue \in SUBSET Client
    /\ call \in [Slot -> Calls]
    /\ nested \in [Slot -> NestedCalls]

Init ==
    /\ cstate = [c \in Client |-> "NONE"]
    /\ revoke = [c \in Client |-> 0]
    /\ retry = [c \in Client |-> 0]
    /\ pc = [a \in Agent |-> "idle"]
    /\ sstate = "FREE"
    /\ client = NoClient
    /\ queue = {}
    /\ call = [s \in Slot |-> NoCall]
    /\ nested = [s \in Slot |-> NoNested]

-----------------------------------------------------------------------------
(***************************************************************************)
(* lock_client_cache.  Every section under `mutex' is one action.          *)
(***************************************************************************)

Blocked(c, cond) == {b \in Agent : HomeOf(b) = c /\ pc[b] = cond}

\* pthread_cond_signal: one blocked thread, if any, leaves the condition variable.
Signalled(c, cond, next, pcs) ==
    IF Blocked(c, cond) = {} THEN {pcs}
    ELSE {[pcs EXCEPT ![b] = next] : b \in Blocked(c, cond)}

\* A thread of the client's user enters acquire().
acquire_enter(t) ==
    /\ pc[t] = "idle"
    /\ pc' = [pc EXCEPT ![t] = "acquire"]
    /\ UNCHANGED <<cstate, revoke, retry, serverVars, call, nested>>

\* Mutant of acquire: the state is not set before the mutex is let go for the RPC.
acquire_unmarked(t) ==
    LET c == HomeOf(t) IN
    /\ pc[t] = "acquire" /\ cstate[c] \in {"NONE", "FREE"}
    /\ pc' = [pc EXCEPT ![t] = IF cstate[c] = "NONE" THEN "call_acquire" ELSE "holds"]
    /\ call' = [call EXCEPT ![t] = IF cstate[c] = "NONE" THEN Request("acquire", c) ELSE @]
    /\ cstate' = [cstate EXCEPT ![c] = IF @ = "NONE" THEN "NONE" ELSE "LOCKED"]
    /\ UNCHANGED <<revoke, retry, serverVars, nested>>

\* The do-loop of acquire() up to the point where the thread blocks, owns the
\* lock, or makes the acquire RPC.
acquire(t) ==
    LET c == HomeOf(t) IN
    /\ pc[t] = "acquire"
    /\ \/ /\ cstate[c] = "NONE"
          /\ cstate' = [cstate EXCEPT ![c] = "ACQUIRING"]
          /\ pc' = [pc EXCEPT ![t] = "call_acquire"]
          /\ call' = [call EXCEPT ![t] = Request("acquire", c)]
       \/ /\ cstate[c] = "FREE"
          /\ cstate' = [cstate EXCEPT ![c] = "LOCKED"]
          /\ pc' = [pc EXCEPT ![t] = "holds"]
          /\ UNCHANGED call
       \/ /\ cstate[c] \in {"ACQUIRING", "LOCKED"}
          /\ pc' = [pc EXCEPT ![t] = "wait_cond"]
          /\ UNCHANGED <<cstate, call>>
       \/ /\ cstate[c] = "RELEASING"
          /\ pc' = [pc EXCEPT ![t] = "release_cond"]
          /\ UNCHANGED <<cstate, call>>
    /\ UNCHANGED <<revoke, retry, serverVars, nested>>

\* The section after the acquire RPC returned: any result but OK, a failed call
\* included, waits for a retry; `calls' is call without the finished one.
acquire_result(t, ok, calls) ==
    LET c == HomeOf(t) IN
    \/ /\ ok
       /\ cstate' = [cstate EXCEPT ![c] = "LOCKED"]
       /\ pc' = [pc EXCEPT ![t] = "holds"]
       /\ call' = calls
       /\ UNCHANGED retry
    \/ /\ ~ok /\ retry[c] = 1
       /\ retry' = [retry EXCEPT ![c] = 0]
       /\ pc' = [pc EXCEPT ![t] = "call_acquire"]
       /\ call' = [calls EXCEPT ![t] = Request("acquire", c)]
       /\ UNCHANGED cstate
    \/ /\ ~ok /\ retry[c] = 0
       /\ pc' = [pc EXCEPT ![t] = "retry_cond"]
       /\ call' = calls
       /\ UNCHANGED <<cstate, retry>>

acquire_return(t) ==
    /\ pc[t] = "call_acquire"
    /\ call[t].phase \in {"acquire_OK", "acquire_RETRY"}
    /\ nested[t] = NoNested
    /\ acquire_result(t, call[t].phase = "acquire_OK", [call EXCEPT ![t] = NoCall])
    /\ UNCHANGED <<revoke, serverVars, nested>>

\* The thread woken from retry_cond looks at the flag again.
acquire_retry(t) ==
    /\ pc[t] = "retry_woken"
    /\ acquire_result(t, FALSE, call)
    /\ UNCHANGED <<revoke, serverVars, nested>>

\* pthread_cond_wait may return without a signal.
spurious_wakeup(t) ==
    /\ \/ /\ pc[t] \in {"wait_cond", "release_cond"}
          /\ pc' = [pc EXCEPT ![t] = "acquire"]
       \/ /\ pc[t] = "retry_cond"
          /\ pc' = [pc EXCEPT ![t] = "retry_woken"]
    /\ UNCHANGED <<cstate, revoke, retry, serverVars, call, nested>>

\* Mutant of release: no waiting thread is signalled.
release_silent(t) ==
    LET c == HomeOf(t)
        give == revoke[c] > 0 \/ cstate[c] = "RELEASING" IN
    /\ pc[t] = "holds"
    /\ revoke' = [revoke EXCEPT ![c] = IF @ > 0 THEN @ - 1 ELSE @]
    /\ pc' = [pc EXCEPT ![t] = IF give THEN "dorelease" ELSE "idle"]
    /\ cstate' = [cstate EXCEPT ![c] = IF give THEN @ ELSE "FREE"]
    /\ UNCHANGED <<retry, serverVars, call, nested>>

\* release() by the thread that holds the lock.  With a revoke pending the state
\* stays LOCKED until the release RPC has returned.
release(t) ==
    LET c == HomeOf(t) IN
    /\ pc[t] = "holds"
    /\ \/ /\ revoke[c] > 0
          /\ revoke' = [revoke EXCEPT ![c] = @ - 1]
          /\ pc' = [pc EXCEPT ![t] = "dorelease"]
          /\ UNCHANGED cstate
       \/ /\ revoke[c] = 0 /\ cstate[c] = "RELEASING"
          /\ pc' = [pc EXCEPT ![t] = "dorelease"]
          /\ UNCHANGED <<cstate, revoke>>
       \/ /\ revoke[c] = 0 /\ cstate[c] # "RELEASING"
          /\ cstate' = [cstate EXCEPT ![c] = IF @ = "LOCKED" THEN "FREE" ELSE @]
          /\ LET pcs == [pc EXCEPT ![t] = "idle"] IN
             pc' \in IF cstate[c] = "LOCKED" THEN Signalled(c, "wait_cond", "acquire", pcs)
                     ELSE {pcs}
          /\ UNCHANGED revoke
    /\ UNCHANGED <<retry, serverVars, call, nested>>

\* release_flag, in release() and in revoke_handler(): dorelease() has flushed
\* the extent, and the release RPC is sent.
dorelease(a) ==
    /\ pc[a] = "dorelease"
    /\ pc' = [pc EXCEPT ![a] = "call_release"]
    /\ call' = [call EXCEPT ![a] = Request("release", HomeOf(a))]
    /\ UNCHANGED <<cstate, revoke, retry, serverVars, nested>>

\* The section after the release RPC, whatever it returned: state NONE, both
\* broadcasts; if it ends a revoke_handler, the revoke call returns.
release_result(a) ==
    LET c == HomeOf(a) IN
    /\ cstate' = [cstate EXCEPT ![c] = "NONE"]
    /\ pc' = [b \in Agent |->
                 IF b = a THEN "idle"
                 ELSE IF HomeOf(b) = c /\ pc[b] \in {"wait_cond", "release_cond"} THEN "acquire"
                 ELSE pc[b]]

Returned(a, nst) ==
    [s \in Slot |-> IF a \in Client /\ nst[s] = [Nested("revoke", a) EXCEPT !.at = "running"]
                    THEN NoNested ELSE nst[s]]

release_return(a) ==
    /\ pc[a] = "call_release"
    /\ call[a].phase = "release_OK"
    /\ nested[a] = NoNested
    /\ release_result(a)
    /\ call' = [call EXCEPT ![a] = NoCall]
    /\ nested' = Returned(a, nested)
    /\ UNCHANGED <<revoke, retry, serverVars>>

\* Mutant of AfterRevoke: a FREE lock is not marked before it is given back.
AfterRevoke_unmarked ==
    [NONE |-> "NONE", FREE |-> "FREE", LOCKED |-> "RELEASING",
     ACQUIRING |-> "ACQUIRING", RELEASING |-> "RELEASING"]

\* The state after revoke_handler's section; where it is unchanged, revoke is counted.
AfterRevoke ==
    [NONE |-> "NONE", FREE |-> "RELEASING", LOCKED |-> "RELEASING",
     ACQUIRING |-> "ACQUIRING", RELEASING |-> "RELEASING"]

\* Mutant of revoke_handler: a revoke that overtakes the grant is dropped.
revoke_handler_uncounted(s) ==
    LET c == nested[s].to IN
    /\ nested[s].kind = "revoke" /\ nested[s].at = "sent"
    /\ cstate' = [cstate EXCEPT ![c] = AfterRevoke[@]]
    /\ pc' = [pc EXCEPT ![c] = IF cstate[c] = "FREE" THEN "dorelease" ELSE @]
    /\ nested' = [nested EXCEPT ![s] = IF cstate[c] = "FREE" THEN [@ EXCEPT !.at = "running"]
                                       ELSE NoNested]
    /\ UNCHANGED <<revoke, retry, serverVars, call>>

\* Mutant of revoke_handler: the handler also releases a lock that is in use.
revoke_handler_used(s) ==
    LET c == nested[s].to  held == cstate[c] \in {"FREE", "LOCKED"} IN
    /\ nested[s].kind = "revoke" /\ nested[s].at = "sent"
    /\ cstate' = [cstate EXCEPT ![c] = AfterRevoke[@]]
    /\ revoke' = [revoke EXCEPT ![c] = IF held THEN @ ELSE @ + 1]
    /\ pc' = [pc EXCEPT ![c] = IF held THEN "dorelease" ELSE @]
    /\ nested' = [nested EXCEPT ![s] = IF held THEN [@ EXCEPT !.at = "running"] ELSE NoNested]
    /\ UNCHANGED <<retry, serverVars, call>>

\* revoke_handler().  Only a FREE lock is released by the handler itself; the
\* call then returns when the release is done.
revoke_handler(s) ==
    LET c == nested[s].to IN
    /\ nested[s].kind = "revoke" /\ nested[s].at = "sent"
    /\ cstate' = [cstate EXCEPT ![c] = AfterRevoke[@]]
    /\ revoke' = [revoke EXCEPT ![c] = IF AfterRevoke[cstate[c]] = cstate[c] THEN @ + 1 ELSE @]
    /\ pc' = [pc EXCEPT ![c] = IF cstate[c] = "FREE" THEN "dorelease" ELSE @]
    /\ nested' = [nested EXCEPT ![s] = IF cstate[c] = "FREE" THEN [@ EXCEPT !.at = "running"]
                                       ELSE NoNested]
    /\ UNCHANGED <<retry, serverVars, call>>

\* Mutant of retry_handler: the thread is signalled but the flag is not set.
retry_handler_unset(s) ==
    /\ nested[s].kind = "retry"
    /\ pc' \in Signalled(nested[s].to, "retry_cond", "retry_woken", pc)
    /\ nested' = [nested EXCEPT ![s] = NoNested]
    /\ UNCHANGED <<cstate, revoke, retry, serverVars, call>>

\* retry_handler().
retry_handler(s) ==
    LET c == nested[s].to IN
    /\ nested[s].kind = "retry"
    /\ retry' = [retry EXCEPT ![c] = 1]
    /\ pc' \in Signalled(c, "retry_cond", "retry_woken", pc)
    /\ nested' = [nested EXCEPT ![s] = NoNested]
    /\ UNCHANGED <<cstate, revoke, serverVars, call>>

-----------------------------------------------------------------------------
(***************************************************************************)
(* lock_server_cache.  The section under server_mutex is one action; the   *)
(* handler then waits for its nested call, if it makes one, and returns.   *)
(***************************************************************************)

Answered(s, phase) == [call EXCEPT ![s].phase = phase]

grant_free(s) ==
    /\ sstate = "FREE"
    /\ sstate' = "LOCKED"
    /\ client' = call[s].id
    /\ call' = Answered(s, "acquire_OK")
    /\ UNCHANGED <<queue, nested>>

\* Mutant of queue_and_revoke: nobody is revoked.
queue_unrevoked(s) ==
    /\ sstate = "LOCKED"
    /\ sstate' = "LOCKED_AND_WAIT"
    /\ queue' = queue \cup {call[s].id}
    /\ call' = Answered(s, "acquire_RETRY")
    /\ UNCHANGED <<client, nested>>

\* The first waiter: the holder is revoked.
queue_and_revoke(s) ==
    /\ sstate = "LOCKED"
    /\ sstate' = "LOCKED_AND_WAIT"
    /\ queue' = queue \cup {call[s].id}
    /\ call' = Answered(s, "acquire_RETRY")
    /\ nested' = [nested EXCEPT ![s] = Nested("revoke", client)]
    /\ UNCHANGED client

\* Mutant of queue_only: each further waiter revokes.
queue_only_revoking(s) ==
    /\ sstate = "LOCKED_AND_WAIT"
    /\ queue' = queue \cup {call[s].id}
    /\ call' = Answered(s, "acquire_RETRY")
    /\ nested' = [nested EXCEPT ![s] = Nested("revoke", client)]
    /\ UNCHANGED <<sstate, client>>

\* A further waiter, or one that comes while the lock is set aside for another.
queue_only(s) ==
    /\ \/ sstate = "LOCKED_AND_WAIT"
       \/ sstate = "ORDERED" /\ call[s].id \notin queue
    /\ queue' = queue \cup {call[s].id}
    /\ call' = Answered(s, "acquire_RETRY")
    /\ UNCHANGED <<sstate, client, nested>>

\* Mutants of grant_ordered: the client stays queued; the new holder is not
\* recorded.
grant_ordered_queued(s) ==
    /\ sstate = "ORDERED" /\ call[s].id \in queue
    /\ client' = call[s].id
    /\ sstate' = "LOCKED"
    /\ call' = Answered(s, "acquire_OK")
    /\ UNCHANGED <<queue, nested>>

grant_ordered_unrecorded(s) ==
    /\ sstate = "ORDERED" /\ call[s].id \in queue
    /\ queue' = queue \ {call[s].id}
    /\ sstate' = IF queue' = {} THEN "LOCKED" ELSE "LOCKED_AND_WAIT"
    /\ call' = Answered(s, "acquire_OK")
    /\ UNCHANGED <<client, nested>>

\* A queued client takes the lock; if others still wait it is revoked at once,
\* before it has the reply.
grant_ordered(s) ==
    LET rest == queue \ {call[s].id} IN
    /\ sstate = "ORDERED" /\ call[s].id \in queue
    /\ client' = call[s].id
    /\ queue' = rest
    /\ sstate' = IF rest = {} THEN "LOCKED" ELSE "LOCKED_AND_WAIT"
    /\ nested' = [nested EXCEPT ![s] = IF rest = {} THEN @ ELSE Nested("revoke", call[s].id)]
    /\ call' = Answered(s, "acquire_OK")

server_acquire(s) ==
    /\ call[s].phase = "acquire"
    /\ grant_free(s) \/ queue_and_revoke(s) \/ queue_only(s) \/ grant_ordered(s)
    /\ UNCHANGED clientVars

\* *(queue.begin()) of a std::set: the least id.
begin(q) == CHOOSE c \in q : \A d \in q : c <= d

AfterRelease ==
    [FREE |-> "FREE", LOCKED |-> "FREE", LOCKED_AND_WAIT |-> "ORDERED", ORDERED |-> "ORDERED"]

\* release() of the server never looks at who releases.
server_release(s) ==
    /\ call[s].phase = "release"
    /\ sstate' = AfterRelease[sstate]
    /\ client' = IF AfterRelease[sstate] = sstate THEN client ELSE NoClient
    /\ nested' = [nested EXCEPT ![s] = IF sstate = "LOCKED_AND_WAIT"
                                       THEN Nested("retry", begin(queue)) ELSE @]
    /\ call' = Answered(s, "release_OK")
    /\ UNCHANGED <<queue, clientVars>>

-----------------------------------------------------------------------------
(***************************************************************************)
(* Failed calls.  rpcc::call1 gives up after to.to and returns a negative  *)
(* value to its caller; the request, or the handler it started, may live on*)
(***************************************************************************)

FreeSlot(l) == call[l] = NoCall /\ nested[l] = NoNested

\* The call of agent a, and the server's work on it, are no longer waited for.
Abandoned(a, l) == [call EXCEPT ![l] = call[a], ![a] = NoCall]
AbandonedNested(a, l) == [nested EXCEPT ![l] = nested[a], ![a] = NoNested]

acquire_timeout(t, l) ==
    /\ pc[t] = "call_acquire"
    /\ FreeSlot(l)
    /\ acquire_result(t, FALSE, Abandoned(t, l))
    /\ nested' = AbandonedNested(t, l)
    /\ UNCHANGED <<revoke, serverVars>>

release_timeout(a, l) ==
    /\ pc[a] = "call_release"
    /\ FreeSlot(l)
    /\ release_result(a)
    /\ call' = Abandoned(a, l)
    /\ nested' = Returned(a, AbandonedNested(a, l))
    /\ UNCHANGED <<revoke, retry, serverVars>>

\* The server's revoke or retry call fails; acquire and release ignore that and
\* answer their own caller.
nested_timeout(s, l) ==
    /\ nested[s] # NoNested /\ call[s] # NoCall
    /\ FreeSlot(l)
    /\ nested' = AbandonedNested(s, l)
    /\ UNCHANGED <<clientVars, serverVars, call>>

\* An abandoned request never arrives, or the reply to it finds no caller.
discard(l) ==
    /\ \/ /\ call[l] # NoCall /\ nested[l] = NoNested
          /\ call' = [call EXCEPT ![l] = NoCall]
          /\ UNCHANGED nested
       \/ /\ call[l] = NoCall /\ nested[l].at = "sent"
          /\ nested' = [nested EXCEPT ![l] = NoNested]
          /\ UNCHANGED call
    /\ UNCHANGED <<clientVars, serverVars>>

-----------------------------------------------------------------------------

ClientNext ==
    \/ \E t \in Thread : \/ acquire_enter(t) \/ acquire(t) \/ acquire_return(t)
                         \/ acquire_retry(t) \/ spurious_wakeup(t) \/ release(t)
    \/ \E a \in Agent : dorelease(a) \/ release_return(a)
    \/ \E s \in Slot : revoke_handler(s) \/ retry_handler(s)

ServerNext == \E s \in Slot : server_acquire(s) \/ server_release(s)

FaultNext ==
    \E l \in Late : \/ \E t \in Thread : acquire_timeout(t, l)
                    \/ \E a \in Agent : release_timeout(a, l)
                    \/ \E s \in Slot : nested_timeout(s, l)
                    \/ discard(l)

Next == ClientNext \/ ServerNext \/ FaultNext

Spec == Init /\ [][Next]_vars

\* Threads that run, handlers that were dispatched and requests that were sent
\* are scheduled; no thread has to start an acquire, spurious wakeups and
\* failures never have to happen.
Fairness ==
    /\ \A t \in Thread : /\ WF_vars(acquire(t)) /\ WF_vars(acquire_return(t))
                         /\ WF_vars(acquire_retry(t)) /\ WF_vars(release(t))
    /\ \A a \in Agent : WF_vars(dorelease(a)) /\ WF_vars(release_return(a))
    /\ \A s \in Agent : /\ WF_vars(revoke_handler(s)) /\ WF_vars(retry_handler(s))
                        /\ WF_vars(server_acquire(s)) /\ WF_vars(server_release(s))

FairSpec == Spec /\ Fairness
-----------------------------------------------------------------------------
(***************************************************************************)
(* What the service promises.                                              *)
(***************************************************************************)

InUse == {"holds", "dorelease"}
InCharge == {"call_acquire", "retry_cond", "retry_woken", "holds", "dorelease", "call_release"}

\* Client c has the lock and has not begun to give it back.
Owns(c) ==
    /\ cstate[c] \in {"FREE", "LOCKED", "RELEASING"}
    /\ \A a \in Agent : HomeOf(a) = c => pc[a] # "call_release"

\* The lock is on its way to or from a client: granted but not yet received, or
\* sent back but not yet taken by the server.
InTransit(s) == call[s].phase \in {"acquire_OK", "release"}

\* One agent of a client is in charge of its lock, its phase fits the cached
\* state, and it is the only one with a call in progress, in the client's name.
InChargeOfOne ==
    /\ \A a, b \in Agent :
          HomeOf(a) = HomeOf(b) /\ pc[a] \in InCharge /\ pc[b] \in InCharge => a = b
    /\ \A a \in Agent :
          /\ pc[a] \in {"call_acquire", "retry_cond", "retry_woken"} =>
                cstate[HomeOf(a)] = "ACQUIRING"
          /\ pc[a] \in {"holds", "dorelease", "call_release"} =>
                cstate[HomeOf(a)] \in {"LOCKED", "RELEASING"}
          /\ call[a].phase \in AcquirePhase => pc[a] = "call_acquire"
          /\ call[a].phase \in ReleasePhase => pc[a] = "call_release"
          /\ call[a] # NoCall => call[a].id = HomeOf(a)

\* At most one agent of all clients is between the return of acquire() and the
\* end of dorelease(): two critical sections never overlap, and no extent is
\* flushed by one client while another client's thread already holds the lock.
MutualExclusion == \A a, b \in Agent : pc[a] \in InUse /\ pc[b] \in InUse => a = b

\* Whoever has the lock cached, is being granted it or is giving it back is the
\* client the server has on record, and at most one of the three is the case.
HolderAgreement ==
    /\ \A c \in Client : Owns(c) => client = c /\ sstate \in {"LOCKED", "LOCKED_AND_WAIT"}
    /\ \A s \in Slot : InTransit(s) =>
          /\ client = call[s].id /\ sstate \in {"LOCKED", "LOCKED_AND_WAIT"}
          /\ ~Owns(call[s].id)
    /\ \A r, s \in Slot : InTransit(r) /\ InTransit(s) => r = s

\* A release finds its sender on record with others waiting.
ReleaseExpected ==
    \A s \in Slot : call[s].phase = "release" => sstate = "LOCKED_AND_WAIT" /\ client = call[s].id

\* A revoke, the only one of its grant, finds the client with the lock or about
\* to get it.
RevokeExpected ==
    \A s \in Slot : nested[s].kind = "revoke" /\ nested[s].at = "sent" =>
        LET c == nested[s].to IN
        /\ client = c /\ sstate = "LOCKED_AND_WAIT" /\ revoke[c] = 0
        /\ cstate[c] \in {"ACQUIRING", "LOCKED", "FREE"}
        /\ \A r \in Slot : nested[r].kind = "revoke" /\ nested[r].at = "sent" => r = s

\* A retry finds a client that is queued and in acquire(), with no earlier retry
\* that it would be merged with.
RetryExpected ==
    \A s \in Slot : nested[s].kind = "retry" =>
        LET c == nested[s].to IN
        /\ sstate = "ORDERED" /\ c \in queue
        /\ cstate[c] = "ACQUIRING" /\ retry[c] = 0
        /\ \A r \in Slot : nested[r].kind = "retry" => r = s

\* Every call between client and server is expected where it arrives, however
\* late.  A client releases only after it was revoked, so that none of the ERR
\* branches of the server's release() is taken; a revoke never meets NONE or
\* RELEASING, where it would be counted and make the client give up a later grant
\* that nobody asked for; and no retry is lost in another.
CallsExpected == ReleaseExpected /\ RevokeExpected /\ RetryExpected

\* The lock has a holder on record exactly when it is LOCKED or LOCKED_AND_WAIT,
\* and clients wait exactly when it is LOCKED_AND_WAIT or ORDERED: the ERRs about
\* a queue on a free lock are not reached, *(queue.begin()) is never taken of an
\* empty queue, and no revoke goes to the empty address.
ServerShape ==
    /\ sstate \in {"LOCKED", "LOCKED_AND_WAIT"} <=> client # NoClient
    /\ sstate \in {"LOCKED_AND_WAIT", "ORDERED"} <=> queue # {}

\* The inductive invariant behind MutualExclusion.
Inv == TypeOK /\ ServerShape /\ InChargeOfOne /\ HolderAgreement

\* No thread sleeps on a condition that has become true without a thread on
\* its way to look: the lock is free or gone, released, or the retry is there.
\* If no call fails, the server has queued the client of a thread that is asleep
\* on retry_cond, so that the retry for it is still to come.
NoLostWakeup ==
    \A t \in Thread : LET c == HomeOf(t) IN
        /\ pc[t] = "wait_cond" /\ cstate[c] \in {"NONE", "FREE"} =>
              \E u \in Thread : HomeOf(u) = c /\ pc[u] = "acquire"
        /\ pc[t] = "release_cond" => cstate[c] = "RELEASING"
        /\ pc[t] = "retry_cond" => retry[c] = 0 /\ (Late = {} => c \in queue)

\* The service as its users see it: CachedLock.  A client owns the lock from the
\* time it has the server's OK until its flush is done and the release RPC sent.
Owner == IF \E c \in Client : Owns(c) THEN CHOOSE c \in Client : Owns(c) ELSE NoClient
CL == INSTANCE CachedLock WITH Place <- [a \in Agent |-> HomeOf(a)],
                               owner <- Owner,
                               users <- {a \in Agent : pc[a] \in InUse}
ImplementsCachedLock == CL!Spec

\* Every acquire() of a thread that is its client's only user returns, however
\* often the other client's threads take the lock.  (For two clients: among three,
\* std::set order lets the two least ids pass the lock to each other.)
AcquireReturns ==
    \A t \in Thread : (\A b \in Thread : Home[b] = Home[t] => b = t) =>
        (pc[t] = "acquire" ~> pc[t] = "holds")

\* No acquire() sleeps for ever unless other threads get the lock for ever.
NoStuckAcquire ==
    \A t \in Thread : \/ []<>(pc[t] \in {"idle", "holds"})
                      \/ []<>(\E u \in Thread \ {t} : pc[u] = "holds")

\* A revoked client gives the lock back: waiting clients do not wait for ever
\* on a client that has the lock cached.
RevokeObeyed == \A c \in Client : sstate = "LOCKED_AND_WAIT" /\ client = c ~> client # c
=============================================================================
