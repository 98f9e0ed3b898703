------------------------------ MODULE MCLocks ------------------------------
(***************************************************************************)
(* The two lock services for TLC: a behaviour is that of the caching one   *)
(* or that of the other, which stays where it starts otherwise.            *)
(***************************************************************************)
EXTENDS MCLockCache

CONSTANTS Worker, Capacity, Pill, Nonce

VARIABLES service, q_, worker, job, non_empty_c_, has_space_c_, pills, locks, cond, calls

L == INSTANCE LockServer WITH Client <- Nonce, call <- calls

serverLockVars ==
    <<q_, worker, job, non_empty_c_, has_space_c_, pills, locks, cond, calls>>
locksVars == <<service, vars, serverLockVars>>

CacheStep == service = "lock_server_cache" /\ Next /\ UNCHANGED <<service, serverLockVars>>
ServerStep(A) == service = "lock_server" /\ A /\ UNCHANGED <<service, vars>>

\* LockServer's fairness, on steps that are taken only when it is the service;
\* nothing is due of LockCache where it starts.
LocksFairness ==
    /\ Fairness
    /\ \A w \in Worker :
        /\ WF_locksVars(ServerStep(L!Take(w)))
        /\ WF_locksVars(ServerStep(L!acquire(w)))
        /\ WF_locksVars(ServerStep(L!release(w)))
    /\ \A c \in Nonce : WF_locksVars(ServerStep(L!client_release(c)))

LocksInit == service \in {"lock_server_cache", "lock_server"} /\ Init /\ L!Init
LocksNext == CacheStep \/ ServerStep(L!Next)
LocksSpec == LocksInit /\ [][LocksNext]_locksVars /\ LocksFairness

\* lock_server gives the lock to one client at a time.
OneHolder == L!OneHolder

\* Releases get through to lock_server, and a wanted lock is granted.
LockMoves == L!LockMoves
=============================================================================
