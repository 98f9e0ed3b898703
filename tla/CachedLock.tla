----------------------------- MODULE CachedLock -----------------------------
(***************************************************************************)
(* What the caching lock service promises its users.  At any time at most  *)
(* one client owns the lock, only agents of the owner use it (run a        *)
(* critical section, or flush the data the lock protects), one at a time.  *)
(* A client keeps the lock between two uses, and gives it up at the end of *)
(* a use, the one in which it flushed the data.                            *)
(***************************************************************************)
CONSTANTS Client, Agent, Place, NoClient

VARIABLES owner,   \* the client that owns the lock, or NoClient
          users    \* the agents that use it

vars == <<owner, users>>

Init == owner = NoClient /\ users = {}

Take(a) == owner = NoClient /\ users = {} /\ owner' = Place[a] /\ users' = {a}

Use(a) == owner = Place[a] /\ users = {} /\ users' = {a} /\ UNCHANGED owner

Finish(a) == users = {a} /\ users' = {} /\ UNCHANGED owner

GiveUp(a) == users = {a} /\ users' = {} /\ owner' = NoClient

Next == \E a \in Agent : Take(a) \/ Use(a) \/ Finish(a) \/ GiveUp(a)

Spec == Init /\ [][Next]_vars
=============================================================================
