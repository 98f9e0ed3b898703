---------------------------- MODULE AtMostOnce ----------------------------
(***************************************************************************)
(* What the RPC library promises its callers: a call is executed at most   *)
(* once; one that succeeds has been executed; one that fails may or may    *)
(* not have been, and may still be executed later.                         *)
(***************************************************************************)
EXTENDS Naturals

CONSTANT Call

VARIABLES status,     \* of each call, as its caller sees it
          executed    \* how often its handler was run

vars == <<status, executed>>

Init == status = [c \in Call |-> "none"] /\ executed = [c \in Call |-> 0]

Issue(c) ==
    /\ status[c] = "none"
    /\ status' = [status EXCEPT ![c] = "called"]
    /\ UNCHANGED executed

Execute(c) ==
    /\ status[c] # "none" /\ executed[c] = 0
    /\ executed' = [executed EXCEPT ![c] = 1]
    /\ UNCHANGED status

Succeed(c) ==
    /\ status[c] = "called" /\ executed[c] = 1
    /\ status' = [status EXCEPT ![c] = "ok"]
    /\ UNCHANGED executed

Fail(c) ==
    /\ status[c] = "called"
    /\ status' = [status EXCEPT ![c] = "failed"]
    /\ UNCHANGED executed

Next == \E c \in Call : Issue(c) \/ Execute(c) \/ Succeed(c) \/ Fail(c)

Spec == Init /\ [][Next]_vars
=============================================================================
