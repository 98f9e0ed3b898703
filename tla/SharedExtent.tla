---------------------------- MODULE SharedExtent ----------------------------
(***************************************************************************)
(* What the extent clients promise together: one extent, which all clients *)
(* see as if they had no caches.  They take three liberties.  A call that  *)
(* needs the server may fail.  An extent that was removed may still be     *)
(* there for the client that removed it.  And getattr may miss an extent   *)
(* that was never flushed.  Once the call of a flush has failed, nothing   *)
(* is promised any more.                                                   *)
(***************************************************************************)
CONSTANTS Data, Size, NoExtent

VARIABLES contents,   \* the extent, or NoExtent
          reply,      \* what the last operation told its caller
          lost        \* the call of a flush has failed

vars == <<contents, reply, lost>>

Sizes == {Size[d] : d \in Data}

Reply(op, status, val) == [op |-> op, status |-> status, val |-> val]

Init ==
    /\ contents \in Data \cup {NoExtent} /\ reply = Reply("none", "OK", NoExtent)
    /\ lost = FALSE

Get ==
    /\ \/ contents # NoExtent /\ reply' = Reply("get", "OK", contents)
       \/ contents = NoExtent /\ \E d \in Data : reply' = Reply("get", "OK", d)
       \/ contents = NoExtent /\ reply' = Reply("get", "NOENT", NoExtent)
       \/ reply' = Reply("get", "RPC", NoExtent)
    /\ UNCHANGED contents

Getattr ==
    /\ \/ contents # NoExtent /\ reply' = Reply("getattr", "OK", Size[contents])
       \/ contents = NoExtent /\ \E n \in Sizes : reply' = Reply("getattr", "OK", n)
       \/ \E status \in {"NOENT", "RPC"} : reply' = Reply("getattr", status, NoExtent)
    /\ UNCHANGED contents

Put(d) == contents' = d /\ reply' = Reply("put", "OK", NoExtent)

Remove ==
    \/ contents' = NoExtent /\ reply' = Reply("remove", "OK", NoExtent)
    \/ UNCHANGED contents /\ reply' = Reply("remove", "NOENT", NoExtent)

Operation == Get \/ Getattr \/ Remove \/ \E d \in Data : Put(d)

Next ==
    \/ ~lost /\ Operation /\ UNCHANGED lost
    \/ lost' = TRUE

Spec == Init /\ [][Next]_vars
=============================================================================
