------------------------------- MODULE XidRep -------------------------------
(***************************************************************************)
(* rpcc::update_xid_rep: the sorted list xid_rep_window_, whose front is   *)
(* sent as xid_rep in every request.  An xid is reported when its reply    *)
(* arrives and again when its call ends, in any order among the calls, so  *)
(* the list may hold duplicates.  Rpc uses the set of the xids reported    *)
(* instead of the list; this module shows that the front is the same.      *)
(***************************************************************************)
EXTENDS Naturals, SequencesExt

CONSTANTS MaxXid, MaxReports      \* bounds: xids, and reports of one xid

VARIABLES xid_rep_window_,
          reports                 \* how often each xid was reported (history)

vars == <<xid_rep_window_, reports>>

Xid == 1..MaxXid

Init == xid_rep_window_ = <<0>> /\ reports = [x \in Xid |-> 0]

\* The list with xid before the first greater element, or at the end.
Inserted(w, xid) ==
    LET greater == {i \in DOMAIN w : w[i] > xid}
    IN  IF greater = {} THEN Append(w, xid) ELSE InsertAt(w, Min(greater), xid)

\* Mutant of popped: at most one element is popped for each one passed.
popped_once(w) ==
    LET f[i \in DOMAIN w] == IF i = 1 THEN 0
                             ELSE IF w[f[i - 1] + 1] + 1 = w[i] THEN f[i - 1] + 1 ELSE f[i - 1]
    IN  f[Len(w)]

\* The loop at `compress': how many elements are popped.  For each element w[i]
\* after the first, the front goes as long as it is one less than w[i].
popped(w) ==
    LET f[i \in DOMAIN w] ==
            IF i = 1 THEN 0
            ELSE CHOOSE j \in f[i - 1]..(i - 1) : /\ w[j + 1] + 1 # w[i]
                                                  /\ \A h \in f[i - 1]..(j - 1) : w[h + 1] + 1 = w[i]
    IN  f[Len(w)]

update_xid_rep(xid) ==
    LET w == Inserted(xid_rep_window_, xid)
    IN  /\ reports[xid] < MaxReports
        /\ xid_rep_window_' = IF xid <= Head(xid_rep_window_) THEN xid_rep_window_
                              ELSE SubSeq(w, popped(w) + 1, Len(w))
        /\ reports' = [reports EXCEPT ![xid] = @ + 1]

Next == \E xid \in Xid : update_xid_rep(xid)

Spec == Init /\ [][Next]_vars

\* The front is the greatest xid up to which all have been reported, and the
\* list after it holds exactly the later ones, sorted: nothing is lost by
\* reporting an xid twice or out of order.
FrontExact ==
    LET front == Head(xid_rep_window_)
        seen == {x \in Xid : reports[x] > 0}
    IN  /\ 1..front \subseteq seen /\ front + 1 \notin seen
        /\ ToSet(xid_rep_window_) = {front} \cup {x \in seen : x > front}
        /\ \A i \in 2..Len(xid_rep_window_) : xid_rep_window_[i - 1] <= xid_rep_window_[i]
=============================================================================
