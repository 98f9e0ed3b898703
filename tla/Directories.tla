---------------------------- MODULE Directories ----------------------------
(***************************************************************************)
(* What the name operations of YFS promise, directory by directory: names  *)
(* map to i-numbers, a lookup finds a name exactly when it is there, a     *)
(* create adds a new name with a new i-number, and an unlink takes it out. *)
(* An unlink may fail for a client that does not know the file yet.        *)
(***************************************************************************)
CONSTANTS Client, Dir, Name, Inum, NoInum

VARIABLES entries,   \* per directory: the pairs of a name and an i-number in it
          outcome    \* per client: what its last name operation told it

vars == <<entries, outcome>>

Outcome(status, ino) == [status |-> status, ino |-> ino]

Init ==
    /\ entries = [d \in Dir |-> {}]
    /\ outcome = [c \in Client |-> Outcome("none", NoInum)]

Named(d, n) == {e \in entries[d] : e[1] = n}

Tells(c, status, ino) == outcome' = [outcome EXCEPT ![c] = Outcome(status, ino)]

Lookup(c, d, n) ==
    /\ \/ Tells(c, "NOENT", NoInum) /\ Named(d, n) = {}
       \/ \E i \in Inum : Tells(c, "FOUND", i) /\ <<n, i>> \in entries[d]
    /\ UNCHANGED entries

Create(c, d, n) ==
    \/ /\ Tells(c, "EXIST", NoInum) /\ Named(d, n) # {}
       /\ UNCHANGED entries
    \/ \E i \in Inum :
          /\ Tells(c, "CREATED", i) /\ Named(d, n) = {}
          /\ \A b \in Dir : \A e \in entries[b] : e[2] # i
          /\ entries' = [entries EXCEPT ![d] = @ \cup {<<n, i>>}]

Unlink(c, d, n) ==
    \/ /\ Tells(c, "NOENT", NoInum)
       /\ UNCHANGED entries
    \/ \E i \in Inum :
          /\ Tells(c, "UNLINKED", i) /\ <<n, i>> \in entries[d]
          /\ entries' = [entries EXCEPT ![d] = @ \ {<<n, i>>}]

Next == \E c \in Client, d \in Dir, n \in Name : Lookup(c, d, n) \/ Create(c, d, n) \/ Unlink(c, d, n)

Spec == Init /\ [][Next]_vars
=============================================================================
