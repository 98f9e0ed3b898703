-------------------------------- MODULE Yfs --------------------------------
(***************************************************************************)
(* The name operations of YFS: the fuse handlers (fuse.cc) over yfs_client *)
(* (yfs_client.cc), for clients that share directories and files.  The     *)
(* lock of an i-number is the one CachedLock describes, the extent of the  *)
(* same number the one SharedExtent describes; each client is one fuse     *)
(* thread.                                                                 *)
(*                                                                         *)
(* A directory is the string "inum/name/inum/name/...", modelled by the    *)
(* sequence of its tokens.  A name that is the decimal form of an i-number *)
(* is the same token as that i-number.  As names hold no slash,            *)
(* find("/name/") matches a token after the first.                         *)
(*                                                                         *)
(* The body of an operation that takes one lock is one step; create and    *)
(* unlink take a second lock, and the getattr() after a lookup or create   *)
(* takes its lock on its own.                                              *)
(***************************************************************************)
EXTENDS Naturals, Sequences, FiniteSets

CONSTANTS Client, Name,
          DirInum, FileInum,   \* the i-numbers that rand_inum may draw, and 1
          Root,                \* i-number 1
          NoInum,              \* what n2i() makes of a token that is no number
          NoClient

ASSUME InumAssumption ==
    /\ Root \in DirInum /\ DirInum \cap FileInum = {}
    /\ NoInum \notin DirInum \cup FileInum
    /\ NoClient \notin Client

Inum == {NoInum} \cup DirInum \cup FileInum

VARIABLES ext,       \* per i-number: its extent
          holder,    \* per i-number: the client that holds its lock
          owner,     \* per i-number: the client whose lock_client has its lock
          known,     \* per client: the i-numbers its extent cache has an entry for
          used,      \* the i-numbers drawn so far
          work,      \* per client: what its fuse thread does
          seen,      \* per client: the reply to the kernel's last lookup, if it may act on it
          outcome    \* per client: the result of its last lookup, create or unlink

vars == <<ext, holder, owner, known, used, work, seen, outcome>>

\* An extent that a client has removed stays in its cache, and readable for it,
\* until another client gets the lock.
Extent(state, data) == [state |-> state, data |-> data]
NoExtent == Extent("none", <<>>)

Work(step, d, n, i) == [step |-> step, dir |-> d, name |-> n, ino |-> i]
Idle == Work("idle", NoInum, NoInum, NoInum)
Unseen == Work("unseen", NoInum, NoInum, NoInum)

-----------------------------------------------------------------------------
(***************************************************************************)
(* Directory strings.                                                      *)
(***************************************************************************)

n2i(token) == IF token \in Inum THEN token ELSE NoInum

\* b.find("/" + name + "/"): the tokens that match.
Found(b, n) == {k \in 2..Len(b) : b[k] = n}
find(b, n) == CHOOSE k \in Found(b, n) : \A j \in Found(b, n) : k <= j

\* The token before the match, between the slash that rfind() finds and it.
InumAt(b, n) == n2i(b[find(b, n) - 1])

\* Mutant of Without: the i-number before the name stays.
Without_name(b, n) ==
    LET k == find(b, n) IN SubSeq(b, 1, k - 1) \o SubSeq(b, k + 1, Len(b))

\* What unlink() writes: all but that token and the match.
Without(b, n) ==
    LET k == find(b, n) IN SubSeq(b, 1, k - 2) \o SubSeq(b, k + 1, Len(b))

\* What readdir lists: the string read two tokens at a time.
Listing(b) == {<<b[2 * k], n2i(b[2 * k - 1])>> : k \in 1..(Len(b) \div 2)}

Dirs == INSTANCE Directories WITH Dir <- DirInum,
                                  entries <- [d \in DirInum |-> Listing(ext[d].data)]

Init ==
    /\ ext = [i \in Inum |-> IF i = Root THEN Extent("there", <<>>) ELSE NoExtent]
    /\ holder = [i \in Inum |-> NoClient]
    /\ owner = [i \in Inum |-> NoClient]
    /\ known = [c \in Client |-> {}]
    /\ used = {Root}
    /\ work = [c \in Client |-> Idle]
    /\ seen = [c \in Client |-> Unseen]
    /\ outcome = [c \in Client |-> Dirs!Outcome("none", NoInum)]

-----------------------------------------------------------------------------
(***************************************************************************)
(* Operations.                                                             *)
(***************************************************************************)

\* The extent of i as client c finds it once it has the lock.
Taken(c, i) == IF ext[i].state = "removed" /\ owner[i] # c THEN NoExtent ELSE ext[i]

Free(i) == holder[i] = NoClient

\* Client c takes the locks of the i-numbers in S.
Owned(c, S) == owner' = [i \in Inum |-> IF i \in S THEN c ELSE owner[i]]

Knows(c, S) == known' = [known EXCEPT ![c] = @ \cup S]

\* The lookup(), create() or unlink() of c returns.
Returns(c, status, ino) ==
    outcome' = [outcome EXCEPT ![c] = Dirs!Outcome(status, ino)]

Becomes(c, w) == work' = [work EXCEPT ![c] = w]

\* fuseserver_lookup up to getattr(): lookup() holds the lock of the parent only.
lookup(c, d, n) ==
    LET x == Taken(c, d) IN
    /\ work[c] = Idle /\ d \in used /\ Free(d)
    /\ Owned(c, {d}) /\ ext' = [ext EXCEPT ![d] = x]
    /\ \/ /\ x.state = "none" \/ Found(x.data, n) = {}
          /\ Returns(c, "NOENT", NoInum)
          /\ seen' = [seen EXCEPT ![c] = Work("absent", d, n, NoInum)]
          /\ UNCHANGED work
       \/ /\ x.state # "none" /\ Found(x.data, n) # {}
          /\ Returns(c, "FOUND", InumAt(x.data, n))
          /\ Becomes(c, Work("getattr", d, n, InumAt(x.data, n)))
          /\ seen' = [seen EXCEPT ![c] = Unseen]
    /\ Knows(c, IF x.state = "none" THEN {} ELSE {d})
    /\ UNCHANGED <<holder, used>>

\* getfile() and getdir(): the attributes of i, under its lock.
getfile(c, i) ==
    /\ Free(i) /\ Owned(c, {i})
    /\ ext' = [ext EXCEPT ![i] = Taken(c, i)]
    /\ Knows(c, {i})

\* Mutant of getattr: lookup asks again until it has the attributes.
getattr_again(c) ==
    LET w == work[c]  x == Taken(c, w.ino) IN
    /\ w.step = "getattr" /\ Free(w.ino)
    /\ Owned(c, {w.ino}) /\ ext' = [ext EXCEPT ![w.ino] = x]
    /\ \/ /\ w.name = NoInum
          /\ Becomes(c, Idle) /\ UNCHANGED seen
       \/ /\ w.name # NoInum /\ x.state # "none"
          /\ seen' = [seen EXCEPT ![c] = Work("present", w.dir, w.name, w.ino)]
          /\ Becomes(c, Idle)
       \/ /\ w.name # NoInum /\ x.state = "none"
          /\ UNCHANGED <<work, seen>>
    /\ Knows(c, {w.ino})
    /\ UNCHANGED <<holder, used, outcome>>

\* getattr() of fuse.cc, after lookup, create or setattr, and the reply.  Lookup
\* replies the entry whether getattr() worked or not.  For a removed extent,
\* the answer depends on which attributes are in the cache.
getattr(c) ==
    LET w == work[c]  x == Taken(c, w.ino) IN
    /\ w.step = "getattr" /\ getfile(c, w.ino)
    /\ \/ /\ w.name = NoInum
          /\ UNCHANGED seen
       \/ /\ w.name # NoInum /\ x.state \in {"there", "removed"}
          /\ seen' = [seen EXCEPT ![c] = Work("present", w.dir, w.name, w.ino)]
       \/ /\ w.name # NoInum /\ x.state \in {"none", "removed"}
          /\ seen' = [seen EXCEPT ![c] = Work("no attributes", w.dir, w.name, w.ino)]
    /\ Becomes(c, Idle)
    /\ UNCHANGED <<holder, used, outcome>>

\* Mutant of create: the name is not looked for again.
create_unchecked(c, d, n, nums) ==
    LET x == Taken(c, d) IN
    /\ work[c] = Idle /\ seen[c] = Work("absent", d, n, NoInum) /\ Free(d)
    /\ x.state # "none"
    /\ Owned(c, {d}) /\ ext' = [ext EXCEPT ![d] = x]
    /\ \E num \in nums \ used : /\ used' = used \cup {num}
                                /\ Becomes(c, Work("create", d, n, num))
    /\ holder' = [holder EXCEPT ![d] = c]
    /\ seen' = [seen EXCEPT ![c] = Unseen]
    /\ Knows(c, {d})
    /\ UNCHANGED outcome

\* create() up to the second lock, for mknod and create or for mkdir.  The
\* kernel has looked the name up before.  The i-number is taken to be new.
create(c, d, n, nums) ==
    LET x == Taken(c, d) IN
    /\ work[c] = Idle /\ seen[c] = Work("absent", d, n, NoInum) /\ Free(d)
    /\ Owned(c, {d}) /\ ext' = [ext EXCEPT ![d] = x]
    /\ \/ /\ x.state = "none"
          /\ Returns(c, "NOENT", NoInum)
          /\ UNCHANGED <<holder, used, work>>
       \/ /\ x.state # "none" /\ Found(x.data, n) # {}
          /\ Returns(c, "EXIST", NoInum)
          /\ UNCHANGED <<holder, used, work>>
       \/ /\ x.state # "none" /\ Found(x.data, n) = {}
          /\ \E num \in nums \ used : /\ used' = used \cup {num}
                                      /\ Becomes(c, Work("create", d, n, num))
          /\ holder' = [holder EXCEPT ![d] = c]
          /\ UNCHANGED outcome
    /\ seen' = [seen EXCEPT ![c] = Unseen]
    /\ Knows(c, IF x.state = "none" THEN {} ELSE {d})

\* The rest of create(): both puts, with both locks held.
create_put(c) ==
    LET w == work[c] IN
    /\ w.step = "create" /\ Free(w.ino)
    /\ ext' = [ext EXCEPT ![w.ino] = Extent("there", <<>>),
                          ![w.dir] = Extent("there", @.data \o <<w.ino, w.name>>)]
    /\ Owned(c, {w.ino}) /\ Knows(c, {w.ino})
    /\ holder' = [holder EXCEPT ![w.dir] = NoClient]
    /\ Returns(c, "CREATED", w.ino)
    /\ Becomes(c, Work("getattr", NoInum, NoInum, w.ino))
    /\ UNCHANGED <<used, seen>>

\* unlink() up to the second lock.  The kernel has looked the name up before
\* and unlinks files only.
unlink(c, d, n) ==
    LET x == Taken(c, d) IN
    /\ work[c] = Idle /\ Free(d)
    /\ \E i \in FileInum : seen[c] = Work("present", d, n, i)
    /\ Owned(c, {d}) /\ ext' = [ext EXCEPT ![d] = x]
    /\ \/ /\ x.state = "none" \/ Found(x.data, n) = {}
          /\ Returns(c, "NOENT", NoInum)
          /\ UNCHANGED <<holder, work>>
       \/ /\ x.state # "none" /\ Found(x.data, n) # {}
          /\ Becomes(c, Work("unlink", d, n, InumAt(x.data, n)))
          /\ holder' = [holder EXCEPT ![d] = c]
          /\ UNCHANGED outcome
    /\ seen' = [seen EXCEPT ![c] = Unseen]
    /\ Knows(c, IF x.state = "none" THEN {} ELSE {d})
    /\ UNCHANGED used

\* Mutant of unlink_put: the directory is not written.
unlink_put_unwritten(c) ==
    LET w == work[c] IN
    /\ w.step = "unlink" /\ Free(w.ino)
    /\ Owned(c, {w.ino}) /\ Knows(c, {w.ino})
    /\ ext' = [ext EXCEPT ![w.ino] = Extent("removed", Taken(c, w.ino).data)]
    /\ Returns(c, "UNLINKED", w.ino)
    /\ holder' = [holder EXCEPT ![w.dir] = NoClient]
    /\ Becomes(c, Idle)
    /\ UNCHANGED <<used, seen>>

\* The rest of unlink(), with both locks held.  remove() says NOENT for an
\* extent that the cache of c has no entry for, and makes one.
unlink_put(c) ==
    LET w == work[c] IN
    /\ w.step = "unlink" /\ Free(w.ino)
    /\ Owned(c, {w.ino}) /\ Knows(c, {w.ino})
    /\ \/ /\ w.ino \notin known[c]
          /\ ext' = [ext EXCEPT ![w.ino] = Taken(c, w.ino)]
          /\ Returns(c, "NOENT", NoInum)
       \/ /\ w.ino \in known[c]
          /\ ext' = [ext EXCEPT ![w.ino] = Extent("removed", Taken(c, w.ino).data),
                                ![w.dir] = Extent("there", Without(@.data, w.name))]
          /\ Returns(c, "UNLINKED", w.ino)
    /\ holder' = [holder EXCEPT ![w.dir] = NoClient]
    /\ Becomes(c, Idle)
    /\ UNCHANGED <<used, seen>>

\* The handlers of one call and one lock: getattr; read and readdir; write and
\* setattr of a file, whose contents FileData describes, with a put() that brings
\* a removed extent back.  setattr asks for the attributes then.
access(c, i, op) ==
    LET x == Taken(c, i) IN
    /\ work[c] = Idle /\ i \in used /\ Free(i)
    /\ op \in {"write", "setattr"} => i \in FileInum
    /\ Owned(c, {i})
    /\ ext' = [ext EXCEPT ![i] = IF op \in {"write", "setattr"} /\ x.state # "none"
                                 THEN Extent("there", x.data) ELSE x]
    /\ Knows(c, IF op # "getattr" /\ x.state = "none" THEN {} ELSE {i})
    /\ Becomes(c, IF op = "setattr" THEN Work("getattr", NoInum, NoInum, i) ELSE Idle)
    /\ seen' = [seen EXCEPT ![c] = Unseen]
    /\ UNCHANGED <<holder, used, outcome>>

Step(c) ==
    \/ getattr(c) \/ create_put(c) \/ unlink_put(c)

Call(c) ==
    \/ \E d \in DirInum, n \in Name : \/ lookup(c, d, n) \/ unlink(c, d, n)
                                      \/ create(c, d, n, FileInum) \/ create(c, d, n, DirInum)
    \/ \E i \in used, op \in {"getattr", "read", "write", "setattr"} : access(c, i, op)

Next == \E c \in Client : Call(c) \/ Step(c)

Spec == Init /\ [][Next]_vars

\* The lock service lets every acquire() of two clients return (AcquireReturns
\* of LockCache), however often the other client takes the lock again.
FairSpec == Spec /\ \A c \in Client : SF_vars(Step(c))

-----------------------------------------------------------------------------
\* A name in a directory refers to a file or directory that exists, although
\* create and unlink write two extents and other clients see each on its own.
NoDangling ==
    \A d \in DirInum : ext[d].state = "there" =>
        \A e \in Listing(ext[d].data) : ext[e[2]].state = "there"

\* No name "appears more than once in the directory" (test-lab-2-a.pl), and no
\* i-number has two names.
UniqueNames ==
    \A d, b \in DirInum : \A e \in Listing(ext[d].data), f \in Listing(ext[b].data) :
        /\ d = b /\ e[1] = f[1] => e = f
        /\ e[2] = f[2] => d = b /\ e = f

\* The name operations of all clients, as the directory strings and the locks
\* implement them, are operations on maps from names to i-numbers.
ImplementsDirectories == Dirs!Spec

\* create and unlink wait for a second lock while they hold one: no two clients
\* wait for each other, and every operation returns.
OperationsReturn == \A c \in Client : work[c] # Idle ~> work[c] = Idle

\* "If the file was found, initialize e.ino and e.attr appropriately" (fuse.cc):
\* a lookup that found a file has its attributes when it replies.
LookupHasAttr == \A c \in Client : seen[c].step # "no attributes"

\* "Look up the file named `name' in the directory" (fuse.cc): what lookup finds
\* is listed under that name.
FoundIsListed ==
    [][\A c \in Client, d \in DirInum, n \in Name :
          lookup(c, d, n) /\ outcome'[c].status = "FOUND" =>
              <<n, outcome'[c].ino>> \in Listing(ext'[d].data)]_vars
=============================================================================
