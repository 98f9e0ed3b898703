---------------------------- MODULE ExtentCache ----------------------------
(***************************************************************************)
(* The write-back cache of the extent clients (extent_client.cc) over the  *)
(* extent server (extent_server.cc), for one extent and the lock of the    *)
(* same number.  The clients obey the lock as CachedLock promises it:      *)
(* every operation runs in a use of the lock (ScopedLockClient), and the   *)
(* use that gives the lock up ends with ExtentLockRelease::dorelease, that *)
(* is flush().                                                             *)
(*                                                                         *)
(* An operation makes at most one call to the server, while it has the     *)
(* lock, and is one step.  Times are modelled by whether they are set (0   *)
(* means unset; ctime is assigned wherever mtime is), contents by a value  *)
(* of Data and its Size.  A call of a kind in CallsFail may fail; the      *)
(* server may still execute a put or a remove after its caller gave up.    *)
(***************************************************************************)
EXTENDS Naturals

CONSTANTS Client, NoClient,
          Data,       \* contents of an extent
          Empty,      \* the empty string
          Size,       \* the length of each
          NoExtent,   \* no extent of that number
          CallsFail   \* the calls to the server that may fail

ASSUME ConstantsAssumption ==
    /\ NoClient \notin Client
    /\ Empty \in Data /\ NoExtent \notin Data
    /\ Size \in [Data -> Nat] /\ Size[Empty] = 0

VARIABLES owner, users,   \* the lock, as in CachedLock
          flushed,        \* dorelease() of the current use has run
          cache,          \* per client: cache[eid] of its extent_client
          exts,           \* exts[eid].name of the server; its size follows
          late,           \* calls given up by their caller and not yet executed
          lost,           \* the call of a flush() has failed (history)
          contents,       \* what the extent should hold: the last put or remove
          reply           \* what the last operation told its caller

lockVars == <<owner, users, flushed>>
vars == <<owner, users, flushed, cache, exts, late, lost, contents, reply>>

CL == INSTANCE CachedLock WITH Agent <- Client, Place <- [c \in Client |-> c]
SE == INSTANCE SharedExtent

\* ExtentCache: an entry as flush() leaves it and as the constructor makes it.
\* An entry that is not present has the same values, which nothing reads.
Blank(present, data) ==
    [present |-> present, data |-> data, valid |-> FALSE, dirty |-> FALSE,
     atime |-> FALSE, mtime |-> FALSE, size |-> 0]
NoEntry == Blank(FALSE, Empty)
Entry == [present : BOOLEAN, data : Data, valid : BOOLEAN, dirty : BOOLEAN,
          atime : BOOLEAN, mtime : BOOLEAN, size : Nat]

\* The server starts with extent 1, the root directory, empty, and no other.
Init ==
    /\ CL!Init /\ SE!Init
    /\ flushed = FALSE
    /\ cache = [c \in Client |-> NoEntry]
    /\ contents \in {NoExtent, Empty} /\ exts = contents
    /\ late = {}

\* An operation of client c runs in a use of the lock, before dorelease().
Using(c) == users = {c} /\ ~flushed

Answers(c, entry, op, status, val) ==
    /\ cache' = [cache EXCEPT ![c] = entry]
    /\ reply' = SE!Reply(op, status, val)

\* get().  Of the attributes, an entry that was there gets its atime only.
get(c) ==
    LET e == cache[c]
        fetch == ~e.present \/ (~e.valid /\ ~e.dirty) IN
    /\ Using(c)
    /\ \/ /\ ~fetch
          /\ Answers(c, e, "get", "OK", e.data)
       \/ /\ fetch /\ exts # NoExtent
          /\ Answers(c, [e EXCEPT !.present = TRUE, !.data = exts, !.valid = TRUE, !.dirty = FALSE,
                                  !.atime = TRUE, !.size = IF e.present THEN @ ELSE Size[exts]],
                     "get", "OK", exts)
       \/ /\ fetch /\ exts = NoExtent
          /\ Answers(c, e, "get", "NOENT", NoExtent)
       \/ /\ fetch /\ "get" \in CallsFail
          /\ Answers(c, e, "get", "RPC", NoExtent)
    /\ UNCHANGED <<lockVars, exts, late, lost, contents>>

\* Mutant of getattr: the size of the server also replaces that of a dirty entry.
getattr_server(c) ==
    LET e == IF cache[c].present THEN cache[c] ELSE Blank(TRUE, Empty)
        fetch == ~e.mtime \/ ~e.atime IN
    /\ Using(c)
    /\ \/ /\ ~fetch
          /\ Answers(c, e, "getattr", "OK", e.size)
       \/ /\ fetch /\ exts # NoExtent
          /\ Answers(c, [e EXCEPT !.atime = TRUE, !.mtime = TRUE, !.size = Size[exts]],
                     "getattr", "OK", Size[exts])
       \/ /\ fetch /\ exts = NoExtent
          /\ Answers(c, e, "getattr", "NOENT", NoExtent)
    /\ UNCHANGED <<lockVars, exts, late, lost, contents>>

\* getattr(), which makes a blank entry first if there is none.
getattr(c) ==
    LET e == IF cache[c].present THEN cache[c] ELSE Blank(TRUE, Empty)
        fetch == ~e.mtime \/ ~e.atime
        size == IF e.dirty THEN e.size ELSE Size[exts] IN
    /\ Using(c)
    /\ \/ /\ ~fetch
          /\ Answers(c, e, "getattr", "OK", e.size)
       \/ /\ fetch /\ exts # NoExtent
          /\ Answers(c, [e EXCEPT !.atime = TRUE, !.mtime = TRUE, !.size = size],
                     "getattr", "OK", size)
       \/ /\ fetch /\ exts = NoExtent
          /\ Answers(c, e, "getattr", "NOENT", NoExtent)
       \/ /\ fetch /\ "getattr" \in CallsFail
          /\ Answers(c, e, "getattr", "RPC", NoExtent)
    /\ UNCHANGED <<lockVars, exts, late, lost, contents>>

\* put(): only the cache changes.  An entry that was there keeps its atime.
put(c, d) ==
    /\ Using(c)
    /\ Answers(c, [present |-> TRUE, data |-> d, valid |-> TRUE, dirty |-> TRUE,
                   atime |-> cache[c].present => cache[c].atime, mtime |-> TRUE, size |-> Size[d]],
               "put", "OK", NoExtent)
    /\ contents' = d
    /\ UNCHANGED <<lockVars, exts, late, lost>>

\* remove(): a client that has no entry says NOENT, whatever the server has.
remove(c) ==
    LET e == cache[c] IN
    /\ Using(c)
    /\ \/ /\ ~e.present
          /\ Answers(c, Blank(TRUE, Empty), "remove", "NOENT", NoExtent)
          /\ UNCHANGED contents
       \/ /\ e.present
          /\ Answers(c, [e EXCEPT !.valid = FALSE, !.dirty = TRUE], "remove", "OK", NoExtent)
          /\ contents' = NoExtent
    /\ UNCHANGED <<lockVars, exts, late, lost>>

\* Mutant of Written: what a dirty entry that is not valid stands for is lost.
Written_kept(e) == IF e.dirty /\ e.valid THEN e.data ELSE exts

\* What flush() leaves at the server: a dirty entry that is not valid stands for
\* a removed extent.
Written(e) == IF e.dirty THEN IF e.valid THEN e.data ELSE NoExtent ELSE exts

\* Mutant of flush: an entry that was not dirty is left as it is.
flush_clean(c) ==
    LET e == cache[c] IN
    /\ Using(c)
    /\ flushed' = TRUE
    /\ exts' = Written(e)
    /\ cache' = [cache EXCEPT ![c] = IF e.dirty THEN Blank(TRUE, e.data) ELSE e]
    /\ UNCHANGED <<owner, users, late, lost, contents, reply>>

\* flush(), called by dorelease().  Whether the call worked or not, the entry
\* is emptied, but for its data.
flush(c) ==
    LET e == cache[c]
        kind == IF e.valid THEN "put" ELSE "remove" IN
    /\ Using(c)
    /\ flushed' = TRUE
    /\ \/ exts' = Written(e) /\ UNCHANGED <<late, lost>>
       \/ /\ e.dirty /\ kind \in CallsFail
          /\ late' = late \cup {Written(e)} /\ lost' = TRUE
          /\ UNCHANGED exts
    /\ cache' = [cache EXCEPT ![c] = IF e.present THEN Blank(TRUE, e.data) ELSE e]
    /\ UNCHANGED <<owner, users, contents, reply>>

\* The server executes a put or remove whose caller has given up.
late_call(d) ==
    /\ d \in late
    /\ exts' = d
    /\ late' = late \ {d}
    /\ UNCHANGED <<lockVars, cache, lost, contents, reply>>

dataVars == <<cache, exts, late, lost, contents, reply>>

\* acquire() and release() as CachedLock allows them.  The lock is given up at
\* the end of a use whose dorelease() has run.
acquire(c) == (CL!Take(c) \/ CL!Use(c)) /\ UNCHANGED <<flushed, dataVars>>

\* Mutant of release: the lock goes back without dorelease().
release_unflushed(c) ==
    /\ CL!Finish(c) \/ CL!GiveUp(c)
    /\ flushed' = FALSE
    /\ UNCHANGED dataVars

release(c) ==
    /\ \/ ~flushed /\ CL!Finish(c)
       \/ flushed /\ CL!GiveUp(c)
    /\ flushed' = FALSE
    /\ UNCHANGED dataVars

Next ==
    \/ \E c \in Client : \/ acquire(c) \/ release(c) \/ flush(c)
                         \/ get(c) \/ getattr(c) \/ remove(c)
                         \/ \E d \in Data : put(c, d)
    \/ \E d \in late : late_call(d)

Spec == Init /\ [][Next]_vars

-----------------------------------------------------------------------------
TypeOK ==
    /\ owner \in Client \cup {NoClient} /\ users \subseteq Client /\ flushed \in BOOLEAN
    /\ cache \in [Client -> Entry]
    /\ exts \in Data \cup {NoExtent} /\ contents \in Data \cup {NoExtent}
    /\ late \subseteq Data \cup {NoExtent} /\ lost \in BOOLEAN

\* valid says "whether the data is the latest and using" (extent_client.h): no
\* client has a valid copy of anything but the last put, whoever made it, unless
\* the call of a flush() has failed.
ValidIsLatest == ~lost => \A c \in Client : cache[c].valid => cache[c].data = contents

\* A client that gave the lock back keeps nothing it could read later or write
\* over what others put: also when the calls of its flush() failed.
OnlyOwnerCaches ==
    \A c \in Client :
        cache[c].valid \/ cache[c].dirty \/ cache[c].atime \/ cache[c].mtime => owner = c

\* flush() before the release: when no client owns the lock, the server has the
\* last put, or has removed the extent, unless the call of a flush() has failed.
ServerLatestWhenFree == ~lost /\ owner = NoClient => exts = contents

\* What clients read, with caches that are filled by get and getattr at
\* different times and emptied by flush, is what they would read of one extent.
ImplementsSharedExtent == SE!Spec

\* get() hands out data that is the latest; an extent that was removed has none.
ReadIsLatest == reply.op = "get" /\ reply.status = "OK" => reply.val = contents

-----------------------------------------------------------------------------
(***************************************************************************)
(* The inductive invariant.                                                *)
(***************************************************************************)

\* The lock is used by its owner, and an entry that is there has a copy or an
\* attribute only at the owner, before the flush of its last use.
LockDiscipline ==
    /\ users # {} => users = {owner} /\ owner \in Client
    /\ flushed => users # {}
    /\ \A c \in Client :
          cache[c].valid \/ cache[c].dirty \/ cache[c].atime \/ cache[c].mtime =>
              owner = c /\ ~flushed /\ cache[c].present

\* What the fields of an entry mean.
EntryMeaning ==
    \A c \in Client : LET e == cache[c] IN
        /\ e.valid => e.data = contents
        /\ e.dirty /\ ~e.valid => contents = NoExtent
        /\ e.dirty /\ e.valid => e.mtime
        /\ e.mtime /\ contents # NoExtent => e.size = Size[contents]
        /\ e.size \in SE!Sizes

\* The server is up to date unless an entry is dirty.
ServerMeaning == (\A c \in Client : ~cache[c].dirty) => exts = contents

Coherent == TypeOK /\ late = {} /\ LockDiscipline /\ EntryMeaning /\ ServerMeaning

Inv == TypeOK /\ LockDiscipline /\ (~lost => Coherent)
=============================================================================
