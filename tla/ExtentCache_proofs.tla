------------------------- MODULE ExtentCache_proofs -------------------------
(***************************************************************************)
(* Proofs about the extent cache, for any number of clients and any        *)
(* contents.  Only the owner of the lock has anything in its cache; and    *)
(* until the call of a flush() has failed, the cached copies are coherent  *)
(* and the extent clients implement one shared extent.                     *)
(***************************************************************************)
EXTENDS ExtentCache, TLAPS

\* The entry e means what it should when the extent holds d.
Meaning(e, d) ==
    /\ e.valid \/ e.dirty \/ e.atime \/ e.mtime => e.present
    /\ e.valid => e.data = d
    /\ e.dirty /\ ~e.valid => d = NoExtent
    /\ e.dirty /\ e.valid => e.mtime
    /\ e.mtime /\ d # NoExtent => e.size = Size[d]
    /\ e.size \in SE!Sizes

\* A blank entry is an entry, and means what it should for any contents.
LEMMA BlankEntry ==
    ASSUME NEW present \in BOOLEAN, NEW data \in Data, NEW d
    PROVE  /\ Blank(present, data) \in Entry
           /\ Meaning(Blank(present, data), d)
           /\ ~Blank(present, data).dirty /\ ~Blank(present, data).valid
           /\ ~Blank(present, data).atime /\ ~Blank(present, data).mtime
           /\ Blank(present, data).size = 0 /\ Blank(present, data).present = present
<1>1. 0 \in SE!Sizes
  BY ConstantsAssumption DEF SE!Sizes
<1>2. QED
  BY <1>1 DEF Blank, Entry, Meaning

\* The invariant holds when the server has its one extent and nobody a cache.
LEMMA InitInv == Init => Inv
<1> SUFFICES ASSUME Init PROVE Inv
  OBVIOUS
<1>1. \A c \in Client : cache[c] = NoEntry
  BY DEF Init
<1>2. NoEntry \in Entry /\ Meaning(NoEntry, contents) /\ ~NoEntry.valid /\ ~NoEntry.dirty
      /\ ~NoEntry.atime /\ ~NoEntry.mtime
  BY BlankEntry, ConstantsAssumption DEF NoEntry
<1>3. TypeOK
  BY <1>2, ConstantsAssumption DEF Init, TypeOK, CL!Init, SE!Init
<1>4. LockDiscipline /\ EntryMeaning /\ ServerMeaning
  BY <1>1, <1>2 DEF Init, LockDiscipline, EntryMeaning, ServerMeaning, CL!Init, Meaning
<1>5. QED
  BY <1>3, <1>4 DEF Init, Inv, Coherent

\* An operation in a use of the lock keeps the caches coherent if the entry it leaves
\* means what it should and, unless dirty, agrees with the server: the entries
\* of the other clients are empty.
LEMMA OperationInv ==
    ASSUME Coherent, NEW c \in Client, Using(c), NEW e \in Entry,
           cache' = [cache EXCEPT ![c] = e],
           contents' \in Data \cup {NoExtent}, Meaning(e, contents'),
           ~e.dirty => exts = contents',
           UNCHANGED <<lockVars, exts, late, lost>>
    PROVE  Coherent'
<1>1. owner = c /\ users = {c} /\ ~flushed
  BY DEF Coherent, LockDiscipline, Using
<1>2. cache'[c] = e /\ \A b \in Client \ {c} : cache'[b] = cache[b]
  BY DEF Coherent, TypeOK
<1>3. \A b \in Client \ {c} : /\ ~cache[b].valid /\ ~cache[b].dirty /\ ~cache[b].atime
                              /\ ~cache[b].mtime /\ cache[b].size \in SE!Sizes
  BY <1>1 DEF Coherent, LockDiscipline, EntryMeaning
<1>4. TypeOK'
  BY DEF Coherent, TypeOK, lockVars
<1>5. LockDiscipline'
  BY <1>1, <1>2, <1>3 DEF LockDiscipline, lockVars, Meaning
<1>6. EntryMeaning'
  BY <1>2, <1>3 DEF EntryMeaning, Meaning
<1>7. ServerMeaning'
  BY <1>2 DEF ServerMeaning
<1>8. QED
  BY <1>4, <1>5, <1>6, <1>7 DEF Coherent

\* In a use of the lock, the entry of the client means what it should.
LEMMA OwnEntry ==
    ASSUME Coherent, NEW c \in Client
    PROVE  /\ cache[c] \in Entry /\ Meaning(cache[c], contents)
           /\ Using(c) /\ ~cache[c].dirty => exts = contents
<1>1. cache[c] \in Entry /\ Meaning(cache[c], contents)
  BY DEF Coherent, TypeOK, LockDiscipline, EntryMeaning, Meaning
<1>2. ASSUME Using(c), ~cache[c].dirty PROVE exts = contents
  BY <1>2 DEF Coherent, LockDiscipline, ServerMeaning, Using
<1>3. QED
  BY <1>1, <1>2

\* get() keeps the caches coherent and answers like one extent.
LEMMA GetStep ==
    ASSUME Coherent, NEW c \in Client, get(c)
    PROVE  Coherent' /\ SE!Get
<1> DEFINE e == cache[c]
           f == [e EXCEPT !.present = TRUE, !.data = exts, !.valid = TRUE, !.dirty = FALSE,
                          !.atime = TRUE, !.size = IF e.present THEN @ ELSE Size[exts]]
           fetch == ~e.present \/ (~e.valid /\ ~e.dirty)
<1>1. /\ Using(c) /\ UNCHANGED <<lockVars, exts, late, lost, contents>>
      /\ e \in Entry /\ Meaning(e, contents) /\ contents \in Data \cup {NoExtent}
  BY OwnEntry DEF get, Coherent, TypeOK
<1>2. fetch => ~e.dirty /\ ~e.valid /\ exts = contents
  BY <1>1, OwnEntry DEF Meaning
<1>4. CASE Answers(c, e, "get", "OK", e.data) /\ ~fetch
  <2>1. Coherent'
    BY <1>1, <1>4, OperationInv, OwnEntry DEF Answers
  <2>2. e.valid => e.data = contents
    BY <1>1 DEF Meaning
  <2>3. ~e.valid => contents = NoExtent
    BY <1>1, <1>4 DEF Meaning
  <2>4. e.data \in Data
    BY <1>1 DEF Entry
  <2>5. reply' = SE!Reply("get", "OK", e.data)
    BY <1>4 DEF Answers
  <2>6. SE!Get
    BY <1>1, <2>2, <2>3, <2>4, <2>5, ConstantsAssumption DEF SE!Get
  <2>7. QED
    BY <2>1, <2>6
<1>5. CASE Answers(c, f, "get", "OK", exts) /\ fetch /\ exts # NoExtent
  <2>1. exts = contents /\ contents \in Data
    BY <1>1, <1>2, <1>5
  <2>2. f.size \in SE!Sizes /\ f.size \in Nat
    <3>1. f.size = IF e.present THEN e.size ELSE Size[exts]
      BY <1>1 DEF Entry
    <3>2. e.size \in SE!Sizes /\ e.size \in Nat
      BY <1>1 DEF Entry, Meaning
    <3>3. Size[exts] \in SE!Sizes /\ Size[exts] \in Nat
      BY <2>1, ConstantsAssumption DEF SE!Sizes
    <3>4. QED
      BY <3>1, <3>2, <3>3
  <2>3. f \in Entry
    BY <1>1, <2>1, <2>2 DEF Entry
  <2>4. f.present /\ f.data = contents /\ f.valid /\ ~f.dirty /\ f.mtime = e.mtime
    BY <1>1, <2>1 DEF Entry
  <2>5. f.mtime => f.size = Size[contents]
    <3>1. f.size = IF e.present THEN e.size ELSE Size[exts]
      BY <1>1 DEF Entry
    <3>2. e.mtime => e.present /\ e.size = Size[contents]
      BY <1>1, <2>1, ConstantsAssumption DEF Meaning
    <3>3. QED
      BY <2>4, <3>1, <3>2
  <2>6. Meaning(f, contents)
    BY <2>2, <2>4, <2>5 DEF Meaning
  <2>7. Coherent'
    BY <1>1, <1>5, <2>1, <2>3, <2>4, <2>6, OperationInv DEF Answers
  <2>8. SE!Get
    BY <1>1, <1>5, <2>1 DEF SE!Get, Answers
  <2>9. QED
    BY <2>7, <2>8
<1>6. CASE Answers(c, e, "get", "NOENT", NoExtent) /\ fetch /\ exts = NoExtent
  <2>1. Coherent'
    BY <1>1, <1>6, OperationInv, OwnEntry DEF Answers
  <2>2. QED
    BY <1>1, <1>2, <1>6, <2>1 DEF SE!Get, Answers
<1>7. CASE Answers(c, e, "get", "RPC", NoExtent)
  <2>1. Coherent'
    BY <1>1, <1>7, OperationInv, OwnEntry DEF Answers
  <2>2. QED
    BY <1>1, <1>7, <2>1 DEF SE!Get, Answers
<1>8. QED
  BY <1>4, <1>5, <1>6, <1>7 DEF get

\* getattr() keeps the caches coherent and answers like one extent.
LEMMA GetattrStep ==
    ASSUME Coherent, NEW c \in Client, getattr(c)
    PROVE  Coherent' /\ SE!Getattr
<1> DEFINE e == IF cache[c].present THEN cache[c] ELSE Blank(TRUE, Empty)
           size == IF e.dirty THEN e.size ELSE Size[exts]
           f == [e EXCEPT !.atime = TRUE, !.mtime = TRUE, !.size = size]
           fetch == ~e.mtime \/ ~e.atime
<1>1. /\ Using(c) /\ UNCHANGED <<lockVars, exts, late, lost, contents>>
      /\ contents \in Data \cup {NoExtent}
  BY DEF getattr, Coherent, TypeOK
<1>2. /\ e \in Entry /\ Meaning(e, contents) /\ e.present
      /\ ~e.dirty => exts = contents
  <2>1. CASE cache[c].present
    BY <1>1, <2>1, OwnEntry
  <2>2. CASE ~cache[c].present
    <3>1. ~cache[c].dirty
      BY <2>2, OwnEntry DEF Meaning
    <3>2. QED
      BY <1>1, <2>2, <3>1, OwnEntry, BlankEntry, ConstantsAssumption
  <2>3. QED
    BY <2>1, <2>2
<1> HIDE DEF e
<1>3. CASE Answers(c, e, "getattr", "OK", e.size) /\ ~fetch
  <2>1. Coherent'
    BY <1>1, <1>2, <1>3, OperationInv DEF Answers
  <2>2. contents # NoExtent => e.size = Size[contents]
    BY <1>2, <1>3 DEF Meaning
  <2>3. e.size \in SE!Sizes
    BY <1>2 DEF Meaning
  <2>4. SE!Getattr
    BY <1>1, <1>3, <2>2, <2>3 DEF SE!Getattr, Answers
  <2>5. QED
    BY <2>1, <2>4
<1>4. CASE Answers(c, f, "getattr", "OK", size) /\ fetch /\ exts # NoExtent
  <2>1. exts \in Data
    BY <1>4 DEF Coherent, TypeOK
  <2>2. Size[exts] \in SE!Sizes /\ Size[exts] \in Nat
    BY <2>1, ConstantsAssumption DEF SE!Sizes
  <2>3. size \in SE!Sizes /\ size \in Nat
    BY <1>2, <2>2 DEF Meaning, Entry
  <2>4. contents # NoExtent => size = Size[contents]
    BY <1>2 DEF Meaning
  <2>5. /\ f \in Entry /\ f.present = e.present /\ f.valid = e.valid /\ f.dirty = e.dirty
        /\ f.data = e.data /\ f.mtime /\ f.size = size
    BY <1>2, <2>3 DEF Entry
  <2>6. Meaning(f, contents)
    BY <1>2, <2>3, <2>4, <2>5 DEF Meaning
  <2>7. Coherent'
    BY <1>1, <1>2, <1>4, <2>5, <2>6, OperationInv DEF Answers
  <2>8. SE!Getattr
    BY <1>1, <1>4, <2>3, <2>4 DEF SE!Getattr, Answers
  <2>9. QED
    BY <2>7, <2>8
<1>5. CASE \E status \in {"NOENT", "RPC"} : Answers(c, e, "getattr", status, NoExtent)
  <2>1. Coherent'
    BY <1>1, <1>2, <1>5, OperationInv DEF Answers
  <2>2. QED
    BY <1>1, <1>5, <2>1 DEF SE!Getattr, Answers
<1>6. QED
  BY <1>3, <1>4, <1>5 DEF getattr, e

\* put() keeps the caches coherent: the entry is dirty, valid and the last put.
LEMMA PutStep ==
    ASSUME Coherent, NEW c \in Client, NEW d \in Data, put(c, d)
    PROVE  Coherent' /\ SE!Put(d)
<1> DEFINE e == [present |-> TRUE, data |-> d, valid |-> TRUE, dirty |-> TRUE,
                 atime |-> cache[c].present => cache[c].atime, mtime |-> TRUE, size |-> Size[d]]
<1>1. Size[d] \in SE!Sizes /\ Size[d] \in Nat
  BY ConstantsAssumption DEF SE!Sizes
<1>2. e \in Entry /\ Meaning(e, d) /\ e.dirty
  BY <1>1 DEF Entry, Meaning
<1>3. Using(c) /\ contents' = d /\ Answers(c, e, "put", "OK", NoExtent)
      /\ UNCHANGED <<lockVars, exts, late, lost>>
  BY DEF put
<1> HIDE DEF e
<1>4. Coherent'
  BY <1>2, <1>3, OperationInv DEF Answers
<1>5. QED
  BY <1>3, <1>4 DEF SE!Put, Answers

\* remove() keeps the caches coherent: a dirty entry that is not valid stands for no
\* extent.
LEMMA RemoveStep ==
    ASSUME Coherent, NEW c \in Client, remove(c)
    PROVE  Coherent' /\ SE!Remove
<1> DEFINE f == [cache[c] EXCEPT !.valid = FALSE, !.dirty = TRUE]
<1>1. /\ Using(c) /\ UNCHANGED <<lockVars, exts, late, lost>>
      /\ cache[c] \in Entry /\ Meaning(cache[c], contents) /\ contents \in Data \cup {NoExtent}
  BY OwnEntry DEF remove, Coherent, TypeOK
<1>2. CASE /\ ~cache[c].present /\ Answers(c, Blank(TRUE, Empty), "remove", "NOENT", NoExtent)
           /\ UNCHANGED contents
  <2>1. ~cache[c].dirty
    BY <1>1, <1>2 DEF Meaning
  <2>2. Coherent'
    BY <1>1, <1>2, <2>1, OwnEntry, BlankEntry, OperationInv, ConstantsAssumption DEF Answers
  <2>3. QED
    BY <1>2, <2>2 DEF SE!Remove, Answers
<1>3. CASE cache[c].present /\ Answers(c, f, "remove", "OK", NoExtent) /\ contents' = NoExtent
  <2>1. f \in Entry /\ f.present /\ ~f.valid /\ f.dirty /\ f.size = cache[c].size
    BY <1>1, <1>3 DEF Entry
  <2>2. Meaning(f, NoExtent)
    BY <1>1, <2>1 DEF Meaning
  <2>3. Coherent'
    BY <1>1, <1>3, <2>1, <2>2, OperationInv DEF Answers
  <2>4. QED
    BY <1>3, <2>3 DEF SE!Remove, Answers
<1>4. QED
  BY <1>2, <1>3 DEF remove

\* The flush of a dirty entry brings the server up to date, and no other client
\* has anything: all entries are empty when the lock is given up.
LEMMA FlushStep ==
    ASSUME Coherent, NEW c \in Client, flush(c), ~lost'
    PROVE  Coherent' /\ UNCHANGED SE!vars
<1> DEFINE e == cache[c]
           f == IF e.present THEN Blank(TRUE, e.data) ELSE e
<1>1. /\ users = {c} /\ owner = c /\ ~flushed /\ flushed'
      /\ UNCHANGED <<owner, users, contents, reply>>
      /\ e \in Entry /\ Meaning(e, contents)
  BY OwnEntry DEF flush, Using, Coherent, LockDiscipline
<1>2. exts' = Written(e) /\ late' = late /\ lost' = lost
  BY DEF flush
<1>3. exts' = contents
  <2>1. CASE e.dirty
    BY <1>1, <1>2, <2>1 DEF Written, Meaning
  <2>2. CASE ~e.dirty
    <3>1. Using(c)
      BY DEF flush
    <3>2. QED
      BY <1>2, <2>2, <3>1, OwnEntry DEF Written
  <2>3. QED
    BY <2>1, <2>2
<1>4. f \in Entry /\ Meaning(f, contents) /\ ~f.valid /\ ~f.dirty /\ ~f.atime /\ ~f.mtime
  <2>1. CASE e.present
    BY <1>1, <2>1, BlankEntry DEF Entry
  <2>2. CASE ~e.present
    BY <1>1, <2>2 DEF Meaning
  <2>3. QED
    BY <2>1, <2>2
<1> HIDE DEF f
<1>5. cache' = [cache EXCEPT ![c] = f] /\ flushed' = TRUE
  BY DEF flush, f
<1>6. \A b \in Client : cache'[b] = IF b = c THEN f ELSE cache[b]
  BY <1>5 DEF Coherent, TypeOK
<1>7. \A b \in Client : /\ ~cache'[b].valid /\ ~cache'[b].dirty /\ ~cache'[b].atime
                        /\ ~cache'[b].mtime /\ cache'[b].size \in SE!Sizes
  BY <1>1, <1>4, <1>6 DEF Coherent, LockDiscipline, EntryMeaning, Meaning
<1>8. TypeOK'
  BY <1>1, <1>2, <1>3, <1>4, <1>5 DEF Coherent, TypeOK
<1>9. LockDiscipline' /\ EntryMeaning' /\ ServerMeaning'
  BY <1>1, <1>3, <1>7 DEF LockDiscipline, EntryMeaning, ServerMeaning
<1>10. QED
  BY <1>1, <1>2, <1>8, <1>9 DEF Coherent, SE!vars

\* Every operation, whatever the server answers, leaves an entry in which only
\* what is present is valid, dirty or has a time: no other client's entry and
\* nothing of the lock changes.
LEMMA OperationDiscipline ==
    ASSUME TypeOK, LockDiscipline, NEW c \in Client, Using(c), NEW e \in Entry,
           e.valid \/ e.dirty \/ e.atime \/ e.mtime => e.present,
           cache' = [cache EXCEPT ![c] = e],
           contents' \in Data \cup {NoExtent},
           UNCHANGED <<lockVars, exts, late, lost>>
    PROVE  TypeOK' /\ LockDiscipline'
<1>1. owner = c /\ users = {c} /\ ~flushed
  BY DEF LockDiscipline, Using
<1>2. cache'[c] = e /\ \A b \in Client \ {c} : cache'[b] = cache[b]
  BY DEF TypeOK
<1>3. TypeOK'
  BY DEF TypeOK, lockVars
<1>4. LockDiscipline'
  BY <1>1, <1>2 DEF LockDiscipline, lockVars
<1>5. QED
  BY <1>3, <1>4

\* get(), getattr(), put() and remove() keep the types and the discipline.
LEMMA OperationsDiscipline ==
    ASSUME TypeOK, LockDiscipline, NEW c \in Client,
           get(c) \/ getattr(c) \/ remove(c) \/ \E d \in Data : put(c, d)
    PROVE  TypeOK' /\ LockDiscipline'
<1> DEFINE Sound(e) == e \in Entry /\ (e.valid \/ e.dirty \/ e.atime \/ e.mtime => e.present)
<1>1. Sound(cache[c]) /\ Sound(Blank(TRUE, Empty))
  BY BlankEntry, ConstantsAssumption DEF TypeOK, LockDiscipline
<1>2. PICK e : /\ Sound(e)
               /\ cache' = [cache EXCEPT ![c] = e]
  <2>1. CASE get(c)
    <3> DEFINE e == cache[c]
               f == [e EXCEPT !.present = TRUE, !.data = exts, !.valid = TRUE, !.dirty = FALSE,
                              !.atime = TRUE, !.size = IF e.present THEN @ ELSE Size[exts]]
    <3>1. CASE cache' = [cache EXCEPT ![c] = e]
      BY <1>1, <3>1
    <3>2. CASE cache' = [cache EXCEPT ![c] = f] /\ exts # NoExtent
      <4>1. exts \in Data /\ Size[exts] \in Nat
        BY <3>2, ConstantsAssumption DEF TypeOK
      <4>2. Sound(f)
        BY <1>1, <4>1 DEF Entry
      <4>3. QED
        BY <3>2, <4>2
    <3>3. QED
      BY <2>1, <3>1, <3>2 DEF get, Answers
  <2>2. CASE getattr(c)
    <3> DEFINE e == IF cache[c].present THEN cache[c] ELSE Blank(TRUE, Empty)
               size == IF e.dirty THEN e.size ELSE Size[exts]
               f == [e EXCEPT !.atime = TRUE, !.mtime = TRUE, !.size = size]
    <3>1. Sound(e) /\ e.present
      BY <1>1, BlankEntry, ConstantsAssumption
    <3> HIDE DEF e
    <3>2. CASE cache' = [cache EXCEPT ![c] = e]
      BY <3>1, <3>2
    <3>3. CASE cache' = [cache EXCEPT ![c] = f] /\ exts # NoExtent
      <4>1. Size[exts] \in Nat
        BY <3>3, ConstantsAssumption DEF TypeOK
      <4>2. size \in Nat
        BY <3>1, <4>1 DEF Entry
      <4>3. Sound(f)
        BY <3>1, <4>2 DEF Entry
      <4>4. QED
        BY <3>3, <4>3
    <3>4. QED
      BY <2>2, <3>2, <3>3 DEF getattr, Answers, e
  <2>3. CASE remove(c)
    <3> DEFINE f == [cache[c] EXCEPT !.valid = FALSE, !.dirty = TRUE]
    <3>1. CASE cache' = [cache EXCEPT ![c] = Blank(TRUE, Empty)]
      BY <1>1, <3>1
    <3>2. CASE cache' = [cache EXCEPT ![c] = f] /\ cache[c].present
      <4>1. Sound(f)
        BY <1>1, <3>2 DEF Entry
      <4>2. QED
        BY <3>2, <4>1
    <3>3. QED
      BY <2>3, <3>1, <3>2 DEF remove, Answers
  <2>4. ASSUME NEW d \in Data, put(c, d)
        PROVE  \E e : Sound(e) /\ cache' = [cache EXCEPT ![c] = e]
    <3> DEFINE f == [present |-> TRUE, data |-> d, valid |-> TRUE, dirty |-> TRUE,
                     atime |-> cache[c].present => cache[c].atime, mtime |-> TRUE,
                     size |-> Size[d]]
    <3>1. Sound(f)
      BY ConstantsAssumption DEF Entry
    <3>2. cache' = [cache EXCEPT ![c] = f]
      BY <2>4 DEF put, Answers
    <3>3. QED
      BY <3>1, <3>2
  <2>5. QED
    BY <2>1, <2>2, <2>3, <2>4
<1>3. Using(c) /\ UNCHANGED <<lockVars, exts, late, lost>> /\ contents' \in Data \cup {NoExtent}
  BY DEF get, getattr, remove, put, TypeOK
<1>4. QED
  BY <1>2, <1>3, OperationDiscipline

\* Whether its call works or not, flush() empties the entry of its client.
LEMMA FlushDiscipline ==
    ASSUME TypeOK, LockDiscipline, NEW c \in Client, flush(c)
    PROVE  TypeOK' /\ LockDiscipline'
<1> DEFINE e == cache[c]
           f == IF e.present THEN Blank(TRUE, e.data) ELSE e
<1>1. users = {c} /\ owner = c /\ flushed' = TRUE /\ UNCHANGED <<owner, users, contents>>
  BY DEF flush, Using, LockDiscipline
<1>2. f \in Entry /\ ~f.valid /\ ~f.dirty /\ ~f.atime /\ ~f.mtime
  <2>1. e \in Entry /\ e.data \in Data
    BY DEF TypeOK, Entry
  <2>2. CASE e.present
    BY <2>1, <2>2, BlankEntry
  <2>3. CASE ~e.present
    BY <2>1, <2>3 DEF LockDiscipline
  <2>4. QED
    BY <2>2, <2>3
<1>3. Written(e) \in Data \cup {NoExtent}
  BY DEF Written, TypeOK, Entry
<1>4. exts' \in Data \cup {NoExtent} /\ late' \subseteq Data \cup {NoExtent} /\ lost' \in BOOLEAN
  BY <1>3 DEF flush, TypeOK
<1> HIDE DEF f
<1>5. cache' = [cache EXCEPT ![c] = f]
  BY DEF flush, f
<1>6. \A b \in Client : cache'[b] = IF b = c THEN f ELSE cache[b]
  BY <1>5 DEF TypeOK
<1>7. \A b \in Client :
         ~cache'[b].valid /\ ~cache'[b].dirty /\ ~cache'[b].atime /\ ~cache'[b].mtime
  BY <1>1, <1>2, <1>6 DEF LockDiscipline
<1>8. TypeOK'
  BY <1>1, <1>2, <1>4, <1>5 DEF TypeOK
<1>9. LockDiscipline'
  BY <1>1, <1>7 DEF LockDiscipline
<1>10. QED
  BY <1>8, <1>9

\* acquire() and release() change the lock only; the lock is given up with all
\* entries empty.
LEMMA LockDisciplineStep ==
    ASSUME TypeOK, LockDiscipline, NEW c \in Client, acquire(c) \/ release(c)
    PROVE  TypeOK' /\ LockDiscipline'
<1>1. UNCHANGED dataVars
  BY DEF acquire, release
<1>2. CASE acquire(c)
  BY <1>1, <1>2, ConstantsAssumption
     DEF acquire, CL!Take, CL!Use, dataVars, TypeOK, LockDiscipline
<1>3. CASE release(c)
  BY <1>1, <1>3 DEF release, CL!Finish, CL!GiveUp, dataVars, TypeOK, LockDiscipline
<1>4. QED
  BY <1>2, <1>3

\* Every step keeps the types and the discipline, whatever calls fail.
LEMMA DisciplineStep ==
    TypeOK /\ LockDiscipline /\ [Next]_vars => TypeOK' /\ LockDiscipline'
<1> SUFFICES ASSUME TypeOK, LockDiscipline, [Next]_vars PROVE TypeOK' /\ LockDiscipline'
  OBVIOUS
<1>1. CASE UNCHANGED vars
  BY <1>1 DEF vars, TypeOK, LockDiscipline
<1>2. ASSUME NEW d \in late, late_call(d) PROVE TypeOK' /\ LockDiscipline'
  BY <1>2 DEF late_call, lockVars, TypeOK, LockDiscipline
<1>3. QED
  BY <1>1, <1>2, LockDisciplineStep, FlushDiscipline, OperationsDiscipline DEF Next

\* Coherence does not depend on which client has the lock.
LEMMA LockStep ==
    ASSUME Coherent, NEW c \in Client, acquire(c) \/ release(c)
    PROVE  Coherent' /\ UNCHANGED SE!vars
<1>1. UNCHANGED dataVars
  BY DEF acquire, release
<1>2. TypeOK' /\ LockDiscipline'
  BY LockDisciplineStep DEF Coherent
<1>3. EntryMeaning' /\ ServerMeaning' /\ late' = {}
  BY <1>1 DEF dataVars, Coherent, EntryMeaning, ServerMeaning
<1>4. QED
  BY <1>1, <1>2, <1>3 DEF dataVars, Coherent, SE!vars

\* Until a call of a flush fails, every step keeps the caches coherent, and is a
\* step of the shared extent or leaves it unchanged.
LEMMA CoherentStep ==
    ASSUME Coherent, ~lost, Next, ~lost'
    PROVE  Coherent' /\ [SE!Next]_(SE!vars)
<1>1. ASSUME NEW c \in Client, acquire(c) \/ release(c)
      PROVE  Coherent' /\ [SE!Next]_(SE!vars)
  BY <1>1, LockStep
<1>2. ASSUME NEW c \in Client, flush(c) PROVE Coherent' /\ [SE!Next]_(SE!vars)
  BY <1>2, FlushStep
<1>3. ASSUME NEW c \in Client, get(c) \/ getattr(c) \/ remove(c)
      PROVE  Coherent' /\ [SE!Next]_(SE!vars)
  <2>1. UNCHANGED lost
    BY <1>3 DEF get, getattr, remove
  <2>2. QED
    BY <1>3, <2>1, GetStep, GetattrStep, RemoveStep DEF SE!Next, SE!Operation
<1>4. ASSUME NEW c \in Client, NEW d \in Data, put(c, d)
      PROVE  Coherent' /\ [SE!Next]_(SE!vars)
  <2>1. UNCHANGED lost
    BY <1>4 DEF put
  <2>2. QED
    BY <1>4, <2>1, PutStep DEF SE!Next, SE!Operation
<1>5. ASSUME NEW d \in late, late_call(d) PROVE FALSE
  BY <1>5 DEF Coherent
<1>6. QED
  BY <1>1, <1>2, <1>3, <1>4, <1>5 DEF Next

\* Every step keeps the invariant, and is a step of the shared extent or leaves
\* it unchanged: the failed call of a flush is the step that ends the promise.
LEMMA Step == Inv /\ [Next]_vars => Inv' /\ [SE!Next]_(SE!vars)
<1> SUFFICES ASSUME Inv, [Next]_vars PROVE Inv' /\ [SE!Next]_(SE!vars)
  OBVIOUS
<1>1. TypeOK' /\ LockDiscipline'
  BY DisciplineStep DEF Inv
<1>2. CASE lost'
  <2>1. lost' = TRUE
    BY <1>1, <1>2 DEF TypeOK
  <2>2. QED
    BY <1>1, <2>1 DEF Inv, SE!Next
<1>3. CASE ~lost'
  <2>1. CASE UNCHANGED vars
    BY <1>1, <2>1
       DEF vars, Inv, Coherent, TypeOK, LockDiscipline, EntryMeaning, ServerMeaning, SE!vars
  <2>2. CASE Next
    <3>1. ~lost
      BY <1>3, <2>2 DEF Next, acquire, release, dataVars, flush, get, getattr, remove, put, late_call
    <3>2. QED
      BY <1>1, <1>3, <2>2, <3>1, CoherentStep DEF Inv
  <2>3. QED
    BY <2>1, <2>2
<1>4. QED
  BY <1>2, <1>3

\* The inductive invariant holds in every state.
THEOREM Invariance == Spec => []Inv
<1>1. Inv /\ [Next]_vars => Inv'
  BY Step
<1>2. QED
  BY <1>1, InitInv, PTL DEF Spec

\* Only the owner of the lock has anything in its cache, for any number of
\* clients and whichever calls fail: nobody reads or writes back an old copy.
THEOREM OnlyOwner == Spec => []OnlyOwnerCaches
<1>1. Inv => OnlyOwnerCaches
  BY DEF Inv, LockDiscipline, OnlyOwnerCaches
<1>2. QED
  BY <1>1, Invariance, PTL

\* Coherence: until the call of a flush() has failed, a copy that a client holds
\* as valid is the last put of any client, for any number of clients.
THEOREM Coherence == Spec => []ValidIsLatest
<1>1. Inv => ValidIsLatest
  BY DEF Inv, Coherent, EntryMeaning, ValidIsLatest
<1>2. QED
  BY <1>1, Invariance, PTL

\* Until the call of a flush() has failed, the lock is given up only with the
\* server up to date.
THEOREM WrittenBack == Spec => []ServerLatestWhenFree
<1>1. Inv => ServerLatestWhenFree
  BY ConstantsAssumption DEF Inv, Coherent, LockDiscipline, ServerMeaning, ServerLatestWhenFree
<1>2. QED
  BY <1>1, Invariance, PTL

\* The extent clients with their caches, and the server, implement one shared
\* extent: until the call of a flush() has failed, every get and getattr answers
\* as if there were no caches.
THEOREM Refinement == Spec => ImplementsSharedExtent
<1>1. Init => SE!Init
  BY DEF Init
<1>2. Inv /\ [Next]_vars => [SE!Next]_(SE!vars)
  BY Step
<1>3. QED
  BY <1>1, <1>2, Invariance, PTL DEF Spec, ImplementsSharedExtent, SE!Spec
=============================================================================
