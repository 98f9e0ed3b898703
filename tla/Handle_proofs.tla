--------------------------- MODULE Handle_proofs ---------------------------
(***************************************************************************)
(* Proofs about the handle manager, for every finite set of threads and    *)
(* any number of hinfos.  refcnt is the number of handles, and the hinfo   *)
(* in hmap is the only one that lives; what a thread knows of its hinfo    *)
(* stays true because only the last handle to go lets it be deleted.       *)
(***************************************************************************)
EXTENDS Handle, FiniteSetTheorems, TLAPS

\* What is assumed of the constants: NULL is neither an hinfo nor a thread.
Distinct == NULL \notin Hinfo /\ NULL \notin Thread /\ IsFiniteSet(Thread)

TypeOK ==
    /\ hmap \in Hinfo \cup {NULL}
    /\ info \in [Hinfo -> Info]
    /\ cl_mutex \in [Hinfo -> Thread \cup {NULL}]
    /\ h \in [Thread -> Hinfo \cup {NULL}]
    /\ pc \in [Thread -> {"out", "in", "bind", "call"}]
    /\ answered \in [Thread -> SUBSET {"NULL", "rpcc"}]

Handles(i) == {t \in Thread : h[t] = i}

\* The counts are those of the handles, and what is not in hmap is not in use.
Counted ==
    \A i \in Hinfo :
        /\ info[i].refcnt = Cardinality(Handles(i))
        /\ info[i].live <=> hmap = i
        /\ hmap # i => Handles(i) = {}

\* A thread has a handle while it binds or calls, and none outside; it holds the
\* mutex of its hinfo while it binds, and nothing else.
Places ==
    /\ \A t \in Thread :
        /\ pc[t] = "out" => h[t] = NULL /\ answered[t] = {}
        /\ pc[t] \in {"bind", "call"} => h[t] # NULL
        /\ "rpcc" \in answered[t] => h[t] # NULL
    /\ \A i \in Hinfo, t \in Thread : cl_mutex[i] = t => pc[t] = "bind" /\ h[t] = i

Inv == TypeOK /\ Counted /\ Places /\ HandleLives /\ SafebindStable

-----------------------------------------------------------------------------

\* Nothing is cached at first.
LEMMA InitInv == Distinct /\ Init => Inv
<1> SUFFICES ASSUME Distinct, Init PROVE Inv
  OBVIOUS
<1>1. TypeOK
  BY DEF Distinct, Init, TypeOK, Info, Freed
<1>2. \A i \in Hinfo : Handles(i) = {}
  BY DEF Distinct, Init, Handles
<1>3. Counted
  BY <1>2, FS_EmptySet DEF Distinct, Init, Counted, Freed
<1>4. Places /\ HandleLives /\ SafebindStable
  BY DEF Distinct, Init, Places, HandleLives, SafebindStable
<1>5. QED
  BY <1>1, <1>3, <1>4 DEF Inv

\* A thread that takes a handle adds one to the handles of that hinfo only.
LEMMA HandleTaken ==
    ASSUME Distinct, TypeOK, NEW t \in Thread, NEW i \in Hinfo, h[t] = NULL,
           h' = [h EXCEPT ![t] = i]
    PROVE  /\ Cardinality(Handles(i)') = Cardinality(Handles(i)) + 1
           /\ Handles(i)' = Handles(i) \cup {t}
           /\ \A j \in Hinfo \ {i} : Handles(j)' = Handles(j)
<1>1. t \notin Handles(i) /\ Handles(i)' = Handles(i) \cup {t}
  BY DEF Distinct, TypeOK, Handles
<1>2. \A j \in Hinfo \ {i} : Handles(j)' = Handles(j)
  BY DEF Distinct, TypeOK, Handles
<1>3. IsFiniteSet(Handles(i))
  BY FS_Subset DEF Distinct, Handles
<1>4. QED
  BY <1>1, <1>2, <1>3, FS_AddElement

\* A thread that drops its handle takes one from those of its hinfo.
LEMMA HandleDropped ==
    ASSUME Distinct, TypeOK, NEW t \in Thread, NEW i \in Hinfo, h[t] = i,
           h' = [h EXCEPT ![t] = NULL]
    PROVE  /\ Cardinality(Handles(i)') = Cardinality(Handles(i)) - 1
           /\ Cardinality(Handles(i)') = 0 => Handles(i)' = {}
           /\ Cardinality(Handles(i)') \in Nat
           /\ Handles(i)' = Handles(i) \ {t}
           /\ \A j \in Hinfo \ {i} : Handles(j)' = Handles(j)
<1>1. t \in Handles(i) /\ Handles(i)' = Handles(i) \ {t}
  BY DEF Distinct, TypeOK, Handles
<1>2. \A j \in Hinfo \ {i} : Handles(j)' = Handles(j)
  BY DEF Distinct, TypeOK, Handles
<1>3. IsFiniteSet(Handles(i))
  BY FS_Subset DEF Distinct, Handles
<1>4. QED
  BY <1>1, <1>2, <1>3, FS_RemoveElement, FS_EmptySet, FS_CardinalityType

\* An operation that leaves the hinfos and the handles alone leaves the counts.
LEMMA SameHandles ==
    ASSUME Counted, UNCHANGED <<hmap, info, h>>
    PROVE  Counted'
<1>1. \A j \in Hinfo : Handles(j)' = Handles(j)
  BY DEF Handles
<1>2. QED
  BY <1>1 DEF Counted

\* Each operation keeps the invariant.
LEMMA NextInv == Distinct /\ Inv /\ [Next]_vars => Inv'
<1> SUFFICES ASSUME Distinct, Inv, [Next]_vars PROVE Inv'
  OBVIOUS
<1> USE DEF Inv, Distinct
<1>1. ASSUME NEW t \in Thread, get_handle(t) PROVE Inv'
  <2>0. h[t] = NULL /\ answered[t] = {} /\ pc[t] = "out" /\ pc' = [pc EXCEPT ![t] = "in"]
        /\ UNCHANGED <<cl_mutex, answered>>
    BY <1>1 DEF get_handle, Places
  <2>1. CASE hmap # NULL /\ info[hmap].del /\ UNCHANGED <<hmap, info, h>>
    <3>1. TypeOK'
      BY <2>0, <2>1 DEF TypeOK
    <3>2. Counted'
      BY <2>1, SameHandles
    <3>3. Places' /\ HandleLives' /\ SafebindStable'
      BY <2>0, <2>1 DEF TypeOK, Places, HandleLives, SafebindStable
    <3>4. QED
      BY <3>1, <3>2, <3>3
  <2>2. ASSUME hmap = NULL, NEW i \in Hinfo, ~info[i].live, hmap' = i, h' = [h EXCEPT ![t] = i],
               info' = [info EXCEPT ![i] = New]
        PROVE  Inv'
    <3>0. \A j \in Hinfo : Handles(j) = {} /\ ~info[j].live
      BY <2>2 DEF Counted, TypeOK, Info
    <3>a. \A b \in Thread : h[b] = NULL
      BY <3>0 DEF Handles, TypeOK
    <3>1. TypeOK'
      BY <2>0, <2>2 DEF TypeOK, Info, New
    <3>2. Counted'
      <4>0. Cardinality(Handles(i)) = 0
        BY <3>0, FS_EmptySet
      <4>a. /\ Cardinality(Handles(i)') = Cardinality(Handles(i)) + 1
            /\ \A j \in Hinfo \ {i} : Handles(j)' = Handles(j)
        BY <2>0, <2>2, HandleTaken
      <4>1. Cardinality(Handles(i)') = 1
        BY <4>a, <4>0
      <4>2. info'[i].refcnt = 1 /\ info'[i].live /\ \A j \in Hinfo \ {i} : info'[j] = info[j]
        BY <2>2 DEF TypeOK, New
      <4>3. QED
        BY <4>a, <4>1, <4>2, <3>0, <2>2 DEF Counted
    <3>b. \A b \in Thread : pc'[b] \notin {"bind", "call"} /\ "rpcc" \notin answered'[b]
      BY <2>0, <3>a DEF TypeOK, Places
    <3>c. info'[i].live /\ \A b \in Thread : h'[b] = IF b = t THEN i ELSE NULL
      BY <2>2, <3>a DEF TypeOK, New
    <3>d. \A b \in Thread, j \in Hinfo : cl_mutex'[j] # b
      BY <2>0, <3>a DEF Places, TypeOK
    <3>3. Places' /\ HandleLives' /\ SafebindStable'
      BY <2>0, <2>2, <3>b, <3>c, <3>d DEF TypeOK, Places, HandleLives, SafebindStable
    <3>4. QED
      BY <3>1, <3>2, <3>3
  <2>3. ASSUME hmap # NULL, ~info[hmap].del, h' = [h EXCEPT ![t] = hmap],
               info' = [info EXCEPT ![hmap].refcnt = @ + 1], UNCHANGED hmap
        PROVE  Inv'
    <3>0. hmap \in Hinfo /\ info[hmap].live /\ info[hmap].refcnt \in Nat
      BY <2>3 DEF TypeOK, Counted, Info
    <3>1. TypeOK'
      BY <2>0, <2>3, <3>0 DEF TypeOK, Info
    <3>a. \A j \in Hinfo : info'[j].live = info[j].live /\ info'[j].del = info[j].del
                           /\ info'[j].cl = info[j].cl
                           /\ info'[j].refcnt = IF j = hmap THEN info[j].refcnt + 1 ELSE info[j].refcnt
      BY <2>3, <3>0 DEF TypeOK, Info
    <3>2. Counted'
      <4>1. /\ Cardinality(Handles(hmap)') = Cardinality(Handles(hmap)) + 1
            /\ \A j \in Hinfo \ {hmap} : Handles(j)' = Handles(j)
        BY <2>0, <2>3, <3>0, HandleTaken
      <4>2. QED
        BY <4>1, <3>0, <3>a, <2>3 DEF Counted
    <3>3. Places' /\ HandleLives' /\ SafebindStable'
      BY <2>0, <2>3, <3>0, <3>a DEF TypeOK, Places, HandleLives, SafebindStable
    <3>4. QED
      BY <3>1, <3>2, <3>3
  <2>4. QED
    BY <1>1, <2>1, <2>2, <2>3 DEF get_handle
<1>2. ASSUME NEW t \in Thread, safebind(t) PROVE Inv'
  <2> DEFINE null == h[t] = NULL \/ info[h[t]].del
             bound == ~null /\ info[h[t]].cl
  <2>0. /\ pc[t] = "in" /\ (h[t] # NULL => cl_mutex[h[t]] = NULL)
        /\ pc' = [pc EXCEPT ![t] = IF null THEN "in" ELSE IF bound THEN "call" ELSE "bind"]
        /\ answered' = [answered EXCEPT ![t] = @ \cup (IF null THEN {"NULL"} ELSE
                                                       IF bound THEN {"rpcc"} ELSE {})]
        /\ cl_mutex' = (IF null \/ bound THEN cl_mutex ELSE [cl_mutex EXCEPT ![h[t]] = t])
        /\ UNCHANGED <<hmap, info, h>>
    BY <1>2 DEF safebind
  <2>1. Counted'
    BY <2>0, SameHandles
  <2>2. CASE null
    BY <2>0, <2>1, <2>2 DEF TypeOK, Places, HandleLives, SafebindStable
  <2>3. CASE bound
    BY <2>0, <2>1, <2>3 DEF TypeOK, Places, HandleLives, SafebindStable
  <2>4. CASE ~null /\ ~bound
    <3>1. TypeOK'
      BY <2>0, <2>4 DEF TypeOK
    <3>2. Places'
      BY <2>0, <2>4 DEF TypeOK, Places
    <3>3. HandleLives'
      BY <2>0, <2>4 DEF TypeOK, Places, HandleLives
    <3>4. SafebindStable'
      BY <2>0, <2>4 DEF TypeOK, SafebindStable
    <3>5. QED
      BY <2>1, <3>1, <3>2, <3>3, <3>4
  <2>5. QED
    BY <2>2, <2>3, <2>4
<1>3. ASSUME NEW t \in Thread, NEW ret \in BOOLEAN, safebind_bound(t, ret) PROVE Inv'
  <2>0. pc[t] = "bind" /\ h[t] \in Hinfo /\ cl_mutex[h[t]] = t /\ ~info[h[t]].cl
    BY <1>3 DEF safebind_bound, TypeOK, Places, HandleLives
  <2>a. info[h[t]] \in Info
    BY <2>0 DEF TypeOK
  <2>b. [info[h[t]] EXCEPT !.cl = ret, !.del = info[h[t]].del \/ ~ret] \in Info
    BY <2>a DEF Info
  <2>c. info' = [info EXCEPT ![h[t]] = [info[h[t]] EXCEPT !.cl = ret, !.del = info[h[t]].del \/ ~ret]]
    BY <1>3, <2>0 DEF safebind_bound, TypeOK
  <2>1. TypeOK'
    BY <1>3, <2>0, <2>b, <2>c DEF safebind_bound, TypeOK
  <2>2. \A j \in Hinfo : /\ info'[j].live = info[j].live /\ info'[j].refcnt = info[j].refcnt
                         /\ info'[j].cl = IF j = h[t] THEN ret ELSE info[j].cl
                         /\ info'[j].del = IF j = h[t] THEN info[j].del \/ ~ret ELSE info[j].del
    BY <1>3, <2>0 DEF safebind_bound, TypeOK, Info
  <2>3. Counted'
    <3>1. UNCHANGED <<hmap, h>>
      BY <1>3 DEF safebind_bound
    <3>2. \A j \in Hinfo : Handles(j)' = Handles(j)
      BY <3>1 DEF Handles
    <3>3. QED
      BY <2>2, <3>1, <3>2 DEF Counted
  <2>4. Places'
    BY <1>3, <2>0 DEF safebind_bound, TypeOK, Places
  <2>5. HandleLives'
    BY <1>3, <2>0, <2>2 DEF safebind_bound, TypeOK, Places, HandleLives
  <2>6. SafebindStable'
    <3>1. UNCHANGED h /\ \A b \in Thread : h[b] \in Hinfo \cup {NULL}
      BY <1>3 DEF safebind_bound, TypeOK
    <3>2. /\ \A b \in Thread \ {t} : answered'[b] = answered[b]
          /\ answered'[t] = answered[t] \cup {IF ret THEN "rpcc" ELSE "NULL"}
      BY <1>3 DEF safebind_bound, TypeOK
    <3>3. \A b \in Thread : "rpcc" \in answered[b] => h[b] \in Hinfo \ {h[t]}
      BY <2>0, <3>1 DEF Places, SafebindStable
    <3>4. ASSUME NEW b \in Thread, "NULL" \in answered'[b] PROVE h'[b] = NULL \/ info'[h'[b]].del
      BY <2>0, <2>2, <3>1, <3>2, <3>4 DEF SafebindStable
    <3>5. ASSUME NEW b \in Thread, "rpcc" \in answered'[b] PROVE info'[h'[b]].cl
      BY <2>0, <2>2, <3>1, <3>2, <3>3, <3>5 DEF SafebindStable
    <3>6. QED
      BY <3>4, <3>5 DEF SafebindStable
  <2>7. QED
    BY <2>1, <2>3, <2>4, <2>5, <2>6
<1>4. ASSUME NEW t \in Thread, call_done(t) PROVE Inv'
  <2>1. Counted'
    BY <1>4, SameHandles DEF call_done
  <2>2. QED
    BY <1>4, <2>1 DEF call_done, TypeOK, Places, HandleLives, SafebindStable
<1>5. ASSUME NEW t \in Thread, done_handle(t) PROVE Inv'
  <2>0. /\ pc[t] = "in" /\ pc' = [pc EXCEPT ![t] = "out"] /\ h' = [h EXCEPT ![t] = NULL]
        /\ answered' = [answered EXCEPT ![t] = {}] /\ UNCHANGED cl_mutex
    BY <1>5 DEF done_handle
  <2>a. \A i \in Hinfo : cl_mutex[i] # t
    BY <2>0 DEF TypeOK, Places
  <2>1. CASE h[t] = NULL
    <3>1. UNCHANGED <<hmap, info, h>>
      BY <1>5, <2>0, <2>1 DEF done_handle, TypeOK
    <3>2. Counted'
      BY <3>1, SameHandles
    <3>3. QED
      BY <2>0, <2>a, <3>1, <3>2 DEF TypeOK, Places, HandleLives, SafebindStable
  <2>2. CASE h[t] # NULL
    <3>0. PICK i \in Hinfo : /\ h[t] = i /\ hmap = i /\ info[i].live
                            /\ info[i].refcnt = Cardinality(Handles(i))
      BY <2>2 DEF TypeOK, HandleLives, Counted
    <3>1. /\ Cardinality(Handles(i)') = info[i].refcnt - 1
          /\ Cardinality(Handles(i)') = 0 => Handles(i)' = {}
          /\ Cardinality(Handles(i)') \in Nat
          /\ \A j \in Hinfo \ {i} : Handles(j)' = Handles(j)
      BY <2>0, <3>0, HandleDropped
    <3>2. CASE info[i].refcnt - 1 = 0 /\ info[i].del
      <4>1. hmap' = NULL /\ info' = [info EXCEPT ![i] = Freed]
        BY <1>5, <2>2, <3>0, <3>2 DEF done_handle, delete_handle_wo
      <4>2. \A j \in Hinfo : Handles(j)' = {}
        BY <3>0, <3>1, <3>2 DEF Counted
      <4>3. \A b \in Thread : h'[b] = NULL
        <5>1. h' \in [Thread -> Hinfo \cup {NULL}]
          BY <2>0 DEF TypeOK
        <5>2. QED
          BY <4>2, <5>1 DEF Handles
      <4>4. TypeOK'
        BY <2>0, <4>1, <3>0 DEF TypeOK, Info, Freed
      <4>5. Counted'
        <5>1. \A j \in Hinfo \ {i} : info'[j] = info[j]
          BY <4>1 DEF TypeOK
        <5>2. info'[i] = Freed
          BY <4>1, <3>0 DEF TypeOK
        <5>3. \A j \in Hinfo \ {i} : info[j].refcnt = 0 /\ ~info[j].live
          BY <3>0, FS_EmptySet DEF Counted, TypeOK, Info
        <5>4. \A j \in Hinfo : Cardinality(Handles(j)') = 0
          BY <4>2, FS_EmptySet
        <5>5. \A j \in Hinfo : info'[j].refcnt = 0 /\ ~info'[j].live /\ hmap' # j
          BY <4>1, <5>1, <5>2, <5>3 DEF Freed
        <5>6. QED
          BY <4>2, <5>4, <5>5 DEF Counted
      <4>6. \A b \in Thread : pc'[b] \notin {"bind", "call"} /\ "rpcc" \notin answered'[b]
        BY <2>0, <4>3, <3>0 DEF TypeOK, Places, HandleLives, Handles
      <4>7. Places' /\ HandleLives' /\ SafebindStable'
        BY <2>0, <2>a, <4>3, <4>6 DEF TypeOK, Places, HandleLives, SafebindStable
      <4>8. QED
        BY <4>4, <4>5, <4>7
    <3>3. CASE ~(info[i].refcnt - 1 = 0 /\ info[i].del)
      <4>1. info' = [info EXCEPT ![i].refcnt = info[i].refcnt - 1] /\ UNCHANGED hmap
        BY <1>5, <2>2, <3>0, <3>3 DEF done_handle
      <4>2. TypeOK'
        BY <2>0, <4>1, <3>0, <3>1 DEF TypeOK, Info
      <4>3. \A j \in Hinfo : /\ info'[j].live = info[j].live /\ info'[j].del = info[j].del
                             /\ info'[j].cl = info[j].cl
                             /\ info'[j].refcnt = IF j = i THEN info[j].refcnt - 1 ELSE info[j].refcnt
        BY <4>1, <3>0 DEF TypeOK, Info
      <4>4. Counted'
        BY <4>1, <4>3, <3>0, <3>1 DEF Counted
      <4>5. Places' /\ HandleLives' /\ SafebindStable'
        BY <2>0, <2>a, <4>1, <4>3 DEF TypeOK, Places, HandleLives, SafebindStable
      <4>6. QED
        BY <4>2, <4>4, <4>5
    <3>4. QED
      BY <3>2, <3>3
  <2>3. QED
    BY <2>1, <2>2
<1>6. CASE delete_handle
  <2>0. hmap \in Hinfo /\ UNCHANGED <<cl_mutex, h, pc, answered>>
    BY <1>6 DEF delete_handle, TypeOK
  <2>a. \A j \in Hinfo : Handles(j)' = Handles(j)
    BY <2>0 DEF Handles
  <2>1. CASE info[hmap].refcnt = 0
    <3>1. hmap' = NULL /\ info' = [info EXCEPT ![hmap] = Freed]
      BY <1>6, <2>1 DEF delete_handle, delete_handle_wo
    <3>2. \A j \in Hinfo : Handles(j) = {}
      <4>1. IsFiniteSet(Handles(hmap)) /\ Cardinality(Handles(hmap)) = 0
        BY <2>0, <2>1, FS_Subset DEF Counted, Handles
      <4>2. QED
        BY <4>1, FS_EmptySet DEF Counted
    <3>3. \A b \in Thread : h[b] = NULL
      BY <3>2 DEF Handles, TypeOK
    <3>4. TypeOK'
      BY <2>0, <3>1 DEF TypeOK, Info, Freed
    <3>5. Counted'
      <4>1. info'[hmap] = Freed /\ \A j \in Hinfo \ {hmap} : info'[j] = info[j]
        BY <2>0, <3>1 DEF TypeOK
      <4>2. \A j \in Hinfo \ {hmap} : info[j].refcnt = 0 /\ ~info[j].live
        BY <3>2, FS_EmptySet DEF Counted, TypeOK, Info
      <4>3. QED
        BY <2>a, <3>1, <3>2, <4>1, <4>2, FS_EmptySet DEF Counted, Freed
    <3>6. Places' /\ HandleLives' /\ SafebindStable'
      BY <2>0, <3>3 DEF TypeOK, Places, HandleLives, SafebindStable
    <3>7. QED
      BY <3>4, <3>5, <3>6
  <2>2. CASE info[hmap].refcnt # 0
    <3>1. /\ info' = [info EXCEPT ![hmap].del = TRUE, ![hmap].refcnt = info[hmap].refcnt]
          /\ UNCHANGED hmap
      BY <1>6, <2>2 DEF delete_handle, delete_handle_wo
    <3>a. info[hmap] \in Info
      BY <2>0 DEF TypeOK
    <3>b. /\ [info[hmap] EXCEPT !.del = TRUE, !.refcnt = info[hmap].refcnt] \in Info
          /\ info' = [info EXCEPT ![hmap] = [info[hmap] EXCEPT !.del = TRUE, !.refcnt = info[hmap].refcnt]]
      BY <2>0, <3>1, <3>a DEF TypeOK, Info
    <3>2. TypeOK'
      BY <2>0, <3>1, <3>b DEF TypeOK
    <3>3. \A j \in Hinfo : /\ info'[j].live = info[j].live /\ info'[j].refcnt = info[j].refcnt
                           /\ info'[j].cl = info[j].cl /\ (info[j].del => info'[j].del)
      BY <2>0, <3>1 DEF TypeOK, Info
    <3>4. Counted'
      BY <2>a, <3>1, <3>3 DEF Counted
    <3>5. Places' /\ HandleLives' /\ SafebindStable'
      BY <2>0, <3>1, <3>3 DEF TypeOK, Places, HandleLives, SafebindStable
    <3>6. QED
      BY <3>2, <3>4, <3>5
  <2>3. QED
    BY <2>1, <2>2
<1>7. CASE UNCHANGED vars
  <2>1. Counted'
    BY <1>7, SameHandles DEF vars
  <2>2. QED
    BY <1>7, <2>1 DEF vars, TypeOK, Places, HandleLives, SafebindStable
<1>8. QED
  BY <1>1, <1>2, <1>3, <1>4, <1>5, <1>6, <1>7 DEF Next

-----------------------------------------------------------------------------
\* For any number of threads and hinfos, the hinfo of a handle and the client that
\* a thread binds or calls live as long as it has them, whoever drops or deletes
\* handles meanwhile (handle.cc).
THEOREM HandleLivesCorrect == Distinct => (Spec => []HandleLives)
<1> SUFFICES ASSUME Distinct PROVE Spec => []HandleLives
  OBVIOUS
<1>1. Init => Inv
  BY InitInv
<1>2. Inv /\ [Next]_vars => Inv'
  BY NextInv
<1>3. Inv => HandleLives
  BY DEF Inv
<1>4. QED
  BY <1>1, <1>2, <1>3, PTL DEF Spec

\* What handle.h promises of safebind holds for any number of threads that share
\* the hinfo, bind it and delete it.
THEOREM SafebindStableCorrect == Distinct => (Spec => []SafebindStable)
<1> SUFFICES ASSUME Distinct PROVE Spec => []SafebindStable
  OBVIOUS
<1>1. Init => Inv
  BY InitInv
<1>2. Inv /\ [Next]_vars => Inv'
  BY NextInv
<1>3. Inv => SafebindStable
  BY DEF Inv
<1>4. QED
  BY <1>1, <1>2, <1>3, PTL DEF Spec
=============================================================================
