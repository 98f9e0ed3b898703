------------------------------- MODULE Handle -------------------------------
(***************************************************************************)
(* The handle manager: a cache of bound RPC clients, one hinfo for each    *)
(* destination, shared by the threads that have a handle for it.  The map  *)
(* is keyed by the destination and no operation touches two, so that one   *)
(* destination stands for all.  handle_mutex makes each operation of       *)
(* handle_mgr one step; safebind holds the hinfo's own mutex while it      *)
(* binds, and handle_mutex is free then.                                   *)
(***************************************************************************)
EXTENDS Integers, FiniteSets

CONSTANTS Thread, Hinfo, NULL

VARIABLES hmap,         \* the hinfo of the destination
          info,         \* the contents of each hinfo; live from new to delete
          cl_mutex,     \* the thread that holds the mutex of each hinfo
          h,            \* the hinfo of each thread's handle
          pc,           \* where each thread is
          answered      \* what safebind has answered to the thread's handle (history)

vars == <<hmap, info, cl_mutex, h, pc, answered>>

Info == [live : BOOLEAN, refcnt : Nat, del : BOOLEAN, cl : BOOLEAN]
New == [live |-> TRUE, refcnt |-> 1, del |-> FALSE, cl |-> FALSE]
Freed == [live |-> FALSE, refcnt |-> 0, del |-> FALSE, cl |-> FALSE]

Init ==
    /\ hmap = NULL
    /\ info = [i \in Hinfo |-> Freed]
    /\ cl_mutex = [i \in Hinfo |-> NULL]
    /\ h = [t \in Thread |-> NULL]
    /\ pc = [t \in Thread |-> "out"]
    /\ answered = [t \in Thread |-> {}]

\* Mutant of get_handle: the handles of a known destination are not counted.
get_handle_uncounted(t) ==
    /\ pc[t] = "out"
    /\ pc' = [pc EXCEPT ![t] = "in"]
    /\ \/ /\ hmap = NULL
          /\ \E i \in Hinfo :
                /\ ~info[i].live
                /\ hmap' = i /\ h' = [h EXCEPT ![t] = i]
                /\ info' = [info EXCEPT ![i] = New]
       \/ /\ hmap # NULL /\ ~info[hmap].del
          /\ h' = [h EXCEPT ![t] = hmap]
          /\ UNCHANGED <<hmap, info>>
    /\ UNCHANGED <<cl_mutex, answered>>

\* The constructor of handle, get_handle.
get_handle(t) ==
    /\ pc[t] = "out"
    /\ pc' = [pc EXCEPT ![t] = "in"]
    /\ \/ /\ hmap = NULL
          /\ \E i \in Hinfo :
                /\ ~info[i].live
                /\ hmap' = i /\ h' = [h EXCEPT ![t] = i]
                /\ info' = [info EXCEPT ![i] = New]
       \/ /\ hmap # NULL /\ ~info[hmap].del
          /\ h' = [h EXCEPT ![t] = hmap]
          /\ info' = [info EXCEPT ![hmap].refcnt = @ + 1]
          /\ UNCHANGED hmap
       \/ /\ hmap # NULL /\ info[hmap].del
          /\ UNCHANGED <<hmap, info, h>>
    /\ UNCHANGED <<cl_mutex, answered>>

\* safebind up to its return, or to bind() with the mutex held.
safebind(t) ==
    /\ pc[t] = "in"
    /\ h[t] # NULL => cl_mutex[h[t]] = NULL
    /\ LET null == h[t] = NULL \/ info[h[t]].del
           bound == ~null /\ info[h[t]].cl
       IN  /\ pc' = [pc EXCEPT ![t] = IF null THEN "in" ELSE IF bound THEN "call" ELSE "bind"]
           /\ answered' = [answered EXCEPT ![t] = @ \cup (IF null THEN {"NULL"} ELSE
                                                         IF bound THEN {"rpcc"} ELSE {})]
           /\ cl_mutex' = IF null \/ bound THEN cl_mutex ELSE [cl_mutex EXCEPT ![h[t]] = t]
    /\ UNCHANGED <<hmap, info, h>>

\* Mutant of safebind_bound: a failed bind leaves the hinfo as it is.
safebind_bound_undeleted(t, ret) ==
    /\ pc[t] = "bind"
    /\ info' = [info EXCEPT ![h[t]].cl = ret]
    /\ answered' = [answered EXCEPT ![t] = @ \cup {IF ret THEN "rpcc" ELSE "NULL"}]
    /\ pc' = [pc EXCEPT ![t] = IF ret THEN "call" ELSE "in"]
    /\ cl_mutex' = [cl_mutex EXCEPT ![h[t]] = NULL]
    /\ UNCHANGED <<hmap, h>>

\* bind() has returned, well or not.
safebind_bound(t, ret) ==
    /\ pc[t] = "bind"
    /\ info' = [info EXCEPT ![h[t]].cl = ret, ![h[t]].del = @ \/ ~ret]
    /\ answered' = [answered EXCEPT ![t] = @ \cup {IF ret THEN "rpcc" ELSE "NULL"}]
    /\ pc' = [pc EXCEPT ![t] = IF ret THEN "call" ELSE "in"]
    /\ cl_mutex' = [cl_mutex EXCEPT ![h[t]] = NULL]
    /\ UNCHANGED <<hmap, h>>

\* The thread has used the client that safebind returned.
call_done(t) ==
    /\ pc[t] = "call"
    /\ pc' = [pc EXCEPT ![t] = "in"]
    /\ UNCHANGED <<hmap, info, cl_mutex, h, answered>>

\* delete_handle_wo on an hinfo with the given reference count.
delete_handle_wo(i, refcnt) ==
    IF refcnt = 0
    THEN hmap' = NULL /\ info' = [info EXCEPT ![i] = Freed]
    ELSE info' = [info EXCEPT ![i].del = TRUE, ![i].refcnt = refcnt] /\ UNCHANGED hmap

\* The destructor of handle, done_handle.
done_handle(t) ==
    /\ pc[t] = "in"
    /\ pc' = [pc EXCEPT ![t] = "out"]
    /\ h' = [h EXCEPT ![t] = NULL]
    /\ answered' = [answered EXCEPT ![t] = {}]
    /\ IF h[t] = NULL THEN UNCHANGED <<hmap, info>>
       ELSE LET n == info[h[t]].refcnt - 1 IN
            IF n = 0 /\ info[h[t]].del THEN delete_handle_wo(h[t], n)
            ELSE info' = [info EXCEPT ![h[t]].refcnt = n] /\ UNCHANGED hmap
    /\ UNCHANGED cl_mutex

\* delete_handle, by a thread that has no handle.
delete_handle ==
    /\ hmap # NULL
    /\ delete_handle_wo(hmap, info[hmap].refcnt)
    /\ UNCHANGED <<cl_mutex, h, pc, answered>>

Next ==
    \/ \E t \in Thread :
          \/ get_handle(t) \/ safebind(t) \/ call_done(t) \/ done_handle(t)
          \/ \E ret \in BOOLEAN : safebind_bound(t, ret)
    \/ delete_handle

Spec == Init /\ [][Next]_vars

-----------------------------------------------------------------------------
\* The hinfo of a handle, and the client that a thread is calling or binding, are
\* not deleted under it, whoever fails to bind, drops its handle or deletes the
\* destination at the same time; and no two threads bind at once.
HandleLives ==
    \A t \in Thread :
        /\ h[t] # NULL => info[h[t]].live /\ h[t] = hmap
        /\ pc[t] = "call" => info[h[t]].cl
        /\ pc[t] = "bind" => cl_mutex[h[t]] = t /\ ~info[h[t]].cl

\* "if the first safebind succeeded, all later calls would return a rpcc object;
\* otherwise, all later calls would return NULL" (handle.h): a handle that has
\* answered NULL always will, and one that has given a client keeps it, so that
\* only delete_handle, which marks the destination, can make it answer NULL.
SafebindStable ==
    \A t \in Thread :
        /\ "NULL" \in answered[t] => h[t] = NULL \/ info[h[t]].del
        /\ "rpcc" \in answered[t] => info[h[t]].cl
=============================================================================
