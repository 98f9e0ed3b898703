------------------------------ MODULE PollMgr ------------------------------
(***************************************************************************)
(* The poll manager with SelectAIO: one thread that waits in select for    *)
(* the watched descriptors and calls back, and the operations with which   *)
(* other threads change what it watches.  They wake it through a pipe.     *)
(*                                                                         *)
(* Operations are pieces of the actions of Connection, which knows what    *)
(* descriptors are ready.  Each runs under a mutex from start to end; only *)
(* block_remove_fd waits, until the poll thread has come round.            *)
(***************************************************************************)
EXTENDS Integers, FiniteSets

CONSTANTS FD,           \* descriptors of connections
          Pipe,         \* pipefd_[0]
          NoConn        \* an empty slot of callbacks_

ASSUME FdAssumption == FD \subseteq Nat /\ IsFiniteSet(FD) /\ Pipe \in Nat \ FD

VARIABLES callbacks_,   \* the connection to call back for each descriptor
          rfds_, wfds_, highfds_,
          pipe,         \* bytes in the pipe
          pending_change_,
          changedone_c_,  \* the threads asleep in block_remove_fd
          poll          \* where wait_loop is, the ready descriptors not called back yet, and
                        \* whom it calls back

pollVars == <<callbacks_, rfds_, wfds_, highfds_, pipe, pending_change_, changedone_c_, poll>>

Lowest(S) == CHOOSE i \in S : \A j \in S : i <= j
Highest(S) == CHOOSE i \in S : \A j \in S : j <= i

At(step) == [at |-> step, readable |-> {}, writable |-> {}, c |-> NoConn]

PollInit ==
    /\ callbacks_ = [fd \in FD |-> NoConn]
    /\ rfds_ = {} /\ wfds_ = {} /\ highfds_ = Pipe
    /\ pipe = 0 /\ pending_change_ = FALSE /\ changedone_c_ = {}
    /\ poll = At("top")

\* Mutant of watch_fd: select is not woken.
watch_fd_silent(fd, flag) ==
    /\ highfds_' = IF highfds_ <= fd THEN fd ELSE highfds_
    /\ rfds_' = IF flag = "CB_WRONLY" THEN rfds_ ELSE rfds_ \cup {fd}
    /\ wfds_' = IF flag = "CB_RDONLY" THEN wfds_ ELSE wfds_ \cup {fd}
    /\ UNCHANGED pipe

watch_fd(fd, flag) ==
    /\ highfds_' = IF highfds_ <= fd THEN fd ELSE highfds_
    /\ rfds_' = IF flag = "CB_WRONLY" THEN rfds_ ELSE rfds_ \cup {fd}
    /\ wfds_' = IF flag = "CB_RDONLY" THEN wfds_ ELSE wfds_ \cup {fd}
    /\ pipe' = pipe + 1

\* The highest descriptor is looked for again when it is not watched any more.
\* Only the removal of both flags wakes select.
unwatch_fd(fd, flag) ==
    /\ rfds_' = IF flag = "CB_WRONLY" THEN rfds_ ELSE rfds_ \ {fd}
    /\ wfds_' = IF flag = "CB_RDONLY" THEN wfds_ ELSE wfds_ \ {fd}
    /\ highfds_' = IF fd = highfds_ /\ fd \notin rfds_' \cup wfds_'
                   THEN Highest({Pipe} \cup {i \in rfds_' \cup wfds_' : i <= highfds_})
                   ELSE highfds_
    /\ pipe' = IF flag = "CB_RDWR" THEN pipe + 1 ELSE pipe

\* The assertion on the slot is stated by AssertsHold of Connection.
add_callback(fd, flag, c) ==
    /\ watch_fd(fd, flag)
    /\ callbacks_' = [callbacks_ EXCEPT ![fd] = c]
    /\ UNCHANGED <<pending_change_, changedone_c_>>

\* Mutant of del_callback: the slot is kept.
del_callback_keep(fd, flag) ==
    /\ unwatch_fd(fd, flag)
    /\ UNCHANGED <<callbacks_, pending_change_, changedone_c_>>

del_callback(fd, flag) ==
    /\ unwatch_fd(fd, flag)
    /\ callbacks_' = [callbacks_ EXCEPT ![fd] = IF fd \in rfds_' \cup wfds_' THEN @ ELSE NoConn]
    /\ UNCHANGED <<pending_change_, changedone_c_>>

\* Mutant of block_remove_fd: it does not wait.
block_remove_fd_nowait(t, fd) ==
    /\ unwatch_fd(fd, "CB_RDWR")
    /\ pending_change_' = TRUE
    /\ UNCHANGED <<callbacks_, changedone_c_, poll>>

\* block_remove_fd up to its wait, and after it.
block_remove_fd(t, fd) ==
    /\ unwatch_fd(fd, "CB_RDWR")
    /\ pending_change_' = TRUE
    /\ changedone_c_' = changedone_c_ \cup {t}
    /\ UNCHANGED <<callbacks_, poll>>

block_remove_fd_end(t, fd) ==
    /\ t \notin changedone_c_
    /\ callbacks_' = [callbacks_ EXCEPT ![fd] = NoConn]
    /\ UNCHANGED <<rfds_, wfds_, highfds_, pipe, pending_change_, changedone_c_, poll>>

\* The head of wait_loop: whoever waits for a change is told.
wait_loop ==
    /\ poll.at = "top"
    /\ poll' = At("copy")
    /\ pending_change_' = FALSE
    /\ changedone_c_' = IF pending_change_ THEN {} ELSE changedone_c_
    /\ UNCHANGED <<callbacks_, rfds_, wfds_, highfds_, pipe>>

\* wait_ready up to select.
wait_ready ==
    /\ poll.at = "copy"
    /\ poll' = [At("select") EXCEPT !.readable = {fd \in rfds_ : fd <= highfds_},
                                    !.writable = {fd \in wfds_ : fd <= highfds_}]
    /\ UNCHANGED <<callbacks_, rfds_, wfds_, highfds_, pipe, pending_change_, changedone_c_>>

\* What is left of the round once these descriptors remain.
Round(r, w) ==
    IF r \cup w = {} THEN At("top") ELSE [At("events") EXCEPT !.readable = r, !.writable = w]

\* select returns, given what is readable and writable now, and the rest of
\* wait_ready, which takes one byte from the pipe.
select(R, W) ==
    LET r == poll.readable \cap R
        w == poll.writable \cap W
    IN  /\ poll.at = "select" /\ (pipe > 0 \/ r \cup w # {})
        /\ poll' = Round(r, w)
        /\ pipe' = IF pipe > 0 THEN pipe - 1 ELSE pipe
        /\ UNCHANGED <<callbacks_, rfds_, wfds_, highfds_, pending_change_, changedone_c_>>

\* A signal interrupts select: nothing is ready.
select_eintr ==
    /\ poll.at = "select"
    /\ poll' = At("top")
    /\ UNCHANGED <<callbacks_, rfds_, wfds_, highfds_, pipe, pending_change_, changedone_c_>>

\* wait_loop goes through the readable descriptors first, each list from the lowest.
ReadEvent(fd, at) == poll.at = at /\ poll.readable # {} /\ fd = Lowest(poll.readable)
WriteEvent(fd, at) == poll.at = at /\ poll.readable = {} /\ fd = Lowest(poll.writable)

\* It takes the pointer from callbacks_ without the mutex; the call comes after it.
look_up(fd) ==
    /\ ReadEvent(fd, "events") \/ WriteEvent(fd, "events")
    /\ callbacks_[fd] # NoConn
    /\ poll' = [poll EXCEPT !.at = "call", !.c = callbacks_[fd]]
    /\ UNCHANGED <<callbacks_, rfds_, wfds_, highfds_, pipe, pending_change_, changedone_c_>>
=============================================================================
