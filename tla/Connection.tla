----------------------------- MODULE Connection -----------------------------
(***************************************************************************)
(* The connections of an RPC server, and the threads that use them: the    *)
(* poll thread reads requests and goes on with interrupted writes, the     *)
(* accept thread makes connections and collects dead ones, the workers of  *)
(* the pool send replies, and the destructor of rpcs closes everything.    *)
(*                                                                         *)
(* Connections are numbered in the order they are accepted, which is also  *)
(* the order of their create_time_; a closed descriptor is used again.     *)
(* The mutexes of a connection are free between the actions.  A PDU that   *)
(* is read has two units, its size and the rest; a reply has Size units,   *)
(* of which a write takes any number.                                      *)
(*                                                                         *)
(* A VERIFY that fails ends the process: poll.at then names the function.  *)
(***************************************************************************)
EXTENDS PollMgr, ThrPool

LOCAL INSTANCE FiniteSetsExt

CONSTANTS Conn,         \* 1..n, the connections accepted in the life of the server
          Size,         \* units of a reply
          Bounds        \* on the connections, the requests, the workers busy at a time, and
                        \* what else may happen

ASSUME ConnAssumption ==
    /\ Conn \subseteq Nat /\ NoConn \notin Conn /\ Size \in Nat \ {0}
    /\ Bounds \subseteq Nat \X Nat \X Nat \X SUBSET {"in pieces", "in part", "destroy"}

Thread == Worker \cup {"dtor"}

VARIABLES
    conn,           \* the fields of each connection, and its socket
    asleep,         \* the threads asleep on send_wait_ or send_complete_ of their connection
    again,          \* errno of the poll thread is EAGAIN
    at,             \* where each thread is, with which connection; old: an old_srv reply
    conns_,         \* tcpsconn::conns_, by descriptor
    accepting,      \* the connection that process_accept has made and not stored yet
    latest,         \* rpcs::conns_ of the client
    closing         \* whether ~rpcs has begun

connVars == <<conn, asleep, again>>
srvVars == <<at, conns_, accepting, latest, closing>>
vars == <<pollVars, poolVars, connVars, srvVars>>

NoPdu == [buf |-> NoConn, sz |-> 0, solong |-> 0]

\* life is "none" before new and "freed" after delete; rpdu_ is the number of
\* units read of the next PDU; sock is "broken" once either side has shut it;
\* inq counts the units not read yet.  arrived and taken count the units that
\* came and the PDUs that went to the pool, and wire holds the threads whose
\* PDU is on the stream in part: these three are history.
NoConnection ==
    [life |-> "none", fd_ |-> Pipe, dead_ |-> FALSE, refno_ |-> 0, wpdu_ |-> NoPdu, rpdu_ |-> 0,
     sock |-> "open", inq |-> 0, arrived |-> 0, taken |-> 0, wire |-> {}]

Idle == [pc |-> "none", c |-> NoConn, old |-> FALSE]

Init ==
    /\ PollInit /\ PoolInit
    /\ conn = [c \in Conn |-> NoConnection]
    /\ asleep = {} /\ again = FALSE
    /\ at = [t \in Thread |-> Idle]
    /\ conns_ = [fd \in FD |-> NoConn] /\ accepting = NoConn
    /\ latest = NoConn /\ closing = FALSE

Goto(t, pc) == at' = [at EXCEPT ![t].pc = pc]

Is(t, pc, c) == at[t].pc = pc /\ at[t].c = c

Sleepers(pc, c) == {t \in Thread : Is(t, pc, c)}

Aborts(function) == poll' = At(function)

\* The bounds allow that many connections, requests and busy workers, that a
\* request comes in pieces, a reply is written in part, and ~rpcs.
Within ==
    LET conns == Cardinality({c \in Conn : conn[c].life # "none"})
        units == MapThenSumSet(LAMBDA c : conn[c].arrived, Conn)
        busy == Cardinality({w \in Worker : worker[w] = "run"})
    IN  {b \in Bounds :
            /\ conns <= b[1] /\ units <= 2 * b[2] /\ busy <= b[3]
            /\ "in pieces" \in b[4] \/ \A c \in Conn : conn[c].arrived % 2 = 0
            /\ "in part" \in b[4] \/ \A t \in Thread : at[t].pc # "completing"
            /\ "destroy" \in b[4] \/ ~closing} # {}

Running == poll.at \in {"top", "copy", "select", "events", "call"}

\* ~connection: the socket is closed with what is in it.
delete(r) ==
    [NoConnection EXCEPT !.life = "freed", !.dead_ = r.dead_, !.wpdu_ = r.wpdu_,
                         !.arrived = r.arrived, !.taken = r.taken]

decref(r) ==
    IF r.refno_ = 1 /\ r.dead_ THEN delete(r) ELSE [r EXCEPT !.refno_ = @ - 1]

incref(r) == [r EXCEPT !.refno_ = @ + 1]

-----------------------------------------------------------------------------
(***************************************************************************)
(* send, of a worker.                                                      *)
(***************************************************************************)

\* The end of send: the next sender is let in.
send_end(t, c) ==
    /\ conn' = [conn EXCEPT ![c].wpdu_ = NoPdu]
    /\ asleep' = asleep \ Sleepers("send_wait", c)
    /\ Goto(t, "sent")

\* send of a thread that finds another one writing, or the connection dead.
send_wait(t, c) ==
    /\ at[t].pc \in {"send", "send_wait"} /\ at[t].c = c /\ t \notin asleep
    /\ IF conn[c].dead_
       THEN Goto(t, "sent") /\ UNCHANGED asleep
       ELSE /\ conn[c].wpdu_.buf # NoConn
            /\ Goto(t, "send_wait") /\ asleep' = asleep \cup {t}
    /\ UNCHANGED <<pollVars, poolVars, conn, again, conns_, accepting, latest, closing>>

MayWrite(t, c) ==
    /\ at[t].pc \in {"send", "send_wait"} /\ at[t].c = c /\ t \notin asleep
    /\ ~conn[c].dead_ /\ conn[c].wpdu_.buf = NoConn

\* send whose first write takes everything.
send_whole(t, c) ==
    /\ MayWrite(t, c) /\ conn[c].sock = "open"
    /\ send_end(t, c)
    /\ UNCHANGED <<pollVars, poolVars, again, conns_, accepting, latest, closing>>

\* send whose first write takes n units, none when the socket is full: the rest
\* is left to write_cb.
send_part(t, c, n) ==
    /\ MayWrite(t, c) /\ conn[c].sock = "open"
    /\ conn' = [conn EXCEPT ![c].wpdu_ = [buf |-> t, sz |-> Size, solong |-> n],
                            ![c].wire = IF n = 0 THEN @ ELSE @ \cup {t}]
    /\ add_callback(conn[c].fd_, "CB_WRONLY", c)
    /\ Goto(t, "completing") /\ asleep' = asleep \cup {t}
    /\ UNCHANGED <<poll, poolVars, again, conns_, accepting, latest, closing>>
    /\ Within'

\* send whose first write fails: the peer has closed, or a lossy test shuts the
\* socket down first.
send_fail(t, c) ==
    /\ MayWrite(t, c)
    /\ conn' = [conn EXCEPT ![c].sock = "broken", ![c].dead_ = TRUE,
                            ![c].wpdu_ = [buf |-> t, sz |-> 0, solong |-> -1]]
    /\ Goto(t, "remove")
    /\ UNCHANGED <<pollVars, poolVars, asleep, again, conns_, accepting, latest, closing>>

\* send after the wait for send_complete_; a thread woken too early waits again.
send_completed(t, c) ==
    /\ Is(t, "completing", c) /\ t \notin asleep
    /\ conn[c].dead_ \/ conn[c].wpdu_.solong \notin 0..(conn[c].wpdu_.sz - 1)
    /\ send_end(t, c)
    /\ UNCHANGED <<pollVars, poolVars, again, conns_, accepting, latest, closing>>

\* The calls of block_remove_fd, from send after a failure and from closeconn.
remove(t, c) ==
    /\ Is(t, "remove", c)
    /\ block_remove_fd(t, conn[c].fd_)
    /\ Goto(t, "removing")
    /\ UNCHANGED <<poolVars, connVars, conns_, accepting, latest, closing>>

removed(t, c) ==
    /\ Is(t, "removing", c)
    /\ block_remove_fd_end(t, conn[c].fd_)
    /\ IF t = "dtor" THEN Goto(t, "decref") /\ UNCHANGED <<conn, asleep>> ELSE send_end(t, c)
    /\ UNCHANGED <<poolVars, again, conns_, accepting, latest, closing>>

-----------------------------------------------------------------------------
(***************************************************************************)
(* The callbacks of the poll thread.                                       *)
(***************************************************************************)

\* What readpdu can do: its result, what is then read, left and in errno.  The
\* end of the stream says nothing in errno, which keeps what an earlier call has
\* left there; a reset does, and the size may come in pieces or be too big.  What
\* comes after a failure is never read.  VERIFY(errno!=EAGAIN) is in AssertsHold.
Read(succ, rpdu, inq, e) == [succ |-> succ, rpdu_ |-> rpdu, inq |-> inq, again |-> e]

ReadRest(r, inq) ==
    {o \in {Read(FALSE, 0, 0, FALSE)} : r.sock = "broken"} \cup
    (IF inq > 0 THEN {Read(TRUE, 2, inq - 1, again)}
     ELSE IF r.sock = "open" THEN {Read(TRUE, 1, 0, e) : e \in {again, TRUE}}
     ELSE {IF again THEN Read(TRUE, 1, 0, TRUE) ELSE Read(FALSE, 0, 0, FALSE)})

readpdu(r) ==
    IF r.rpdu_ = 1 THEN ReadRest(r, r.inq)
    ELSE IF r.inq > 0 THEN ReadRest(r, r.inq - 1) \cup {Read(FALSE, 0, 0, again)}
    ELSE {Read(FALSE, 0, 0, e) : e \in {x \in {again, FALSE} : r.sock = "broken"}}

\* pthread_cond_signal(&send_complete_): at most one thread waits for it.
signal_complete(c) == asleep' = asleep \ Sleepers("completing", c)

\* Mutant of got_pdu: a PDU that the pool refuses is lost.
got_pdu_drop(c, r) ==
    \E succ \in BOOLEAN :
        /\ addJob(c, succ)
        /\ conn' = [conn EXCEPT ![c] = IF succ THEN [incref(r) EXCEPT !.rpdu_ = 0, !.taken = @ + 1]
                                               ELSE [r EXCEPT !.rpdu_ = 0]]

\* got_pdu of rpcs and what read_cb makes of its result.  A refused PDU stays.
got_pdu(c, r) ==
    \E succ \in BOOLEAN :
        /\ addJob(c, succ)
        /\ conn' = [conn EXCEPT ![c] = IF succ THEN [incref(r) EXCEPT !.rpdu_ = 0, !.taken = @ + 1]
                                               ELSE r]

NextRead(fd) == poll' = Round(poll.readable \ {fd}, poll.writable)
NextWrite(fd) == poll' = Round({}, poll.writable \ {fd})

\* A ready descriptor whose connection is gone, or dead when it is to be read.
callback_none(fd) ==
    /\ \/ ReadEvent(fd, "events") /\ callbacks_[fd] = NoConn /\ NextRead(fd)
       \/ ReadEvent(fd, "call") /\ conn[poll.c].dead_ /\ NextRead(fd)
       \/ WriteEvent(fd, "events") /\ callbacks_[fd] = NoConn /\ NextWrite(fd)
    /\ UNCHANGED <<callbacks_, rfds_, wfds_, highfds_, pipe, pending_change_, changedone_c_>>
    /\ UNCHANGED <<poolVars, connVars, srvVars>>

\* read_cb that does not fail: it reads on, unless a refused PDU is still there,
\* and offers a whole PDU to the pool.
read_cb(fd) ==
    /\ ReadEvent(fd, "call")
    /\ LET c == poll.c
           Offer(r) == IF r.rpdu_ = 2 THEN got_pdu(c, r)
                       ELSE conn' = [conn EXCEPT ![c] = r] /\ UNCHANGED poolVars
       IN  /\ ~conn[c].dead_
           /\ \/ conn[c].rpdu_ = 2 /\ Offer(conn[c]) /\ UNCHANGED again
              \/ \E o \in readpdu(conn[c]) :
                    /\ conn[c].rpdu_ < 2 /\ o.succ
                    /\ Offer([conn[c] EXCEPT !.rpdu_ = o.rpdu_, !.inq = o.inq])
                    /\ again' = o.again
    /\ NextRead(fd)
    /\ UNCHANGED <<callbacks_, rfds_, wfds_, highfds_, pipe, pending_change_, changedone_c_>>
    /\ UNCHANGED <<asleep, srvVars>>

\* read_cb that finds the end of the stream, or a size it cannot take.
read_cb_fail(fd) ==
    /\ ReadEvent(fd, "call")
    /\ LET c == poll.c
       IN  /\ ~conn[c].dead_ /\ conn[c].rpdu_ < 2
           /\ \E o \in readpdu(conn[c]) :
                /\ ~o.succ
                /\ conn' = [conn EXCEPT ![c].rpdu_ = o.rpdu_, ![c].inq = o.inq, ![c].dead_ = TRUE]
                /\ again' = o.again
           /\ signal_complete(c)
    /\ del_callback(fd, "CB_RDWR") /\ NextRead(fd)
    /\ UNCHANGED <<poolVars, srvVars>>

\* write_cb of a connection with nothing to write: it need not be called again.
write_cb_idle(fd) ==
    /\ WriteEvent(fd, "call")
    /\ LET r == conn[poll.c] IN ~r.dead_ /\ r.wpdu_.sz = 0
    /\ del_callback(fd, "CB_WRONLY") /\ NextWrite(fd)
    /\ UNCHANGED <<poolVars, connVars, srvVars>>

\* write_cb that writes n more units.
write_cb(fd, n) ==
    /\ WriteEvent(fd, "call")
    /\ LET c == poll.c
           w == conn[c].wpdu_
       IN  /\ ~conn[c].dead_ /\ w.sz # 0
           /\ IF w.solong = w.sz THEN n = 0 ELSE conn[c].sock = "open" /\ n \in 1..(w.sz - w.solong)
           /\ conn' = [conn EXCEPT ![c].wpdu_.solong = @ + n,
                                   ![c].wire = IF w.solong + n = w.sz THEN @ \ {w.buf}
                                               ELSE @ \cup {w.buf}]
           /\ IF w.solong + n = w.sz THEN signal_complete(c) ELSE UNCHANGED asleep
    /\ NextWrite(fd)
    /\ UNCHANGED <<callbacks_, rfds_, wfds_, highfds_, pipe, pending_change_, changedone_c_>>
    /\ UNCHANGED <<again, poolVars, srvVars>>

\* write_cb after a worker has filled the socket again.
write_cb_full(fd) ==
    /\ WriteEvent(fd, "call")
    /\ LET r == conn[poll.c]
       IN  ~r.dead_ /\ r.wpdu_.solong < r.wpdu_.sz /\ r.sock = "open"
    /\ again' = TRUE
    /\ NextWrite(fd)
    /\ UNCHANGED <<callbacks_, rfds_, wfds_, highfds_, pipe, pending_change_, changedone_c_>>
    /\ UNCHANGED <<conn, asleep, poolVars, srvVars>>

\* write_cb whose write fails.
write_cb_fail(fd) ==
    /\ WriteEvent(fd, "call")
    /\ LET c == poll.c
           w == conn[c].wpdu_
       IN  /\ ~conn[c].dead_ /\ w.sz # 0 /\ w.solong # w.sz /\ conn[c].sock = "broken"
           /\ conn' = [conn EXCEPT ![c].wpdu_.solong = -1, ![c].wpdu_.sz = 0, ![c].dead_ = TRUE]
           /\ signal_complete(c)
    /\ again' = FALSE
    /\ del_callback(fd, "CB_RDWR") /\ NextWrite(fd)
    /\ UNCHANGED <<poolVars, srvVars>>

\* write_cb of a connection that has died meanwhile: VERIFY(!dead_) fails.
write_cb_dead(fd) ==
    /\ WriteEvent(fd, "call")
    /\ conn[poll.c].dead_
    /\ Aborts("write_cb")
    /\ UNCHANGED <<callbacks_, rfds_, wfds_, highfds_, pipe, pending_change_, changedone_c_>>
    /\ UNCHANGED <<poolVars, connVars, srvVars>>

-----------------------------------------------------------------------------
(***************************************************************************)
(* The accept thread.                                                      *)
(***************************************************************************)

Open == {conn[c].fd_ : c \in {d \in Conn : conn[d].life = "up"}}

\* The constructor: the poll thread is asked for the requests.
connection(c, fd) ==
    /\ conn' = [conn EXCEPT ![c].life = "up", ![c].fd_ = fd, ![c].refno_ = 1]
    /\ add_callback(fd, "CB_RDONLY", c)

\* process_accept up to the new connection.  FD are the descriptors below
\* MAX_POLL_FDS: with another one VERIFY(fd < MAX_POLL_FDS) fails.
accept(c) ==
    /\ accepting = NoConn /\ ~closing
    /\ conn[c].life = "none" /\ \A d \in Conn : d < c => conn[d].life # "none"
    /\ IF FD \ Open = {}
       THEN Aborts("add_callback") /\ UNCHANGED <<conn, accepting>> /\
            UNCHANGED <<callbacks_, rfds_, wfds_, highfds_, pipe, pending_change_, changedone_c_>>
       ELSE LET fd == Lowest(FD \ Open)
            IN  /\ connection(c, fd)
                /\ accepting' = c
                /\ UNCHANGED poll
    /\ UNCHANGED <<poolVars, asleep, again, at, conns_, latest, closing>>
    /\ Within'

Garbage ==
    {fd \in FD : conns_[fd] # NoConn /\ conn[conns_[fd]].dead_ /\ conn[conns_[fd]].refno_ = 1}

\* The rest of process_accept: dead connections without another holder are
\* collected and the new one is stored.  The iterator is used after its element
\* is erased, so that what the loop visits after the first one is undefined.
process_accept(erased) ==
    /\ accepting # NoConn
    /\ erased \subseteq Garbage
    /\ Garbage # {} => Lowest(Garbage) \in erased
    /\ conn' = [c \in Conn |-> IF \E fd \in erased : conns_[fd] = c THEN decref(conn[c]) ELSE conn[c]]
    /\ conns_' = [fd \in FD |-> IF fd = conn[accepting].fd_ THEN accepting
                                ELSE IF fd \in erased THEN NoConn ELSE conns_[fd]]
    /\ accepting' = NoConn
    /\ UNCHANGED <<pollVars, poolVars, asleep, again, at, latest, closing>>

-----------------------------------------------------------------------------
(***************************************************************************)
(* The workers.                                                            *)
(***************************************************************************)

\* A worker takes a request; a pill ends it.
take(w) ==
    /\ takeJob(w)
    /\ at' = IF Head(q_) = Pill THEN at
             ELSE [at EXCEPT ![w] = [pc |-> "dispatch", c |-> Head(q_), old |-> FALSE]]
    /\ UNCHANGED <<pollVars, connVars, conns_, accepting, latest, closing>>
    /\ Within'

wait(w) == deq_wait(w) /\ UNCHANGED <<pollVars, connVars, srvVars>>

\* The latest good connection to the client, which the table holds.
latest_update(c) ==
    IF latest = NoConn THEN latest' = c /\ conn' = [conn EXCEPT ![c] = incref(@)]
    ELSE IF latest < c
    THEN latest' = c /\ conn' = [conn EXCEPT ![latest] = decref(@), ![c] = incref(@)]
    ELSE UNCHANGED <<latest, conn>>

\* dispatch of a request without a good header; of one for an old instance of
\* the server, which is answered at once; and of the others: NEW runs the
\* handler, DONE and FORGOTTEN are answered, INPROGRESS is not.
dispatch_bad(w, c) ==
    /\ Is(w, "dispatch", c)
    /\ Goto(w, "sent")
    /\ UNCHANGED <<pollVars, poolVars, connVars, conns_, accepting, latest, closing>>

dispatch_oldsrv(w, c) ==
    /\ Is(w, "dispatch", c)
    /\ at' = [at EXCEPT ![w].pc = "send", ![w].old = TRUE]
    /\ UNCHANGED <<pollVars, poolVars, connVars, conns_, accepting, latest, closing>>

dispatch(w, c) ==
    /\ Is(w, "dispatch", c)
    /\ latest_update(c)
    /\ \E next \in {"fn", "send", "sent"} : Goto(w, next)
    /\ UNCHANGED <<pollVars, poolVars, asleep, again, conns_, accepting, closing>>

\* The handler has returned: the reply goes to the latest connection when that
\* of the request is dead.
fn_returns(w, c) ==
    /\ Is(w, "fn", c)
    /\ IF conn[c].dead_ /\ c # latest
       THEN /\ conn' = [conn EXCEPT ![c] = decref(@), ![latest] = incref(@)]
            /\ at' = [at EXCEPT ![w].pc = "send", ![w].c = latest]
       ELSE Goto(w, "send") /\ UNCHANGED conn
    /\ UNCHANGED <<pollVars, poolVars, asleep, again, conns_, accepting, latest, closing>>

\* dispatch returns; after a reply for an old instance it keeps the reference.
dispatch_end(w, c) ==
    /\ Is(w, "sent", c)
    /\ conn' = IF at[w].old THEN conn ELSE [conn EXCEPT ![c] = decref(@)]
    /\ at' = [at EXCEPT ![w] = Idle]
    /\ job_done(w)
    /\ UNCHANGED <<pollVars, asleep, again, conns_, accepting, latest, closing>>

-----------------------------------------------------------------------------
(***************************************************************************)
(* ~rpcs: the listener with its connections, then the pool.                *)
(***************************************************************************)

Stored == {fd \in FD : conns_[fd] # NoConn}

\* The accept thread is joined.
rpcs_dtor ==
    /\ ~closing /\ accepting = NoConn
    /\ closing' = TRUE
    /\ at' = [at EXCEPT !["dtor"].pc = "close"]
    /\ UNCHANGED <<pollVars, poolVars, connVars, conns_, accepting, latest>>
    /\ Within'

\* closeconn of the next connection, up to block_remove_fd.
closeconn(c) ==
    /\ at["dtor"].pc = "close" /\ Stored # {} /\ c = conns_[Lowest(Stored)]
    /\ conn' = [conn EXCEPT ![c].dead_ = TRUE, ![c].sock = IF conn[c].dead_ THEN @ ELSE "broken"]
    /\ at' = [at EXCEPT !["dtor"].pc = IF conn[c].dead_ THEN "decref" ELSE "remove", !["dtor"].c = c]
    /\ UNCHANGED <<pollVars, poolVars, asleep, again, conns_, accepting, latest, closing>>

tcpsconn_decref(c) ==
    /\ Is("dtor", "decref", c)
    /\ conn' = [conn EXCEPT ![c] = decref(@)]
    /\ conns_' = [conns_ EXCEPT ![Lowest(Stored)] = NoConn]
    /\ at' = [at EXCEPT !["dtor"] = [Idle EXCEPT !.pc = "close"]]
    /\ UNCHANGED <<pollVars, poolVars, asleep, again, accepting, latest, closing>>

\* Mutant of delete_dispatchpool: the pool is deleted before the listener.
delete_dispatchpool_first ==
    /\ \/ /\ at["dtor"].pc = "close" /\ Stored # {}
          /\ ThrPool_dtor /\ UNCHANGED at
       \/ enq_pill /\ UNCHANGED at
    /\ UNCHANGED <<pollVars, connVars, conns_, accepting, latest, closing>>

delete_dispatchpool ==
    /\ \/ /\ at["dtor"].pc = "close" /\ Stored = {}
          /\ ThrPool_dtor /\ Goto("dtor", "join")
       \/ enq_pill /\ UNCHANGED at
    /\ UNCHANGED <<pollVars, connVars, conns_, accepting, latest, closing>>

-----------------------------------------------------------------------------
(***************************************************************************)
(* The peers, and the whole.                                               *)
(***************************************************************************)

\* The next n units of requests come in; the peer closes, or is gone.  A dead
\* connection is not read, and what its peer does makes no difference.
arrive(c, n) ==
    /\ conn[c].life = "up" /\ ~conn[c].dead_
    /\ conn[c].sock = "open"
    /\ conn' = [conn EXCEPT ![c].inq = @ + n, ![c].arrived = @ + n]
    /\ UNCHANGED <<pollVars, poolVars, asleep, again, srvVars>>
    /\ Within'

peer_close(c) ==
    /\ conn[c].life = "up" /\ ~conn[c].dead_ /\ conn[c].sock = "open"
    /\ conn' = [conn EXCEPT ![c].sock = "broken"]
    /\ UNCHANGED <<pollVars, poolVars, asleep, again, srvVars>>

\* The descriptors of which select says that they can be read or written.  An
\* open socket can be written when its peer has read enough.
Readable == {conn[c].fd_ : c \in {d \in Conn : /\ conn[d].life = "up"
                                               /\ conn[d].inq > 0 \/ conn[d].sock = "broken"}}
Broken == {conn[c].fd_ : c \in {d \in Conn : conn[d].life = "up" /\ conn[d].sock = "broken"}}

select_ready(W) ==
    /\ select(Readable, Broken \cup W)
    /\ UNCHANGED <<poolVars, connVars, srvVars>>

poll_round ==
    /\ wait_loop \/ wait_ready \/ \E fd \in FD : look_up(fd)
    /\ UNCHANGED <<poolVars, connVars, srvVars>>

\* A signal leaves another value in errno.
poll_eintr ==
    /\ select_eintr
    /\ again' = FALSE
    /\ UNCHANGED <<conn, asleep, poolVars, srvVars>>

Callback(fd) ==
    \/ callback_none(fd) \/ read_cb(fd) \/ read_cb_fail(fd)
    \/ write_cb_idle(fd) \/ write_cb_fail(fd) \/ write_cb_full(fd) \/ write_cb_dead(fd)
    \/ \E n \in 0..Size : write_cb(fd, n)

PollThread ==
    \/ poll_round \/ poll_eintr
    \/ \E W \in SUBSET wfds_ : select_ready(W)
    \/ \E fd \in FD : Callback(fd)

AcceptThread ==
    \/ \E c \in Conn : accept(c)
    \/ \E erased \in SUBSET FD : process_accept(erased)

Sender(t) ==
    \E c \in Conn :
        \/ send_wait(t, c) \/ send_whole(t, c) \/ send_fail(t, c) \/ send_completed(t, c)
        \/ remove(t, c) \/ removed(t, c)
        \/ \E n \in 0..(Size - 1) : send_part(t, c, n)

WorkerThread(w) ==
    \/ take(w) \/ wait(w) \/ Sender(w)
    \/ \E c \in Conn : \/ dispatch_bad(w, c) \/ dispatch_oldsrv(w, c) \/ dispatch(w, c)
                       \/ fn_returns(w, c) \/ dispatch_end(w, c)

Dtor ==
    \/ rpcs_dtor \/ delete_dispatchpool
    \/ \E c \in Conn : closeconn(c) \/ remove("dtor", c) \/ removed("dtor", c) \/ tcpsconn_decref(c)

Next ==
    /\ Running
    /\ \/ PollThread \/ AcceptThread \/ Dtor
       \/ \E w \in Worker : WorkerThread(w)
       \/ \E c \in Conn : peer_close(c) \/ \E n \in 1..2 : arrive(c, n)

Spec == Init /\ [][Next]_vars

-----------------------------------------------------------------------------
(***************************************************************************)
(* Properties.                                                             *)
(***************************************************************************)

\* The connections that some thread, table or queue of the server points to.
Held ==
    {callbacks_[fd] : fd \in FD} \cup {conns_[fd] : fd \in FD} \cup {accepting, latest}
    \cup {poll.c} \cup {at[t].c : t \in Thread} \cup {q_[i] : i \in DOMAIN q_}

\* No thread, table or queue points to a connection that was deleted, nor does the
\* poll thread, which calls back without the mutex; and select waits for no
\* descriptor that was closed: "after block_remove_fd, select will never wait on
\* fd_ and no callbacks will be active".
NoUseAfterFree ==
    /\ \A c \in Held \cap Conn : conn[c].life = "up"
    /\ rfds_ \cup wfds_ \subseteq Open

\* The assertions of the code, but for the limit on descriptors: a slot of
\* callbacks_ is empty or belongs to the connection that add_callback gives; a
\* deleted connection is dead and its last write is over; no count is negative;
\* readpdu finds what select has promised.  That of write_cb on dead_ can fail, as
\* long as the thread that set dead_ has not returned from block_remove_fd.
AssertsHold ==
    /\ \A c \in Conn, fd \in FD :
        ReadEvent(fd, "call") /\ poll.c = c /\ ~conn[c].dead_ /\ conn[c].rpdu_ = 0 =>
            conn[c].inq > 0 \/ conn[c].sock = "broken"
    /\ poll.at = "write_cb" => \E t \in Thread : at[t].pc \in {"remove", "removing"}
    /\ \A fd \in FD \ Open : callbacks_[fd] = NoConn
    /\ \A c \in Conn :
        /\ conn[c].life = "up" => callbacks_[conn[c].fd_] \in {NoConn, c}
        /\ conn[c].life = "freed" => conn[c].dead_ /\ conn[c].wpdu_ = NoPdu
        /\ conn[c].refno_ >= 0

\* A reply is on the stream as a whole before another thread writes, and no
\* request is lost or taken twice on a connection that is not dead, even when
\* the pool refuses it.
WholePdus ==
    \A c \in Conn : conn[c].life = "up" /\ ~conn[c].dead_ =>
        /\ conn[c].wire \subseteq {conn[c].wpdu_.buf}
        /\ conn[c].arrived = 2 * conn[c].taken + conn[c].rpdu_ + conn[c].inq

\* "must delete listener before dispatchpool": no request is queued once the
\* pool has begun to stop, where it would wait behind the pills for ever.
NoJobAfterPill ==
    [][pills >= 0 => \A c \in Conn : conn'[c].taken = conn[c].taken]_vars

\* select waits for the descriptor, or will be interrupted and look again.
Selected(fd, set) == poll.at = "select" => pipe > 0 \/ fd \in set

\* Nobody sleeps for ever.  A thread that waits for the rest of its reply is the
\* one that write_cb will find, and tell, and that for the next turn waits for a
\* thread that has one; who waits in block_remove_fd is told when the poll thread
\* comes round, which it will.  The requests of a connection that is not dead are
\* asked for, a refused one included.  Not so during ~rpcs: closeconn tells none of
\* the threads that wait in send.
SleepersWoken ==
    Running =>
    /\ \A t \in asleep :
        LET c == at[t].c  r == conn[c] IN
        closing \/
        IF at[t].pc = "completing"
        THEN /\ ~r.dead_ /\ r.wpdu_.buf = t /\ r.wpdu_.solong < r.wpdu_.sz
             /\ r.fd_ \in wfds_ /\ callbacks_[r.fd_] = c /\ Selected(r.fd_, poll.writable)
        ELSE \E s \in Thread : /\ r.wpdu_.buf = s /\ at[s].c = c
                               /\ at[s].pc \in {"completing", "remove", "removing"}
    /\ \A t \in changedone_c_ : pending_change_ /\ Selected(Pipe, {})
    /\ \A c \in Conn :
        LET r == conn[c] IN
        r.life = "up" /\ ~r.dead_ =>
            r.fd_ \in rfds_ /\ callbacks_[r.fd_] = c /\ Selected(r.fd_, poll.readable)
=============================================================================
