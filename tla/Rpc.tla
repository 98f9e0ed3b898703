-------------------------------- MODULE Rpc --------------------------------
(***************************************************************************)
(* The RPC library: one client endpoint (rpcc), shared by several threads, *)
(* and the server endpoint (rpcs) it calls, which may crash and restart.   *)
(* The server keeps a reply window per client nonce, so that one client    *)
(* stands for each of them.                                                *)
(*                                                                         *)
(* Connections are numbered in the order they are made.  Each end learns   *)
(* for itself that a connection is dead; what is in flight then may or may *)
(* not arrive.  Requests of one connection are dispatched in any order: a  *)
(* pool of threads takes them from the queue.                              *)
(***************************************************************************)
EXTENDS Integers

CONSTANTS Bounds,      \* on the calls, connections and server instances: a run keeps to one
          Lossy        \* RPC_LOSSY is set

ASSUME BoundsAssumption ==
    /\ Bounds \subseteq Nat \X Nat \X (Nat \ {0})
    /\ \A i \in 1..3 : \E b \in Bounds : \A d \in Bounds : d[i] <= b[i]
    /\ Lossy \in BOOLEAN

Most(i) == CHOOSE n \in {b[i] : b \in Bounds} : \A b \in Bounds : b[i] <= n
Xid == 1..Most(1)
Conn == 1..Most(2)
Nonce == 1..Most(3)

\* Results of a call: those of rpc_const, or the server instance that served it.
timeout_failure == -1
atmostonce_failure == -4
oldsrv_failure == -5
cancel_failure == -7
Result == {timeout_failure, atmostonce_failure, oldsrv_failure, cancel_failure} \cup Nonce
NoResult == 0

VARIABLES
    bind_done_, srv_nonce_, xid_, destroy_wait_, dup_req_, xid_rep_done_,
    reported,       \* the xids given to update_xid_rep: xid_rep_window_ (see XidRep)
    stage,          \* where call1 is with each xid; calls_ are those at "transmit" or "wait"
    done, intret,   \* of each xid's caller
    header,         \* of each xid's request: srv_nonce and xid_rep
    ch,             \* the connection each call was sent on last
    cancelling,     \* whether cancel() is waiting
    nconn, chan_,   \* the number of connections made, and the current one
    cdead, sdead,   \* connections the client, the server know to be dead
    requests, replies,    \* in flight
    nonce_, reply_window_, conns_,
    jobs,           \* handlers that run: their xid and connection
    executed        \* how often the handler was run for each xid (history)

clientVars == <<bind_done_, srv_nonce_, xid_, destroy_wait_, dup_req_, xid_rep_done_, reported,
                stage, done, intret, header, ch, cancelling, nconn, chan_, cdead>>
serverVars == <<sdead, nonce_, reply_window_, conns_, jobs, executed>>
vars == <<clientVars, serverVars, requests, replies>>

Stage == {"none", "transmit", "wait", "ended"}
Header == [srv : {0} \cup Nonce, rep : Nat]
Entry == [cb_present : BOOLEAN, buf : BOOLEAN]
NoEntry == [cb_present |-> FALSE, buf |-> FALSE]
Reply == [xid : Xid, conn : Conn, ret : Result]

\* The variables have their types.
TypeOK ==
    /\ bind_done_ \in BOOLEAN /\ srv_nonce_ \in {0} \cup Nonce
    /\ xid_ \in Nat \ {0} /\ destroy_wait_ \in BOOLEAN
    /\ dup_req_ \in {0} \cup Xid /\ xid_rep_done_ \in Int
    /\ reported \in SUBSET Xid /\ stage \in [Xid -> Stage]
    /\ done \in [Xid -> BOOLEAN] /\ intret \in [Xid -> Result \cup {NoResult}]
    /\ header \in [Xid -> Header] /\ ch \in [Xid -> {0} \cup Conn]
    /\ cancelling \in BOOLEAN
    /\ nconn \in {0} \cup Conn /\ chan_ \in {0} \cup Conn
    /\ cdead \in SUBSET Conn /\ sdead \in SUBSET Conn
    /\ requests \in SUBSET (Xid \X Conn) /\ replies \in SUBSET Reply
    /\ nonce_ \in Nonce /\ reply_window_ \in [Xid -> Entry]
    /\ conns_ \in {0} \cup Conn /\ jobs \in SUBSET (Xid \X Conn)
    /\ executed \in [Xid -> Nat]

Init ==
    /\ bind_done_ = FALSE /\ srv_nonce_ = 0 /\ xid_ = 1 /\ destroy_wait_ = FALSE
    /\ dup_req_ = 0 /\ xid_rep_done_ = -1
    /\ reported = {} /\ stage = [x \in Xid |-> "none"]
    /\ done = [x \in Xid |-> FALSE] /\ intret = [x \in Xid |-> NoResult]
    /\ header = [x \in Xid |-> [srv |-> 0, rep |-> 0]] /\ ch = [x \in Xid |-> 0]
    /\ cancelling = FALSE /\ nconn = 0 /\ chan_ = 0
    /\ cdead = {} /\ sdead = {} /\ requests = {} /\ replies = {}
    /\ nonce_ = 1 /\ reply_window_ = [x \in Xid |-> NoEntry] /\ conns_ = 0
    /\ jobs = {} /\ executed = [x \in Xid |-> 0]

-----------------------------------------------------------------------------
(***************************************************************************)
(* rpcc.                                                                   *)
(***************************************************************************)

\* The bounds allow that many calls, connections and server instances.
Within(calls, conns, instances) ==
    {b \in Bounds : calls <= b[1] /\ conns <= b[2] /\ instances <= b[3]} # {}

calls_ == {x \in Xid : stage[x] \in {"transmit", "wait"}}

\* Mutants of Front: one too many; the latest xid reported.
Front_next(S) == CHOOSE k \in {1} \cup {x + 1 : x \in S} : k \notin S /\ 1..(k - 1) \subseteq S
Front_latest(S) == CHOOSE k \in S \cup {0} : \A j \in S : j <= k

\* xid_rep_window_.front(): the xids up to it have all been reported.
Front(S) == CHOOSE k \in {0} \cup S : 1..k \subseteq S /\ k + 1 \notin S

\* The first section of call1: bind() until bind_done_, any procedure after it.
\* The users of rpcc bind from one thread.
call1(x) ==
    /\ x = xid_ /\ Within(xid_, nconn, nonce_) /\ ~destroy_wait_
    /\ bind_done_ \/ calls_ = {}
    /\ xid_' = xid_ + 1
    /\ stage' = [stage EXCEPT ![x] = "transmit"]
    /\ header' = [header EXCEPT ![x] = [srv |-> srv_nonce_, rep |-> Front(reported)]]
    /\ UNCHANGED <<bind_done_, srv_nonce_, destroy_wait_, dup_req_, xid_rep_done_, reported,
                   done, intret, ch, cancelling, nconn, chan_, cdead>>
    /\ UNCHANGED <<serverVars, requests, replies>>

\* get_refconn: the current connection, or if that is dead a new one, or none
\* if connect fails.
Refconn(k, n) ==
    IF chan_ # 0 /\ chan_ \notin cdead THEN k = chan_ /\ n = nconn
    ELSE \/ k = nconn + 1 /\ n = nconn + 1 /\ Within(xid_ - 1, nconn + 1, nonce_)
         \/ k = 0 /\ n = nconn

\* The request is sent, and before it, in lossy tests, again an old one that the
\* server knows to be acknowledged.
transmit(x) ==
    LET again == {y \in {dup_req_} : y # 0 /\ xid_rep_done_ > y}
    IN  /\ stage[x] = "transmit"
        /\ Refconn(chan_', nconn')
        /\ stage' = [stage EXCEPT ![x] = "wait"]
        /\ ch' = [ch EXCEPT ![x] = IF chan_' = 0 THEN @ ELSE chan_']
        /\ requests' = IF chan_' = 0 THEN requests
                       ELSE requests \cup (({x} \cup again) \X {chan_'})
        /\ dup_req_' = IF ch'[x] # 0 /\ again # {} THEN 0 ELSE dup_req_
        /\ UNCHANGED <<bind_done_, srv_nonce_, xid_, destroy_wait_, xid_rep_done_, reported,
                       done, intret, header, cancelling, cdead>>
        /\ UNCHANGED <<serverVars, replies>>

\* A deadline of the waiting loop passes: only a dead connection makes it send
\* the request again.
retransmit(x) ==
    /\ stage[x] = "wait" /\ ~done[x]
    /\ ch[x] = 0 \/ ch[x] \in cdead
    /\ stage' = [stage EXCEPT ![x] = "transmit"]
    /\ UNCHANGED <<bind_done_, srv_nonce_, xid_, destroy_wait_, dup_req_, xid_rep_done_, reported,
                   done, intret, header, ch, cancelling, nconn, chan_, cdead>>
    /\ UNCHANGED <<serverVars, requests, replies>>

\* The end of bind(): the nonce that the server replied is the one to call from now on.
bind(x, ret) ==
    LET bound == header[x].srv = 0 /\ ret > 0 IN
    /\ bind_done_' = (bind_done_ \/ bound)
    /\ srv_nonce_' = IF bound THEN ret ELSE srv_nonce_

\* The end of call1, with the reply or after the final deadline, and of bind().
call1_end(x) ==
    LET ret == IF done[x] THEN intret[x] ELSE timeout_failure
    IN  /\ stage[x] = "wait"
        /\ stage' = [stage EXCEPT ![x] = "ended"]
        /\ intret' = [intret EXCEPT ![x] = ret]
        /\ reported' = reported \cup {x}
        /\ dup_req_' = IF done[x] /\ Lossy /\ dup_req_ = 0 THEN x ELSE dup_req_
        /\ xid_rep_done_' = IF done[x] /\ Lossy /\ header[x].rep > xid_rep_done_
                            THEN header[x].rep ELSE xid_rep_done_
        /\ bind(x, ret)
        /\ UNCHANGED <<xid_, destroy_wait_, done, header, ch, cancelling, nconn, chan_, cdead>>
        /\ UNCHANGED <<serverVars, requests, replies>>

\* Mutant of rpcc_got_pdu: the reply goes to the caller that waits longest.
rpcc_got_pdu_oldest(m) ==
    /\ m \in replies /\ m.conn \notin cdead /\ calls_ # {}
    /\ LET x == CHOOSE y \in calls_ : \A z \in calls_ : y <= z IN
       /\ reported' = reported \cup {x}
       /\ done' = [done EXCEPT ![x] = TRUE]
       /\ intret' = [intret EXCEPT ![x] = IF done[x] THEN @ ELSE m.ret]
    /\ replies' = replies \ {m}
    /\ UNCHANGED <<bind_done_, srv_nonce_, xid_, destroy_wait_, dup_req_, xid_rep_done_,
                   stage, header, ch, cancelling, nconn, chan_, cdead>>
    /\ UNCHANGED <<serverVars, requests>>

\* rpcc::got_pdu.
rpcc_got_pdu(m) ==
    LET taken == m.xid \in calls_ /\ ~done[m.xid]
    IN  /\ m \in replies /\ m.conn \notin cdead
        /\ replies' = replies \ {m}
        /\ reported' = reported \cup {m.xid}
        /\ done' = [done EXCEPT ![m.xid] = @ \/ taken]
        /\ intret' = [intret EXCEPT ![m.xid] = IF taken THEN m.ret ELSE @]
        /\ UNCHANGED <<bind_done_, srv_nonce_, xid_, destroy_wait_, dup_req_, xid_rep_done_,
                       stage, header, ch, cancelling, nconn, chan_, cdead>>
        /\ UNCHANGED <<serverVars, requests>>

\* Mutant of cancel: the callers are not told.
cancel_untold ==
    /\ ~cancelling
    /\ destroy_wait_' = (destroy_wait_ \/ calls_ # {})
    /\ cancelling' = (calls_ # {})
    /\ UNCHANGED <<bind_done_, srv_nonce_, xid_, dup_req_, xid_rep_done_, reported, done, intret,
                   stage, header, ch, nconn, chan_, cdead>>
    /\ UNCHANGED <<serverVars, requests, replies>>

\* cancel(): every caller fails, even one whose reply is there already, and no
\* call is let in until the last has left; then it returns.
cancel ==
    /\ ~cancelling
    /\ done' = [x \in Xid |-> done[x] \/ x \in calls_]
    /\ intret' = [x \in Xid |-> IF x \in calls_ THEN cancel_failure ELSE intret[x]]
    /\ destroy_wait_' = (destroy_wait_ \/ calls_ # {})
    /\ cancelling' = (calls_ # {})
    /\ UNCHANGED <<bind_done_, srv_nonce_, xid_, dup_req_, xid_rep_done_, reported,
                   stage, header, ch, nconn, chan_, cdead>>
    /\ UNCHANGED <<serverVars, requests, replies>>

cancel_return ==
    /\ cancelling /\ calls_ = {}
    /\ cancelling' = FALSE
    /\ UNCHANGED <<bind_done_, srv_nonce_, xid_, destroy_wait_, dup_req_, xid_rep_done_, reported,
                   stage, done, intret, header, ch, nconn, chan_, cdead>>
    /\ UNCHANGED <<serverVars, requests, replies>>

-----------------------------------------------------------------------------
(***************************************************************************)
(* rpcs.  reply_window_ is a list without duplicates, sorted by xid; here  *)
(* a function of the xid.  An entry has cb_present from the start until    *)
(* add_reply clears it and stores buf.                                     *)
(***************************************************************************)

Listed(w) == {x \in Xid : w[x] # NoEntry}

\* The loop that frees acknowledged replies goes on from the front only while an
\* entry has both cb_present and buf.
Trim(w, xid_rep) ==
    [x \in Xid |-> IF \A y \in Listed(w) : y <= x => y <= xid_rep /\ w[y].cb_present /\ w[y].buf
                   THEN NoEntry ELSE w[x]]

\* Mutants of RpcState: a running call is not recognised; the front of the
\* window counts as forgotten.
RpcState_running(w, x) ==
    IF Listed(w) # {} /\ \A y \in Listed(w) : y > x THEN "FORGOTTEN"
    ELSE IF w[x].buf THEN "DONE" ELSE "NEW"

RpcState_front(w, x) ==
    IF Listed(w) # {} /\ \A y \in Listed(w) : y >= x THEN "FORGOTTEN"
    ELSE IF w[x] = NoEntry THEN "NEW"
    ELSE IF w[x].cb_present THEN "INPROGRESS" ELSE "DONE"

\* What checkduplicate_and_update answers, after trimming.
RpcState(w, x) ==
    IF Listed(w) # {} /\ \A y \in Listed(w) : y > x THEN "FORGOTTEN"
    ELSE IF w[x] = NoEntry THEN "NEW"
    ELSE IF w[x].cb_present THEN "INPROGRESS" ELSE "DONE"

Sent(x, k, ret) ==
    IF k \in sdead THEN replies ELSE replies \cup {[xid |-> x, conn |-> k, ret |-> ret]}

\* rpcs::got_pdu and dispatch, up to the handler.
dispatch_oldsrv(x, k) ==
    /\ header[x].srv \notin {0, nonce_}
    /\ replies' = Sent(x, k, oldsrv_failure)
    /\ UNCHANGED <<nonce_, reply_window_, conns_, jobs, executed>>

\* Mutant of dispatch_known: a request for an old instance is served as well.
dispatch_known_anysrv(x, k) ==
    /\ RpcState(reply_window_, x) = "NEW"
    /\ reply_window_' = [reply_window_ EXCEPT ![x].cb_present = TRUE]
    /\ jobs' = jobs \cup {<<x, k>>}
    /\ executed' = [executed EXCEPT ![x] = @ + 1]
    /\ conns_' = k
    /\ UNCHANGED <<nonce_, replies>>

dispatch_known(x, k) ==
    LET w == Trim(reply_window_, header[x].rep)
        st == RpcState(w, x)
    IN  /\ header[x].srv \in {0, nonce_}
        /\ conns_' = IF conns_ < k THEN k ELSE conns_
        /\ reply_window_' = IF st = "NEW" THEN [w EXCEPT ![x].cb_present = TRUE] ELSE w
        /\ jobs' = IF st = "NEW" THEN jobs \cup {<<x, k>>} ELSE jobs
        /\ executed' = IF st = "NEW" THEN [executed EXCEPT ![x] = @ + 1] ELSE executed
        /\ replies' = CASE st = "DONE" -> Sent(x, k, nonce_)
                        [] st = "FORGOTTEN" -> Sent(x, k, atmostonce_failure)
                        [] OTHER -> replies
        /\ UNCHANGED nonce_

dispatch(x, k) ==
    /\ <<x, k>> \in requests
    /\ requests' = requests \ {<<x, k>>}
    /\ dispatch_oldsrv(x, k) \/ dispatch_known(x, k)
    /\ UNCHANGED <<clientVars, sdead>>

\* The reply is kept, if the call is still in the window.
add_reply(w, x) ==
    [w EXCEPT ![x] = IF @ = NoEntry THEN @ ELSE [cb_present |-> FALSE, buf |-> TRUE]]

\* Mutant of dispatch_reply: the reply is kept but not sent.
dispatch_reply_unsent(x, k) ==
    /\ <<x, k>> \in jobs
    /\ jobs' = jobs \ {<<x, k>>}
    /\ reply_window_' = [reply_window_ EXCEPT ![x] = [cb_present |-> FALSE, buf |-> TRUE]]
    /\ UNCHANGED <<clientVars, requests, replies, sdead, nonce_, conns_, executed>>

\* The handler has returned: add_reply, and the reply is sent on the connection
\* of the request or, if that is dead, on the latest one.
dispatch_reply(x, k) ==
    /\ <<x, k>> \in jobs
    /\ jobs' = jobs \ {<<x, k>>}
    /\ reply_window_' = add_reply(reply_window_, x)
    /\ replies' = Sent(x, IF k \in sdead THEN conns_ ELSE k, nonce_)
    /\ UNCHANGED <<clientVars, requests, sdead, nonce_, conns_, executed>>

\* The server process ends and a new one starts on its port.
restart ==
    /\ Within(xid_ - 1, nconn, nonce_ + 1)
    /\ nonce_' = nonce_ + 1
    /\ reply_window_' = [x \in Xid |-> NoEntry]
    /\ conns_' = 0 /\ jobs' = {} /\ requests' = {}
    /\ sdead' = 1..nconn
    /\ UNCHANGED <<clientVars, executed, replies>>

-----------------------------------------------------------------------------
(***************************************************************************)
(* Connections fail: each end finds out in its own time.                   *)
(***************************************************************************)

client_closed(k) ==
    /\ k <= nconn /\ k \notin cdead
    /\ cdead' = cdead \cup {k}
    /\ UNCHANGED <<bind_done_, srv_nonce_, xid_, destroy_wait_, dup_req_, xid_rep_done_, reported,
                   stage, done, intret, header, ch, cancelling, nconn, chan_>>
    /\ UNCHANGED <<serverVars, requests, replies>>

server_closed(k) ==
    /\ k <= nconn /\ k \notin sdead
    /\ sdead' = sdead \cup {k}
    /\ UNCHANGED <<clientVars, nonce_, reply_window_, conns_, jobs, executed, requests, replies>>

ClientNext ==
    \/ \E x \in Xid : call1(x) \/ transmit(x) \/ retransmit(x) \/ call1_end(x)
    \/ \E m \in replies : rpcc_got_pdu(m)
    \/ cancel \/ cancel_return

ServerNext == restart \/ \E x \in Xid, k \in Conn : dispatch(x, k) \/ dispatch_reply(x, k)

NetNext == \E k \in Conn : client_closed(k) \/ server_closed(k)

Next == ClientNext \/ ServerNext \/ NetNext

Spec == Init /\ [][Next]_vars

\* Requests and replies on a connection that is up arrive, handlers return,
\* callers whose reply is there and cancel() run on.  No deadline has to pass.
Fairness ==
    /\ \A x \in Xid : WF_vars(transmit(x)) /\ WF_vars(done[x] /\ call1_end(x))
    /\ WF_vars(cancel_return)
    /\ WF_vars(\E x \in Xid, k \in Conn \ sdead : dispatch(x, k))
    /\ WF_vars(\E x \in Xid, k \in Conn : dispatch_reply(x, k))
    /\ WF_vars(\E m \in replies : rpcc_got_pdu(m))

FairSpec == Spec /\ Fairness

-----------------------------------------------------------------------------
(***************************************************************************)
(* What the library promises.                                              *)
(***************************************************************************)

\* However often a request is sent again, on whatever connections, and whether
\* the server crashed in between: the handler of a call is run at most once.
\* (bind is for any instance of the server, so each may run it once.)
AtMostOnceExecution ==
    \A x \in Xid : executed[x] <= IF header[x].srv = 0 THEN nonce_ ELSE 1

\* A call returns success only if the instance the client is bound to ran it.
SuccessMeansExecuted ==
    \A x \in Xid : stage[x] = "ended" /\ intret[x] > 0 =>
        executed[x] > 0 /\ header[x].srv \in {0, intret[x]}

\* The assertion xid > xid_rep of checkduplicate_and_update holds for every
\* request that can still arrive, the old one sent again in lossy tests included.
AssertXid == \A m \in requests : m[1] > header[m[1]].rep

\* A client never acknowledges a call that still waits for its reply: the
\* server may free the replies up to the xid_rep of any request it receives.
NeverAckedEarly ==
    \A x, y \in Xid : stage[y] # "none" /\ x <= header[y].rep => stage[x] = "ended" \/ done[x]

\* No caller is told that the server forgot its call.
NeverForgotten == \A x \in Xid : intret[x] # atmostonce_failure

\* The library as its callers see it.  A bind that two instances of the server
\* ran counts as run.
Outcome(x) == CASE stage[x] = "none" -> "none"
                [] stage[x] \in {"transmit", "wait"} -> "called"
                [] stage[x] = "ended" -> IF intret[x] > 0 THEN "ok" ELSE "failed"
Executions(x) == IF header[x].srv = 0 /\ executed[x] > 0 THEN 1 ELSE executed[x]
AMO == INSTANCE AtMostOnce WITH Call <- Xid,
                                status <- [x \in Xid |-> Outcome(x)],
                                executed <- [x \in Xid |-> Executions(x)]
ImplementsAtMostOnce == AMO!Spec

\* The window holds only "replies per client that that client hasn't acknowledged
\* receiving yet" (rpc.h): once a request that acknowledges the reply to x has
\* been taken, x is no longer listed.
AckedForgotten ==
    \A x, y \in Xid : y \in Listed(reply_window_) /\ x <= header[y].rep /\ intret[x] = nonce_ =>
        x \notin Listed(reply_window_)

\* As long as no connection fails and the server is up, every call is answered:
\* neither the window nor the choice of the connection swallows the reply.
AnsweredWhileUp ==
    \A x \in Xid : stage[x] = "wait" /\ ch[x] # 0 ~>
        done[x] \/ stage[x] = "ended" \/ cdead \cup sdead # {}

\* cancel() returns: the callers it waits for do not wait for the server.
CancelReturns == cancelling ~> ~cancelling
=============================================================================
