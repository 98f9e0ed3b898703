----------------------------- MODULE Rpc_proofs -----------------------------
(***************************************************************************)
(* Proofs about the RPC library, for any number of calls, connections and  *)
(* instances of the server.  Each instance runs a call at most once since  *)
(* its window keeps what it has run, and a call that is not a bind is for  *)
(* one instance only.  That no caller is told that its call was forgotten  *)
(* rests on the bind, which is alone until it returns, and has the lowest  *)
(* xid in the window of the instance that served it.                       *)
(***************************************************************************)
EXTENDS Rpc, WellFoundedInduction, TLAPS

Started(x) == stage[x] # "none"

Acked(x) == stage[x] = "ended" \/ done[x]

\* Calls are numbered in the order they start; only calls that have started are
\* reported, and only ones that need no reply are acknowledged.
ClientInv ==
    /\ \A x \in Xid : Started(x) <=> x < xid_
    /\ \A x \in Xid : done[x] => Started(x)
    /\ \A x \in reported : Started(x) /\ Acked(x)
    /\ \A x \in Xid : Started(x) =>
        /\ header[x].rep < x
        /\ \A z \in Xid : z <= header[x].rep => Acked(z)
    /\ dup_req_ # 0 => Started(dup_req_)

\* Until bind has returned there is one call, the latest; then there is no call
\* without the nonce of the server.
BindInv ==
    /\ bind_done_ <=> srv_nonce_ # 0
    /\ srv_nonce_ <= nonce_
    /\ \A x \in calls_ : ~bind_done_ => x = xid_ - 1
    /\ \A x \in calls_ : header[x].srv = 0 => ~bind_done_
    /\ \A x \in Xid : Started(x) => header[x].srv <= nonce_

\* The result ret for x comes from an instance that ran x.
Genuine(x, ret) ==
    ret > 0 => /\ executed[x] > 0 /\ header[x].srv \in {0, ret} /\ ret <= nonce_
               /\ ret = nonce_ => x \in Listed(reply_window_)

\* What is on its way, and what the callers have got.
MessageInv ==
    /\ \A r \in requests : Started(r[1])
    /\ \A m \in replies : /\ Started(m.xid) /\ Genuine(m.xid, m.ret)
                          /\ m.ret = atmostonce_failure => m.xid \notin calls_
    /\ \A x \in Xid : /\ intret[x] # NoResult => Started(x)
                      /\ Genuine(x, intret[x]) /\ intret[x] # atmostonce_failure

\* The window has the calls that this instance has run, and never a reply that the
\* loop of checkduplicate_and_update would free; add_reply finds the entry of
\* every handler that returns.
WindowInv ==
    /\ \A x \in Xid : ~(reply_window_[x].cb_present /\ reply_window_[x].buf)
    /\ \A x \in Listed(reply_window_) : Started(x) /\ executed[x] > 0
    /\ \A j \in jobs : /\ reply_window_[j[1]].cb_present /\ header[j[1]].srv \in {0, nonce_}
                       /\ j[2] <= conns_
    /\ \A i, j \in jobs : i[1] = j[1] => i = j

\* How often a call was run, given the instances that have been.
CountInv ==
    \A x \in Xid :
        /\ executed[x] > 0 => Started(x)
        /\ header[x].srv = 0 /\ x \in Listed(reply_window_) => executed[x] <= nonce_
        /\ header[x].srv = 0 /\ x \notin Listed(reply_window_) => executed[x] < nonce_
        /\ header[x].srv # 0 => executed[x] <= 1
        /\ header[x].srv = nonce_ /\ x \notin Listed(reply_window_) => executed[x] = 0

\* The bind that gave a call its server is in the window of that instance.
BoundInv ==
    /\ srv_nonce_ = nonce_ => \E b \in Listed(reply_window_) : b < xid_
    /\ \A x \in Xid : Started(x) /\ header[x].srv = nonce_ =>
        \E b \in Listed(reply_window_) : b < x

Inv == TypeOK /\ ClientInv /\ BindInv /\ MessageInv /\ WindowInv /\ CountInv /\ BoundInv

-----------------------------------------------------------------------------
(***************************************************************************)
(* Facts about the constants and the operators of the model.               *)
(***************************************************************************)

\* The bounds have maxima, and what is within them is below these.
LEMMA MostType ==
    /\ Most(1) \in Nat /\ Most(2) \in Nat /\ Most(3) \in Nat \ {0}
    /\ \A calls, conns, instances \in Nat : Within(calls, conns, instances) =>
            calls <= Most(1) /\ conns <= Most(2) /\ instances <= Most(3)
<1>1. ASSUME NEW i \in 1..3
      PROVE  /\ \E b \in Bounds : Most(i) = b[i]
             /\ \A d \in Bounds : d[i] <= Most(i)
  <2>1. PICK b \in Bounds : \A d \in Bounds : d[i] <= b[i]
    BY BoundsAssumption
  <2>2. \E n \in {d[i] : d \in Bounds} : \A d \in Bounds : d[i] <= n
    BY <2>1
  <2>3. QED
    BY <2>2 DEF Most
<1>2. \A b \in Bounds : b[1] \in Nat /\ b[2] \in Nat /\ b[3] \in Nat \ {0}
  BY BoundsAssumption
<1>3. Most(1) \in Nat /\ Most(2) \in Nat /\ Most(3) \in Nat \ {0}
  BY <1>1, <1>2
<1>4. ASSUME NEW calls \in Nat, NEW conns \in Nat, NEW instances \in Nat,
             Within(calls, conns, instances)
      PROVE  calls <= Most(1) /\ conns <= Most(2) /\ instances <= Most(3)
  <2>1. PICK b \in Bounds : calls <= b[1] /\ conns <= b[2] /\ instances <= b[3]
    BY <1>4 DEF Within
  <2>2. b[1] <= Most(1) /\ b[2] <= Most(2) /\ b[3] <= Most(3)
    BY <1>1
  <2>3. QED
    BY <1>2, <1>3, <2>1, <2>2
<1>5. QED
  BY <1>3, <1>4

\* The numbers of calls, connections and instances start from one.
LEMMA Ranges ==
    /\ Xid \subseteq Nat \ {0} /\ Conn \subseteq Nat \ {0} /\ Nonce \subseteq Nat \ {0}
    /\ 1 \in Nonce
BY MostType DEF Xid, Conn, Nonce

\* The front of the window of xids: all up to it are reported, the next is not.
LEMMA FrontType ==
    ASSUME NEW S \in SUBSET Xid
    PROVE  /\ Front(S) \in {0} \cup S /\ Front(S) \in Nat
           /\ \A z \in Xid : z <= Front(S) => z \in S
<1> DEFINE T == {j \in Nat : j # 0 /\ j \notin S}
<1>1. Most(1) + 1 \in T
  BY MostType DEF Xid
<1>2. PICK m \in T : \A d \in T : ~(<<d, m>> \in OpToRel(<, Nat))
  BY <1>1, NatLessThanWellFounded, WFMin
<1>3. m \in Nat \ {0} /\ m \notin S /\ \A d \in 1..(m - 1) : d \in S
  <2>1. \A d \in T : ~(d < m)
    BY <1>2, Zenon DEF OpToRel
  <2>2. QED
    BY <2>1
<1>4. m - 1 \in {0} \cup S /\ 1..(m - 1) \subseteq S /\ (m - 1) + 1 \notin S
  BY <1>3
<1>5. Front(S) \in {0} \cup S /\ 1..Front(S) \subseteq S
  BY <1>4, Zenon DEF Front
<1>6. Front(S) \in Nat
  <2>1. \A x \in S : x \in Nat
    BY Ranges
  <2>2. QED
    BY <1>5, <2>1
<1>7. ASSUME NEW z \in Xid, z <= Front(S) PROVE z \in S
  <2>1. z \in 1..Front(S)
    BY <1>6, <1>7, Ranges
  <2>2. QED
    BY <1>5, <2>1
<1>8. QED
  BY <1>5, <1>6, <1>7

\* The loop that frees replies frees none.
LEMMA TrimNothing ==
    ASSUME NEW w \in [Xid -> Entry], NEW rep, \A x \in Xid : ~(w[x].cb_present /\ w[x].buf)
    PROVE  Trim(w, rep) = w
<1>1. ASSUME NEW x \in Xid
      PROVE  (IF \A y \in Listed(w) : y <= x => y <= rep /\ w[y].cb_present /\ w[y].buf
              THEN NoEntry ELSE w[x]) = w[x]
  <2>1. CASE x \in Listed(w)
    <3>1. x <= x
      BY Ranges
    <3>2. QED
      BY <2>1, <3>1
  <2>2. CASE x \notin Listed(w)
    BY <2>2 DEF Listed
  <2>3. QED
    BY <2>1, <2>2
<1>2. QED
  BY <1>1 DEF Trim

-----------------------------------------------------------------------------
(***************************************************************************)
(* The invariant holds at first.                                           *)
(***************************************************************************)

\* Nothing is bound, called or run at first.
LEMMA InitInv == Init => Inv
<1> SUFFICES ASSUME Init PROVE Inv
  OBVIOUS
<1>1. TypeOK
  <2>1. /\ [srv |-> 0, rep |-> 0] \in Header /\ NoEntry \in Entry /\ "none" \in Stage
        /\ NoResult \in Result \cup {NoResult}
    BY DEF Header, Entry, NoEntry, Stage
  <2>2. /\ stage \in [Xid -> Stage] /\ done \in [Xid -> BOOLEAN] /\ header \in [Xid -> Header]
        /\ intret \in [Xid -> Result \cup {NoResult}] /\ ch \in [Xid -> {0} \cup Conn]
        /\ reply_window_ \in [Xid -> Entry] /\ executed \in [Xid -> Nat]
    BY <2>1 DEF Init
  <2>3. /\ xid_ \in Nat \ {0} /\ xid_rep_done_ \in Int /\ nonce_ \in Nonce
        /\ bind_done_ \in BOOLEAN /\ destroy_wait_ \in BOOLEAN /\ cancelling \in BOOLEAN
    <3>1. xid_ \in Nat \ {0} /\ xid_rep_done_ \in Int
      BY DEF Init
    <3>2. nonce_ \in Nonce
      BY Ranges DEF Init
    <3>3. QED
      BY <3>1, <3>2, Zenon DEF Init
  <2>4. /\ srv_nonce_ \in {0} \cup Nonce /\ dup_req_ \in {0} \cup Xid /\ conns_ \in {0} \cup Conn
        /\ nconn \in {0} \cup Conn /\ chan_ \in {0} \cup Conn
    BY DEF Init
  <2>5. /\ reported \in SUBSET Xid /\ cdead \in SUBSET Conn /\ sdead \in SUBSET Conn
        /\ requests \in SUBSET (Xid \X Conn) /\ replies \in SUBSET Reply
        /\ jobs \in SUBSET (Xid \X Conn)
    BY DEF Init
  <2>6. QED
    BY <2>2, <2>3, <2>4, <2>5 DEF TypeOK
<1>2. Listed(reply_window_) = {} /\ calls_ = {}
  BY DEF Init, Listed, calls_
<1>3. ClientInv /\ BindInv
  BY <1>2, Ranges DEF Init, ClientInv, BindInv, Started
<1>4. MessageInv
  BY DEF Init, MessageInv, Genuine, NoResult, atmostonce_failure
<1>5. WindowInv
  BY <1>2, Zenon DEF Init, WindowInv, NoEntry
<1>6. CountInv /\ BoundInv
  BY <1>2 DEF Init, CountInv, BoundInv, Started
<1>7. QED
  BY <1>1, <1>3, <1>4, <1>5, <1>6 DEF Inv

-----------------------------------------------------------------------------
(***************************************************************************)
(* Every action preserves it.  Each conjunct depends on a part of the      *)
(* state only.                                                             *)
(***************************************************************************)

\* A step of the library preserves what it says nothing about.
LEMMA Frame ==
    ASSUME Inv
    PROVE  /\ UNCHANGED <<xid_, stage, done, reported, header, dup_req_>> => ClientInv'
           /\ UNCHANGED <<bind_done_, srv_nonce_, nonce_, xid_, stage, header>> => BindInv'
           /\ UNCHANGED <<requests, replies, stage, intret, executed, header, nonce_,
                          reply_window_>> => MessageInv'
           /\ UNCHANGED <<reply_window_, stage, executed, jobs, header, nonce_, conns_>>
                => WindowInv'
           /\ UNCHANGED <<stage, executed, header, nonce_, reply_window_>> => CountInv'
           /\ UNCHANGED <<srv_nonce_, nonce_, reply_window_, xid_, stage, header>> => BoundInv'
<1>1. ASSUME UNCHANGED <<xid_, stage, done, reported, header, dup_req_>> PROVE ClientInv'
  BY <1>1 DEF Inv, ClientInv, Started, Acked
<1>2. ASSUME UNCHANGED <<bind_done_, srv_nonce_, nonce_, xid_, stage, header>> PROVE BindInv'
  BY <1>2 DEF Inv, BindInv, Started, calls_
<1>3. ASSUME UNCHANGED <<requests, replies, stage, intret, executed, header, nonce_,
                         reply_window_>>
      PROVE  MessageInv'
  BY <1>3 DEF Inv, MessageInv, Started, Genuine, calls_
<1>4. ASSUME UNCHANGED <<reply_window_, stage, executed, jobs, header, nonce_, conns_>>
      PROVE  WindowInv'
  BY <1>4 DEF Inv, WindowInv, Started
<1>5. ASSUME UNCHANGED <<stage, executed, header, nonce_, reply_window_>> PROVE CountInv'
  BY <1>5 DEF Inv, CountInv, Started
<1>6. ASSUME UNCHANGED <<srv_nonce_, nonce_, reply_window_, xid_, stage, header>> PROVE BoundInv'
  BY <1>6 DEF Inv, BoundInv, Started
<1>7. QED
  BY <1>1, <1>2, <1>3, <1>4, <1>5, <1>6

\* A step that changes none of the variables.
LEMMA StutterInv == ASSUME Inv, UNCHANGED vars PROVE Inv'
<1>1. TypeOK'
  BY DEF Inv, TypeOK, vars, clientVars, serverVars
<1>2. QED
  BY <1>1, Frame DEF Inv, vars, clientVars, serverVars

\* The end of cancel() touches no call.
LEMMA CancelReturnInv == ASSUME Inv, cancel_return PROVE Inv'
<1>1. TypeOK'
  BY Zenon DEF Inv, TypeOK, cancel_return, serverVars
<1>2. QED
  BY <1>1, Frame DEF Inv, cancel_return, serverVars

\* An end of a connection finds that it is dead: no call and no message changes.
LEMMA ClosedInv ==
    ASSUME Inv, NEW k \in Conn, client_closed(k) \/ server_closed(k) PROVE Inv'
<1>1. TypeOK'
  BY DEF Inv, TypeOK, client_closed, server_closed, clientVars, serverVars
<1>2. QED
  BY <1>1, Frame DEF Inv, client_closed, server_closed, clientVars, serverVars

\* A call that sends, or waits for a deadline, stays a call.
LEMMA StageFrame ==
    ASSUME Inv, NEW x \in Xid, stage[x] \in {"transmit", "wait"},
           NEW s \in {"transmit", "wait"}, stage' = [stage EXCEPT ![x] = s]
    PROVE  /\ stage' \in [Xid -> Stage] /\ calls_' = calls_
           /\ \A z \in Xid : /\ stage'[z] = "none" <=> stage[z] = "none"
                             /\ stage'[z] = "ended" <=> stage[z] = "ended"
<1>1. stage \in [Xid -> Stage]
  BY DEF Inv, TypeOK
<1>2. stage' \in [Xid -> Stage]
  BY <1>1 DEF Stage
<1>3. \A z \in Xid : stage'[z] = IF z = x THEN s ELSE stage[z]
  BY <1>1
<1>4. \A z \in Xid : stage'[z] \in {"transmit", "wait"} <=> stage[z] \in {"transmit", "wait"}
  BY <1>3
<1>5. QED
  BY <1>2, <1>3, <1>4 DEF calls_

\* What the invariant says of the calls, with requests and the connections aside.
LEMMA SendFrame ==
    ASSUME Inv, NEW x \in Xid, stage[x] \in {"transmit", "wait"},
           NEW s \in {"transmit", "wait"}, stage' = [stage EXCEPT ![x] = s],
           \A r \in requests' : r \in Xid \X Conn /\ (r \in requests \/ Started(r[1])),
           dup_req_' \in {0, dup_req_},
           UNCHANGED <<bind_done_, srv_nonce_, xid_, xid_rep_done_, reported,
                       done, intret, header, nonce_, reply_window_, conns_, jobs, executed, replies>>
    PROVE  ClientInv' /\ BindInv' /\ MessageInv' /\ WindowInv' /\ CountInv' /\ BoundInv'
<1>1. /\ calls_' = calls_
      /\ \A z \in Xid : /\ stage'[z] = "none" <=> stage[z] = "none"
                        /\ stage'[z] = "ended" <=> stage[z] = "ended"
  BY StageFrame, Zenon
<1>2. ClientInv'
  BY <1>1 DEF Inv, TypeOK, ClientInv, Started, Acked
<1>3. BindInv'
  BY <1>1 DEF Inv, BindInv, Started
<1>4. MessageInv'
  <2>1. \A r \in requests' : Started(r[1])'
    BY <1>1 DEF Inv, MessageInv, Started
  <2>2. \A m \in replies : m.xid \in Xid
    BY DEF Inv, TypeOK, Reply
  <2>3. QED
    BY <1>1, <2>1, <2>2 DEF Inv, MessageInv, Started, Genuine
<1>5. WindowInv'
  BY <1>1 DEF Inv, WindowInv, Started, Listed
<1>6. CountInv' /\ BoundInv'
  BY <1>1 DEF Inv, CountInv, BoundInv, Started
<1>7. QED
  BY <1>2, <1>3, <1>4, <1>5, <1>6

\* A deadline makes a caller send its request again.
LEMMA RetransmitInv == ASSUME Inv, NEW x \in Xid, retransmit(x) PROVE Inv'
<1>1. stage' \in [Xid -> Stage]
  BY StageFrame, Zenon DEF retransmit
<1>2. TypeOK'
  BY <1>1 DEF Inv, TypeOK, retransmit, serverVars
<1>3. \A r \in requests' : r \in Xid \X Conn /\ r \in requests
  BY DEF Inv, TypeOK, retransmit
<1>4. QED
  BY <1>2, <1>3, SendFrame, Zenon DEF Inv, retransmit, serverVars

\* A request is sent, and an old one with it: both are of calls that have started.
LEMMA TransmitInv == ASSUME Inv, NEW x \in Xid, transmit(x) PROVE Inv'
<1> DEFINE again == {y \in {dup_req_} : y # 0 /\ xid_rep_done_ > y}
<1>1. chan_' \in {0} \cup Conn /\ nconn' \in {0} \cup Conn
  <2>1. Refconn(chan_', nconn') /\ nconn \in {0} \cup Conn /\ chan_ \in {0} \cup Conn
        /\ nonce_ \in Nat /\ xid_ - 1 \in Nat /\ nconn + 1 \in Nat
    BY Ranges DEF transmit, Inv, TypeOK
  <2>2. Within(xid_ - 1, nconn + 1, nonce_) => nconn + 1 \in Conn
    BY <2>1, MostType DEF Conn
  <2>3. QED
    BY <2>1, <2>2 DEF Refconn
<1>2. stage' \in [Xid -> Stage]
  BY StageFrame, Zenon DEF transmit
<1>3. ASSUME NEW r \in requests'
      PROVE  r \in Xid \X Conn /\ (r \in requests \/ Started(r[1]))
  <2>1. CASE r \in requests
    BY <2>1 DEF Inv, TypeOK
  <2>2. CASE r \notin requests
    <3>1. chan_' \in Conn /\ r \in ({x} \cup again) \X {chan_'}
      BY <1>1, <1>3, <2>2 DEF transmit
    <3>2. \A y \in again : y \in Xid /\ Started(y)
      BY DEF Inv, TypeOK, ClientInv
    <3>3. Started(x)
      BY DEF transmit, Started
    <3>4. QED
      BY <3>1, <3>2, <3>3
  <2>3. QED
    BY <2>1, <2>2
<1>4. dup_req_' \in {0, dup_req_} /\ ch' \in [Xid -> {0} \cup Conn]
  BY <1>1 DEF transmit, Inv, TypeOK
<1>5. TypeOK'
  BY <1>1, <1>2, <1>3, <1>4 DEF Inv, TypeOK, transmit, serverVars
<1>6. QED
  BY <1>3, <1>4, <1>5, SendFrame, Zenon DEF Inv, transmit, serverVars

\* cancel() fails the calls, none of which it tells that it was forgotten.
LEMMA CancelInv == ASSUME Inv, cancel PROVE Inv'
<1>1. /\ cancel_failure \in Result /\ cancel_failure # NoResult
      /\ cancel_failure # atmostonce_failure /\ ~(cancel_failure > 0)
  BY DEF cancel_failure, atmostonce_failure, NoResult, Result
<1>2. \A x \in calls_ : x \in Xid /\ Started(x) /\ stage[x] # "ended"
  BY DEF calls_, Started
<1>3. /\ \A x \in Xid : done'[x] <=> done[x] \/ x \in calls_
      /\ done' \in [Xid -> BOOLEAN]
  BY Zenon DEF cancel, Inv, TypeOK
<1>4. /\ \A x \in Xid : intret'[x] = IF x \in calls_ THEN cancel_failure ELSE intret[x]
      /\ intret' \in [Xid -> Result \cup {NoResult}]
  BY <1>1 DEF cancel, Inv, TypeOK
<1>5. destroy_wait_' \in BOOLEAN /\ cancelling' \in BOOLEAN
  BY DEF cancel, Inv, TypeOK
<1>6. TypeOK'
  BY <1>3, <1>4, <1>5 DEF cancel, Inv, TypeOK, serverVars
<1>7. ClientInv'
  BY <1>2, <1>3 DEF cancel, Inv, TypeOK, ClientInv, Started, Acked, serverVars
<1>8. MessageInv'
  <2>1. calls_' = calls_
    BY DEF cancel, calls_
  <2>2. \A m \in replies' : /\ Started(m.xid)' /\ Genuine(m.xid, m.ret)'
                            /\ m.ret = atmostonce_failure => m.xid \notin calls_'
    BY <2>1 DEF cancel, Inv, MessageInv, Genuine, Started, serverVars
  <2>3. \A r \in requests' : Started(r[1])'
    BY DEF cancel, Inv, MessageInv, Started
  <2>4. ASSUME NEW x \in Xid
        PROVE  /\ intret'[x] # NoResult => Started(x)'
               /\ Genuine(x, intret[x])' /\ intret'[x] # atmostonce_failure
    <3>1. CASE x \in calls_
      BY <1>1, <1>2, <1>4, <3>1 DEF cancel, Genuine, Started
    <3>2. CASE x \notin calls_
      BY <1>4, <3>2 DEF cancel, Inv, MessageInv, Genuine, Started, serverVars
    <3>3. QED
      BY <3>1, <3>2
  <2>5. QED
    BY <2>2, <2>3, <2>4 DEF MessageInv
<1>9. QED
  BY <1>6, <1>7, <1>8, Frame DEF cancel, Inv, serverVars

\* A reply is given to its caller, if that waits for one.  It never tells a caller
\* that its call was forgotten.
LEMMA GotPduInv == ASSUME Inv, NEW m \in replies, rpcc_got_pdu(m) PROVE Inv'
<1> DEFINE taken == m.xid \in calls_ /\ ~done[m.xid]
<1>1. m.xid \in Xid /\ m.conn \in Conn /\ m.ret \in Result
  BY DEF Inv, TypeOK, Reply
<1>2. Started(m.xid) /\ Genuine(m.xid, m.ret)
      /\ (m.ret = atmostonce_failure => m.xid \notin calls_)
  BY DEF Inv, MessageInv
<1>3. /\ done' \in [Xid -> BOOLEAN]
      /\ \A x \in Xid : done'[x] <=> done[x] \/ (x = m.xid /\ taken)
  BY <1>1, Zenon DEF rpcc_got_pdu, Inv, TypeOK
<1>4. /\ intret' \in [Xid -> Result \cup {NoResult}]
      /\ \A x \in Xid : intret'[x] = IF x = m.xid /\ taken THEN m.ret ELSE intret[x]
  BY <1>1 DEF rpcc_got_pdu, Inv, TypeOK
<1>5. TypeOK'
  <2>1. reported' \in SUBSET Xid /\ replies' \in SUBSET Reply
    BY <1>1 DEF rpcc_got_pdu, Inv, TypeOK
  <2>2. QED
    BY <1>3, <1>4, <2>1 DEF rpcc_got_pdu, Inv, TypeOK, serverVars
<1>6. ClientInv'
  <2>1. stage[m.xid] = "ended" \/ done'[m.xid]
    BY <1>1, <1>2, <1>3 DEF calls_, Started, Inv, TypeOK, Stage
  <2>2. \A x \in reported' : x \in Xid /\ Started(x)' /\ Acked(x)'
    BY <1>1, <1>2, <1>3, <2>1 DEF rpcc_got_pdu, Inv, TypeOK, ClientInv, Started, Acked
  <2>3. QED
    BY <1>1, <1>2, <1>3, <2>2 DEF rpcc_got_pdu, Inv, TypeOK, ClientInv, Started, Acked
<1>7. MessageInv'
  <2>1. calls_' = calls_
    BY DEF rpcc_got_pdu, calls_
  <2>2. \A n \in replies' : /\ Started(n.xid)' /\ Genuine(n.xid, n.ret)'
                            /\ n.ret = atmostonce_failure => n.xid \notin calls_'
    BY <2>1 DEF rpcc_got_pdu, Inv, MessageInv, Genuine, Started, serverVars
  <2>3. \A r \in requests' : Started(r[1])'
    BY DEF rpcc_got_pdu, Inv, MessageInv, Started
  <2>4. ASSUME NEW x \in Xid
        PROVE  /\ intret'[x] # NoResult => Started(x)'
               /\ Genuine(x, intret[x])' /\ intret'[x] # atmostonce_failure
    <3>1. CASE x = m.xid /\ taken
      BY <1>1, <1>2, <1>4, <3>1 DEF rpcc_got_pdu, Genuine, Started, serverVars
    <3>2. CASE ~(x = m.xid /\ taken)
      BY <1>4, <3>2 DEF rpcc_got_pdu, Inv, MessageInv, Genuine, Started, serverVars
    <3>3. QED
      BY <3>1, <3>2
  <2>5. QED
    BY <2>2, <2>3, <2>4 DEF MessageInv
<1>8. QED
  BY <1>5, <1>6, <1>7, Frame DEF rpcc_got_pdu, Inv, serverVars

\* Nothing is known anywhere of a call that has not started.
LEMMA Fresh ==
    ASSUME Inv, NEW x \in Xid, ~Started(x)
    PROVE  /\ x \notin Listed(reply_window_) /\ executed[x] = 0 /\ ~done[x]
           /\ intret[x] = NoResult /\ x \notin reported
           /\ \A r \in requests : r[1] # x
           /\ \A m \in replies : m.xid # x
           /\ \A j \in jobs : j[1] # x
<1>1. x \notin Listed(reply_window_) /\ executed[x] = 0 /\ ~done[x]
  BY DEF Inv, TypeOK, WindowInv, CountInv, ClientInv
<1>2. \A j \in jobs : j[1] # x
  <2>1. ~reply_window_[x].cb_present
    BY <1>1 DEF Listed, NoEntry
  <2>2. QED
    BY <2>1 DEF Inv, WindowInv
<1>3. QED
  BY <1>1, <1>2 DEF Inv, ClientInv, MessageInv

\* A call starts: it has the nonce of the bind, if that has returned, and
\* acknowledges earlier calls only.
LEMMA Call1Inv == ASSUME Inv, NEW x \in Xid, call1(x) PROVE Inv'
<1>1. /\ x = xid_ /\ xid_' = xid_ + 1 /\ xid_ \in Nat \ {0} /\ x \in Nat
      /\ ~Started(x) /\ (bind_done_ \/ calls_ = {})
  BY Ranges DEF call1, Inv, TypeOK, ClientInv
<1>2. /\ stage' \in [Xid -> Stage]
      /\ \A z \in Xid : stage'[z] = IF z = x THEN "transmit" ELSE stage[z]
  BY DEF call1, Inv, TypeOK, Stage
<1>3. /\ Front(reported) \in Nat /\ Front(reported) < x
      /\ \A z \in Xid : z <= Front(reported) => z \in reported
  <2>1. reported \in SUBSET Xid /\ \A z \in reported : z \in Nat /\ z < x
    BY <1>1, Ranges DEF Inv, TypeOK, ClientInv
  <2>2. QED
    BY <1>1, <2>1, FrontType, Ranges
<1>4. /\ header' \in [Xid -> Header]
      /\ \A z \in Xid : z # x => header'[z] = header[z]
      /\ header'[x].srv = srv_nonce_ /\ header'[x].rep = Front(reported)
  <2>1. [srv |-> srv_nonce_, rep |-> Front(reported)] \in Header
    BY <1>3 DEF Inv, TypeOK, Header
  <2>2. header' = [header EXCEPT ![x] = [srv |-> srv_nonce_, rep |-> Front(reported)]]
    BY DEF call1
  <2>3. QED
    BY <2>1, <2>2 DEF Inv, TypeOK
<1>5. TypeOK'
  BY <1>1, <1>2, <1>4 DEF call1, Inv, TypeOK, serverVars
<1>6. /\ \A z \in Xid : z # x => (Started(z)' <=> Started(z)) /\ (Acked(z)' <=> Acked(z))
      /\ Started(x)'
  BY <1>2 DEF call1, Started, Acked
<1>7. calls_' = calls_ \cup {x}
  BY <1>2 DEF calls_
<1>8. ClientInv'
  <2>1. \A z \in Xid : Started(z)' <=> z < xid_'
    BY <1>1, <1>6, Ranges DEF Inv, ClientInv
  <2>2. \A z \in Xid : done'[z] => Started(z)'
    BY <1>6 DEF call1, Inv, ClientInv
  <2>3. \A z \in reported' : Started(z)' /\ Acked(z)'
    BY <1>1, <1>6, Fresh DEF call1, Inv, TypeOK, ClientInv
  <2>4. ASSUME NEW y \in Xid, Started(y)'
        PROVE  /\ header'[y].rep < y
               /\ \A z \in Xid : z <= header'[y].rep => Acked(z)'
    <3>1. CASE y = x
      BY <1>1, <1>3, <1>4, <1>6, <3>1, Fresh, Zenon DEF Inv, ClientInv
    <3>2. CASE y # x
      <4>1. Started(y) /\ y < x /\ header'[y] = header[y] /\ header[y].rep \in Nat
        BY <1>1, <1>4, <1>6, <2>4, <3>2 DEF Inv, ClientInv, TypeOK, Header
      <4>2. \A z \in Xid : z <= header[y].rep => z # x
        <5>1. header[y].rep < y /\ y \in Nat
          BY <4>1, Ranges, Zenon DEF Inv, ClientInv
        <5>2. QED
          BY <1>1, <4>1, <5>1
      <4>3. QED
        BY <1>6, <4>1, <4>2 DEF Inv, ClientInv
    <3>3. QED
      BY <3>1, <3>2
  <2>5. dup_req_' # 0 => Started(dup_req_)'
    BY <1>2 DEF call1, Inv, TypeOK, ClientInv, Started
  <2>6. QED
    BY <2>1, <2>2, <2>3, <2>4, <2>5 DEF ClientInv
<1>9. BindInv'
  <2>1. /\ bind_done_ <=> srv_nonce_ # 0
        /\ srv_nonce_ <= nonce_
    BY DEF Inv, BindInv
  <2>2. UNCHANGED <<bind_done_, srv_nonce_, nonce_>>
    BY DEF call1, serverVars
  <2>3. \A z \in calls_' : ~bind_done_' => z = xid_' - 1
    BY <1>1, <1>7, <2>2
  <2>4. x \notin calls_ /\ \A z \in calls_ : z \in Xid
    BY <1>1 DEF calls_, Started
  <2>5. \A z \in calls_' : header'[z].srv = 0 => ~bind_done_'
    BY <1>4, <1>7, <2>1, <2>2, <2>4 DEF Inv, BindInv
  <2>6. \A z \in Xid : Started(z)' => header'[z].srv <= nonce_'
    BY <1>4, <1>6, <2>1, <2>2 DEF Inv, BindInv
  <2>7. QED
    BY <2>1, <2>2, <2>3, <2>5, <2>6 DEF BindInv
<1>10. UNCHANGED <<requests, replies, intret, nonce_, reply_window_, executed, jobs, conns_,
                   srv_nonce_>>
  BY DEF call1, serverVars
<1>11. MessageInv'
  <2>1. \A r \in requests : r[1] \in Xid /\ r[1] # x /\ Started(r[1])
    BY <1>1, Fresh DEF Inv, TypeOK, MessageInv
  <2>2. \A m \in replies : /\ m.xid \in Xid /\ m.xid # x /\ Started(m.xid)
                           /\ Genuine(m.xid, m.ret)
                           /\ m.ret = atmostonce_failure => m.xid \notin calls_
    BY <1>1, Fresh DEF Inv, TypeOK, MessageInv, Reply
  <2>3. \A z \in Xid, ret \in Result : z # x => (Genuine(z, ret)' <=> Genuine(z, ret))
    BY <1>4, <1>10 DEF Genuine
  <2>4. \A m \in replies' : /\ Started(m.xid)' /\ Genuine(m.xid, m.ret)'
                            /\ m.ret = atmostonce_failure => m.xid \notin calls_'
    BY <1>6, <1>7, <1>10, <2>2, <2>3 DEF Inv, TypeOK, Reply
  <2>5. ASSUME NEW z \in Xid
        PROVE  /\ intret'[z] # NoResult => Started(z)'
               /\ Genuine(z, intret[z])' /\ intret'[z] # atmostonce_failure
    <3>1. CASE z = x
      BY <1>1, <1>6, <1>10, <3>1, Fresh DEF Genuine, NoResult, atmostonce_failure
    <3>2. CASE z # x
      BY <1>4, <1>6, <1>10, <3>2 DEF Inv, MessageInv, Genuine
    <3>3. QED
      BY <3>1, <3>2
  <2>6. \A r \in requests' : Started(r[1])'
    BY <1>6, <1>10, <2>1
  <2>7. QED
    BY <2>4, <2>5, <2>6 DEF MessageInv
<1>12. WindowInv'
  <2>1. \A j \in jobs : j[1] \in Xid /\ j[1] # x
    BY <1>1, Fresh DEF Inv, TypeOK
  <2>2. \A z \in Listed(reply_window_) : z \in Xid /\ z # x
    BY <1>1, Fresh DEF Listed
  <2>3. QED
    BY <1>4, <1>6, <1>10, <2>1, <2>2 DEF Inv, WindowInv
<1>13. CountInv'
  <2>1. nonce_ \in Nat \ {0}
    BY Ranges DEF Inv, TypeOK
  <2>2. ASSUME NEW z \in Xid
        PROVE  /\ executed'[z] > 0 => Started(z)'
               /\ header'[z].srv = 0 /\ z \in Listed(reply_window_') => executed'[z] <= nonce_'
               /\ header'[z].srv = 0 /\ z \notin Listed(reply_window_') => executed'[z] < nonce_'
               /\ header'[z].srv # 0 => executed'[z] <= 1
               /\ header'[z].srv = nonce_' /\ z \notin Listed(reply_window_') => executed'[z] = 0
    <3>1. CASE z = x
      BY <1>1, <1>6, <1>10, <2>1, <3>1, Fresh
    <3>2. CASE z # x
      BY <1>4, <1>6, <1>10, <3>2 DEF Inv, CountInv
    <3>3. QED
      BY <3>1, <3>2
  <2>3. QED
    BY <2>2 DEF CountInv
<1>14. BoundInv'
  <2>1. \A b \in Listed(reply_window_) : b \in Nat
    BY Ranges DEF Listed
  <2>2. srv_nonce_' = nonce_' => \E b \in Listed(reply_window_') : b < xid_'
    BY <1>1, <1>10, <2>1 DEF Inv, BoundInv
  <2>3. \A z \in Xid : Started(z)' /\ header'[z].srv = nonce_' =>
            \E b \in Listed(reply_window_') : b < z
    BY <1>1, <1>4, <1>6, <1>10 DEF Inv, BoundInv
  <2>4. QED
    BY <2>2, <2>3 DEF BoundInv
<1>15. QED
  BY <1>5, <1>8, <1>9, <1>11, <1>12, <1>13, <1>14 DEF Inv

\* A call ends; if it is the bind, it is the only one, and the instance that
\* answered has it in its window.
LEMMA Call1EndInv == ASSUME Inv, NEW x \in Xid, call1_end(x) PROVE Inv'
<1> DEFINE ret == IF done[x] THEN intret[x] ELSE timeout_failure
           bound == header[x].srv = 0 /\ ret > 0
<1>1. UNCHANGED <<xid_, destroy_wait_, done, header, ch, cancelling, nconn, chan_, cdead, sdead,
                  nonce_, reply_window_, conns_, jobs, executed, requests, replies>>
  BY DEF call1_end, serverVars
<1>2. stage[x] = "wait" /\ Started(x) /\ x \in calls_
  BY DEF call1_end, Started, calls_
<1>3. /\ stage' \in [Xid -> Stage]
      /\ \A z \in Xid : stage'[z] = IF z = x THEN "ended" ELSE stage[z]
  BY DEF call1_end, Inv, TypeOK, Stage
<1>4. /\ timeout_failure \in Result /\ timeout_failure # atmostonce_failure
      /\ ~(timeout_failure > 0)
  BY DEF timeout_failure, atmostonce_failure, Result
<1>5. /\ intret' \in [Xid -> Result \cup {NoResult}] /\ ret \in Result \cup {NoResult}
      /\ \A z \in Xid : intret'[z] = IF z = x THEN ret ELSE intret[z]
  BY <1>4 DEF call1_end, Inv, TypeOK
<1>6. Genuine(x, ret) /\ ret # atmostonce_failure
  BY <1>4 DEF Inv, MessageInv, Genuine
<1>7. /\ bind_done_' \in BOOLEAN
      /\ bind_done_' <=> bind_done_ \/ bound
      /\ srv_nonce_' = IF bound THEN ret ELSE srv_nonce_
  BY Zenon DEF call1_end, bind, Inv, TypeOK
<1>8. ret > 0 => ret \in Nonce
  BY <1>5 DEF Result, NoResult, timeout_failure, atmostonce_failure, oldsrv_failure, cancel_failure
<1>9. TypeOK'
  <2>1. srv_nonce_' \in {0} \cup Nonce /\ reported' \in SUBSET Xid
    BY <1>7, <1>8 DEF call1_end, Inv, TypeOK
  <2>2. dup_req_' \in {0} \cup Xid
    BY DEF call1_end, Inv, TypeOK
  <2>3. xid_rep_done_' \in Int
    BY DEF call1_end, Inv, TypeOK, Header
  <2>4. QED
    BY <1>1, <1>3, <1>5, <1>7, <2>1, <2>2, <2>3 DEF Inv, TypeOK
<1>10. \A z \in Xid : (Started(z)' <=> Started(z)) /\ (Acked(z) => Acked(z)')
  BY <1>1, <1>2, <1>3 DEF Started, Acked
<1>11. calls_' = calls_ \ {x}
  BY <1>3 DEF calls_
<1>12. ClientInv'
  <2>1. reported' = reported \cup {x} /\ reported \subseteq Xid /\ Acked(x)'
    BY <1>3 DEF call1_end, Inv, TypeOK, Acked
  <2>2. dup_req_' # 0 => Started(dup_req_)'
    BY <1>2, <1>3 DEF call1_end, Inv, TypeOK, ClientInv, Started
  <2>3. QED
    BY <1>1, <1>2, <1>10, <2>1, <2>2 DEF Inv, ClientInv
<1>13. BindInv'
  <2>1. /\ bind_done_ <=> srv_nonce_ # 0
        /\ srv_nonce_ <= nonce_
    BY DEF Inv, BindInv
  <2>2. CASE bound
    <3>1. calls_ = {x}
      BY <1>2, <2>2 DEF Inv, BindInv
    <3>2. ret \in Nat \ {0} /\ ret <= nonce_
      BY <1>6, <1>8, <2>2, Ranges DEF Genuine
    <3>3. calls_' = {} /\ bind_done_' /\ srv_nonce_' = ret
      BY <1>7, <1>11, <2>2, <3>1
    <3>4. QED
      BY <1>1, <1>10, <3>2, <3>3 DEF Inv, BindInv
  <2>3. CASE ~bound
    BY <1>1, <1>7, <1>10, <1>11, <2>1, <2>3 DEF Inv, BindInv
  <2>4. QED
    BY <2>2, <2>3
<1>14. MessageInv'
  <2>1. \A r \in requests : r[1] \in Xid
    BY DEF Inv, TypeOK
  <2>2. \A m \in replies : m.xid \in Xid
    BY DEF Inv, TypeOK, Reply
  <2>3. \A m \in replies' : /\ Started(m.xid)' /\ Genuine(m.xid, m.ret)'
                            /\ m.ret = atmostonce_failure => m.xid \notin calls_'
    BY <1>1, <1>10, <1>11, <2>2 DEF Inv, MessageInv, Genuine
  <2>4. ASSUME NEW z \in Xid
        PROVE  /\ intret'[z] # NoResult => Started(z)'
               /\ Genuine(z, intret[z])' /\ intret'[z] # atmostonce_failure
    <3>1. CASE z = x
      BY <1>1, <1>2, <1>5, <1>6, <1>10, <3>1 DEF Genuine
    <3>2. CASE z # x
      BY <1>1, <1>5, <1>10, <3>2 DEF Inv, MessageInv, Genuine
    <3>3. QED
      BY <3>1, <3>2
  <2>5. QED
    BY <1>1, <1>10, <2>1, <2>3, <2>4 DEF Inv, MessageInv
<1>15. WindowInv'
  <2>1. \A z \in Listed(reply_window_) : z \in Xid
    BY DEF Listed
  <2>2. QED
    BY <1>1, <1>10, <2>1 DEF Inv, WindowInv
<1>16. CountInv'
  BY <1>1, <1>10 DEF Inv, CountInv
<1>17. BoundInv'
  <2>1. srv_nonce_' = nonce_' => \E b \in Listed(reply_window_') : b < xid_'
    <3>1. CASE bound
      <4>1. x < xid_
        BY <1>2 DEF Inv, ClientInv
      <4>2. QED
        BY <1>1, <1>6, <1>7, <3>1, <4>1 DEF Genuine
    <3>2. CASE ~bound
      BY <1>1, <1>7, <3>2 DEF Inv, BoundInv
    <3>3. QED
      BY <3>1, <3>2
  <2>2. QED
    BY <1>1, <1>10, <2>1 DEF Inv, BoundInv
<1>18. QED
  BY <1>9, <1>12, <1>13, <1>14, <1>15, <1>16, <1>17 DEF Inv

\* The nonces that the client knows, and those in the requests, are numbers.
LEMMA NonceNat ==
    ASSUME Inv PROVE srv_nonce_ \in Nat /\ \A x \in Xid : header[x].srv \in Nat
<1>1. \A n \in {0} \cup Nonce : n \in Nat
  BY Ranges
<1>2. \A x \in Xid : header[x].srv \in {0} \cup Nonce
  BY DEF Inv, TypeOK, Header
<1>3. srv_nonce_ \in {0} \cup Nonce
  BY DEF Inv, TypeOK
<1>4. QED
  BY <1>1, <1>2, <1>3, Zenon

\* A new instance starts with an empty window: no call is for it, and no reply
\* comes from it.
LEMMA RestartInv == ASSUME Inv, restart PROVE Inv'
<1>1. UNCHANGED <<bind_done_, srv_nonce_, xid_, destroy_wait_, dup_req_, xid_rep_done_, reported,
                  stage, done, intret, header, ch, cancelling, nconn, chan_, cdead, executed, replies>>
  BY DEF restart, clientVars
<1>2. nonce_ \in Nat \ {0} /\ xid_ - 1 \in Nat /\ nconn \in Nat /\ nconn <= Most(2)
  BY Ranges, MostType DEF Inv, TypeOK, Conn
<1>3. nonce_' = nonce_ + 1 /\ nonce_' \in Nonce
  BY <1>2, MostType DEF restart, Nonce
<1>4. /\ Listed(reply_window_') = {} /\ reply_window_' \in [Xid -> Entry]
      /\ \A x \in Xid : reply_window_'[x] = NoEntry
  BY DEF restart, Listed, NoEntry, Entry
<1>5. jobs' = {} /\ requests' = {} /\ conns_' = 0
  BY DEF restart
<1>6. sdead' \in SUBSET Conn
  BY <1>2, MostType DEF restart, Conn
<1>7. TypeOK'
  BY <1>1, <1>3, <1>4, <1>5, <1>6 DEF Inv, TypeOK
<1>8. \A x \in Xid : Started(x)' <=> Started(x)
  BY <1>1 DEF Started
<1>9. BindInv'
  <2>1. calls_' = calls_
    BY <1>1 DEF calls_
  <2>2. srv_nonce_' <= nonce_' /\ \A x \in Xid : Started(x)' => header'[x].srv <= nonce_'
    <3>1. srv_nonce_ <= nonce_ /\ \A x \in Xid : Started(x) => header[x].srv <= nonce_
      BY DEF Inv, BindInv
    <3>2. QED
      BY <1>1, <1>2, <1>3, <1>8, <3>1, NonceNat
  <2>3. QED
    BY <1>1, <2>1, <2>2, Zenon DEF Inv, BindInv
<1>10. MessageInv'
  <2>1. \A x \in Xid, ret \in Int : Genuine(x, ret) => Genuine(x, ret)'
    BY <1>1, <1>2, <1>3 DEF Genuine
  <2>2. Result \subseteq Int /\ NoResult \in Int
    BY Ranges DEF Result, NoResult, timeout_failure, atmostonce_failure, oldsrv_failure,
                  cancel_failure
  <2>3. calls_' = calls_
    BY <1>1 DEF calls_
  <2>4. \A m \in replies' : /\ Started(m.xid)' /\ Genuine(m.xid, m.ret)'
                            /\ m.ret = atmostonce_failure => m.xid \notin calls_'
    <3>1. \A m \in replies : m.xid \in Xid /\ m.ret \in Int
      BY <2>2, Zenon DEF Inv, TypeOK, Reply
    <3>2. QED
      BY <1>1, <1>8, <2>1, <2>3, <3>1 DEF Inv, MessageInv
  <2>5. ASSUME NEW x \in Xid
        PROVE  /\ intret'[x] # NoResult => Started(x)'
               /\ Genuine(x, intret[x])' /\ intret'[x] # atmostonce_failure
    <3>1. intret[x] \in Int /\ intret'[x] = intret[x]
      BY <1>1, <2>2, Zenon DEF Inv, TypeOK
    <3>2. PICK ret \in Int : ret = intret[x]
      BY <3>1
    <3>3. Genuine(x, ret)
      BY <3>2 DEF Inv, MessageInv
    <3>4. Genuine(x, ret)' /\ intret'[x] = ret
      BY <2>1, <3>1, <3>2, <3>3
    <3>5. Genuine(x, intret[x])'
      BY <3>4, Zenon DEF Genuine
    <3>6. QED
      BY <1>8, <3>1, <3>5 DEF Inv, MessageInv
  <2>6. QED
    BY <1>5, <2>4, <2>5 DEF MessageInv
<1>11. WindowInv'
  <2>1. \A x \in Xid : ~reply_window_'[x].cb_present
    BY <1>4 DEF NoEntry
  <2>2. QED
    BY <1>4, <1>5, <2>1, Zenon DEF WindowInv
<1>12. CountInv'
  <2>1. \A x \in Xid : executed[x] \in Nat /\ header[x].srv \in Nat
    BY NonceNat DEF Inv, TypeOK
  <2>2. \A x \in Xid : executed[x] > 0 => header[x].srv <= nonce_
    BY DEF Inv, CountInv, BindInv
  <2>3. \A x \in Xid : header[x].srv = 0 => executed[x] <= nonce_
    BY <1>2, <2>1 DEF Inv, CountInv
  <2>4. \A x \in Xid : /\ executed[x] > 0 => Started(x)
                       /\ header[x].srv # 0 => executed[x] <= 1
    BY DEF Inv, CountInv
  <2>5. ASSUME NEW x \in Xid
        PROVE  /\ executed'[x] > 0 => Started(x)'
               /\ header'[x].srv = 0 => executed'[x] < nonce_'
               /\ header'[x].srv # 0 => executed'[x] <= 1
               /\ header'[x].srv = nonce_' => executed'[x] = 0
    <3>1. executed'[x] = executed[x] /\ header'[x] = header[x] /\ (Started(x)' <=> Started(x))
      BY <1>1, <1>8
    <3>2. header[x].srv = 0 => executed[x] < nonce_ + 1
      BY <1>2, <2>1, <2>3
    <3>3. header[x].srv = nonce_ + 1 => executed[x] = 0
      BY <1>2, <2>1, <2>2
    <3>4. QED
      BY <1>3, <2>4, <3>1, <3>2, <3>3
  <2>6. QED
    BY <1>4, <2>5 DEF CountInv
<1>13. BoundInv'
  <2>1. srv_nonce_' # nonce_' /\ \A x \in Xid : Started(x)' => header'[x].srv # nonce_'
    BY <1>1, <1>2, <1>3, <1>8, NonceNat DEF Inv, BindInv
  <2>2. QED
    BY <2>1 DEF BoundInv
<1>14. ClientInv'
  BY <1>1, Frame
<1>15. QED
  BY <1>7, <1>9, <1>10, <1>11, <1>12, <1>13, <1>14 DEF Inv

\* A reply that the server sends is one of its results, on a connection.
LEMMA SentInv ==
    ASSUME Inv, NEW x \in Xid, NEW k \in Conn, NEW ret \in Result, Started(x), Genuine(x, ret)',
           ret = atmostonce_failure => x \notin calls_,
           replies' = Sent(x, k, ret), requests' \subseteq requests,
           Listed(reply_window_) \subseteq Listed(reply_window_'),
           UNCHANGED <<stage, intret, header, nonce_, executed>>
    PROVE  replies' \in SUBSET Reply /\ MessageInv'
<1>1. \A m \in replies' : m \in replies \/ m = [xid |-> x, conn |-> k, ret |-> ret]
  BY DEF Sent
<1>2. replies' \in SUBSET Reply
  BY <1>1 DEF Inv, TypeOK, Reply
<1>3. calls_' = calls_ /\ \A z \in Xid : Started(z)' <=> Started(z)
  BY DEF calls_, Started
<1>4. ASSUME NEW m \in replies'
      PROVE  /\ Started(m.xid)' /\ Genuine(m.xid, m.ret)'
             /\ m.ret = atmostonce_failure => m.xid \notin calls_'
  <2>1. CASE m \in replies
    <3>1. m.xid \in Xid
      BY <2>1 DEF Inv, TypeOK, Reply
    <3>2. QED
      BY <1>3, <2>1, <3>1 DEF Inv, MessageInv, Genuine
  <2>2. CASE m = [xid |-> x, conn |-> k, ret |-> ret]
    <3>1. m.xid = x /\ m.ret = ret
      BY <2>2
    <3>2. QED
      BY <1>3, <3>1
  <2>3. QED
    BY <1>1, <2>1, <2>2
<1>5. \A z \in Xid : /\ intret'[z] # NoResult => Started(z)'
                     /\ Genuine(z, intret[z])' /\ intret'[z] # atmostonce_failure
  BY <1>3 DEF Inv, MessageInv, Genuine
<1>6. \A r \in requests' : Started(r[1])'
  BY <1>3 DEF Inv, MessageInv, TypeOK
<1>7. QED
  BY <1>2, <1>4, <1>5, <1>6 DEF MessageInv

\* A handler returns: its entry is there and keeps the reply; the latest
\* connection is one that the server has seen.
LEMMA DispatchReplyInv ==
    ASSUME Inv, NEW x \in Xid, NEW k \in Conn, dispatch_reply(x, k) PROVE Inv'
<1>1. UNCHANGED <<bind_done_, srv_nonce_, xid_, destroy_wait_, dup_req_, xid_rep_done_, reported,
                  stage, done, intret, header, ch, cancelling, nconn, chan_, cdead,
                  requests, sdead, nonce_, conns_, executed>>
  BY DEF dispatch_reply, clientVars
<1>2. /\ <<x, k>> \in jobs /\ reply_window_[x].cb_present /\ header[x].srv \in {0, nonce_}
      /\ k <= conns_
  BY DEF dispatch_reply, Inv, WindowInv
<1>3. /\ reply_window_[x] # NoEntry /\ x \in Listed(reply_window_)
      /\ Started(x) /\ executed[x] > 0
  <2>1. reply_window_[x] # NoEntry
    BY <1>2 DEF NoEntry
  <2>2. x \in Listed(reply_window_)
    BY <2>1 DEF Listed
  <2>3. QED
    BY <2>1, <2>2 DEF Inv, WindowInv
<1>4. LET e == [cb_present |-> FALSE, buf |-> TRUE]
      IN  /\ reply_window_' = [reply_window_ EXCEPT ![x] = e] /\ e \in Entry
          /\ e.cb_present = FALSE /\ e # NoEntry
  BY <1>3 DEF dispatch_reply, add_reply, Inv, TypeOK, Entry, NoEntry
<1>5. /\ reply_window_' \in [Xid -> Entry]
      /\ \A z \in Xid : z # x => reply_window_'[z] = reply_window_[z]
      /\ reply_window_'[x].cb_present = FALSE /\ reply_window_'[x] # NoEntry
  BY <1>4 DEF Inv, TypeOK
<1>6. Listed(reply_window_') = Listed(reply_window_)
  BY <1>3, <1>5 DEF Listed
<1>7. nonce_ \in Nat \ {0} /\ nonce_ \in Result /\ nonce_ # atmostonce_failure
  BY Ranges DEF Inv, TypeOK, Result, atmostonce_failure
<1>8. (IF k \in sdead THEN conns_ ELSE k) \in Conn
  BY <1>2, Ranges DEF Inv, TypeOK
<1>10. replies' \in SUBSET Reply /\ MessageInv'
  <2>1. PICK ret \in Result : ret = nonce_
    BY <1>7
  <2>2. Genuine(x, ret)'
    BY <1>1, <1>2, <1>3, <1>6, <1>7, <2>1 DEF Genuine
  <2>3. replies' = Sent(x, IF k \in sdead THEN conns_ ELSE k, ret)
    BY <2>1 DEF dispatch_reply
  <2>4. QED
    BY <1>1, <1>3, <1>6, <1>7, <1>8, <2>1, <2>2, <2>3, SentInv
<1>11. jobs' = jobs \ {<<x, k>>} /\ \A j \in jobs' : j[1] # x /\ j[1] \in Xid
  <2>1. jobs' = jobs \ {<<x, k>>}
    BY DEF dispatch_reply
  <2>2. \A j \in jobs : j[1] = x => j = <<x, k>>
    BY <1>2 DEF Inv, WindowInv
  <2>3. QED
    BY <2>1, <2>2 DEF Inv, TypeOK
<1>12. TypeOK'
  BY <1>1, <1>5, <1>10, <1>11 DEF Inv, TypeOK
<1>13. WindowInv'
  <2>1. \A z \in Xid : ~(reply_window_'[z].cb_present /\ reply_window_'[z].buf)
    BY <1>5 DEF Inv, WindowInv
  <2>2. \A z \in Listed(reply_window_') : Started(z)' /\ executed'[z] > 0
    BY <1>1, <1>6 DEF Inv, WindowInv, Started
  <2>3. \A j \in jobs' : /\ reply_window_'[j[1]].cb_present /\ header'[j[1]].srv \in {0, nonce_'}
                         /\ j[2] <= conns_'
    BY <1>1, <1>5, <1>11 DEF Inv, WindowInv
  <2>4. \A i, j \in jobs' : i[1] = j[1] => i = j
    BY <1>11 DEF Inv, WindowInv
  <2>5. QED
    BY <2>1, <2>2, <2>3, <2>4 DEF WindowInv
<1>14. CountInv' /\ BoundInv'
  BY <1>1, <1>6 DEF Inv, CountInv, BoundInv, Started
<1>15. ClientInv' /\ BindInv'
  BY <1>1, Frame
<1>16. QED
  BY <1>10, <1>12, <1>13, <1>14, <1>15 DEF Inv

\* A request that gets an answer, and leaves the window as it is.
LEMMA AnsweredInv ==
    ASSUME Inv, NEW x \in Xid, NEW k \in Conn, dispatch(x, k), NEW ret \in Result, Genuine(x, ret),
           ret = atmostonce_failure => x \notin calls_,
           replies' \in {replies, Sent(x, k, ret)}, conns_' \in {conns_, k}, conns_ <= conns_',
           UNCHANGED <<nonce_, reply_window_, jobs, executed>>
    PROVE  Inv'
<1>1. UNCHANGED <<bind_done_, srv_nonce_, xid_, destroy_wait_, dup_req_, xid_rep_done_, reported,
                  stage, done, intret, header, ch, cancelling, nconn, chan_, cdead, sdead>>
  BY DEF dispatch, clientVars
<1>2. requests' \subseteq requests /\ Started(x)
  BY DEF dispatch, Inv, MessageInv
<1>3. Genuine(x, ret)'
  BY <1>1 DEF Genuine
<1>4. replies' \in SUBSET Reply /\ MessageInv'
  <2>1. CASE replies' = replies
    <3>1. calls_' = calls_
      BY <1>1 DEF calls_
    <3>2. QED
      BY <1>1, <1>2, <2>1, <3>1 DEF Inv, TypeOK, MessageInv, Genuine, Started
  <2>2. CASE replies' = Sent(x, k, ret)
    BY <1>1, <1>2, <1>3, <2>2, SentInv
  <2>3. QED
    BY <2>1, <2>2
<1>5. conns_' \in {0} \cup Conn
  BY DEF Inv, TypeOK
<1>6. TypeOK'
  BY <1>1, <1>2, <1>4, <1>5 DEF Inv, TypeOK
<1>7. WindowInv'
  <2>1. conns_ \in Nat /\ conns_' \in Nat /\ \A j \in jobs : j[2] \in Nat
    <3>1. \A n \in {0} \cup Conn : n \in Nat
      BY Ranges
    <3>2. conns_ \in {0} \cup Conn /\ \A j \in jobs : j[2] \in Conn
      BY DEF Inv, TypeOK
    <3>3. QED
      BY <1>5, <3>1, <3>2, Zenon
  <2>2. ASSUME NEW j \in jobs PROVE j[2] <= conns_'
    <3>1. j[2] <= conns_
      BY DEF Inv, WindowInv
    <3>2. QED
      BY <2>1, <3>1
  <2>3. QED
    BY <1>1, <2>2 DEF Inv, WindowInv, Started
<1>8. QED
  BY <1>1, <1>4, <1>6, <1>7, Frame DEF Inv

\* A request that the server has not seen is entered in the window and run.
LEMMA NewInv ==
    ASSUME Inv, NEW x \in Xid, NEW k \in Conn, dispatch(x, k), header[x].srv \in {0, nonce_},
           reply_window_[x] = NoEntry,
           reply_window_' = [reply_window_ EXCEPT ![x].cb_present = TRUE],
           jobs' = jobs \cup {<<x, k>>}, executed' = [executed EXCEPT ![x] = @ + 1],
           conns_' = IF conns_ < k THEN k ELSE conns_, UNCHANGED <<nonce_, replies>>
    PROVE  Inv'
<1>1. UNCHANGED <<bind_done_, srv_nonce_, xid_, destroy_wait_, dup_req_, xid_rep_done_, reported,
                  stage, done, intret, header, ch, cancelling, nconn, chan_, cdead, sdead>>
  BY DEF dispatch, clientVars
<1>2. requests' \subseteq requests /\ Started(x)
  BY DEF dispatch, Inv, MessageInv
<1>3. LET e == [NoEntry EXCEPT !.cb_present = TRUE]
      IN  /\ reply_window_' = [reply_window_ EXCEPT ![x] = e] /\ e \in Entry
          /\ e.cb_present /\ e.buf = FALSE /\ e # NoEntry
  BY Zenon DEF Inv, TypeOK, Entry, NoEntry
<1>4. /\ reply_window_' \in [Xid -> Entry]
      /\ \A z \in Xid : z # x => reply_window_'[z] = reply_window_[z]
      /\ reply_window_'[x].cb_present /\ reply_window_'[x].buf = FALSE
      /\ reply_window_'[x] # NoEntry
  BY <1>3 DEF Inv, TypeOK
<1>5. Listed(reply_window_') = Listed(reply_window_) \cup {x} /\ x \notin Listed(reply_window_)
  BY <1>4 DEF Listed
<1>6. /\ executed' \in [Xid -> Nat] /\ executed'[x] = executed[x] + 1 /\ executed[x] \in Nat
      /\ \A z \in Xid : z # x => executed'[z] = executed[z]
  BY DEF Inv, TypeOK
<1>7. /\ conns_' \in {0} \cup Conn /\ conns_ \in Nat /\ k \in Nat
      /\ \A j \in jobs : j[2] \in Nat
  BY Ranges DEF Inv, TypeOK
<1>8. TypeOK'
  BY <1>1, <1>2, <1>4, <1>6, <1>7 DEF Inv, TypeOK
<1>9. calls_' = calls_ /\ \A z \in Xid : Started(z)' <=> Started(z)
  BY <1>1 DEF calls_, Started
<1>10. \A z \in Xid : executed[z] > 0 => executed'[z] > 0
  BY <1>6
<1>11. MessageInv'
  <2>1. \A m \in replies : m.xid \in Xid
    BY DEF Inv, TypeOK, Reply
  <2>2. \A m \in replies' : /\ Started(m.xid)' /\ Genuine(m.xid, m.ret)'
                            /\ m.ret = atmostonce_failure => m.xid \notin calls_'
    BY <1>1, <1>5, <1>9, <1>10, <2>1, Zenon DEF Inv, MessageInv, Genuine
  <2>3. \A z \in Xid : /\ intret'[z] # NoResult => Started(z)'
                       /\ Genuine(z, intret[z])' /\ intret'[z] # atmostonce_failure
    BY <1>1, <1>5, <1>9, <1>10, Zenon DEF Inv, MessageInv, Genuine
  <2>4. \A r \in requests' : Started(r[1])'
    BY <1>2, <1>9 DEF Inv, MessageInv, TypeOK
  <2>5. QED
    BY <2>2, <2>3, <2>4 DEF MessageInv
<1>12. WindowInv'
  <2>1. \A j \in jobs : j[1] \in Xid /\ j[1] # x
    BY DEF Inv, TypeOK, WindowInv, NoEntry
  <2>2. \A z \in Xid : ~(reply_window_'[z].cb_present /\ reply_window_'[z].buf)
    BY <1>4 DEF Inv, WindowInv
  <2>3. \A z \in Listed(reply_window_') : Started(z)' /\ executed'[z] > 0
    <3>1. \A z \in Listed(reply_window_) : z \in Xid
      BY DEF Listed
    <3>2. QED
      BY <1>2, <1>5, <1>6, <1>9, <1>10, <3>1 DEF Inv, WindowInv
  <2>4. \A j \in jobs' : j[2] <= conns_'
    BY <1>7 DEF Inv, WindowInv
  <2>5. \A j \in jobs' : /\ reply_window_'[j[1]].cb_present /\ header'[j[1]].srv \in {0, nonce_'}
    BY <1>1, <1>4, <2>1 DEF Inv, WindowInv
  <2>6. \A i, j \in jobs' : i[1] = j[1] => i = j
    BY <2>1 DEF Inv, WindowInv
  <2>7. QED
    BY <2>2, <2>3, <2>4, <2>5, <2>6, Zenon DEF WindowInv
<1>13. CountInv'
  <2>1. nonce_ \in Nat \ {0}
    BY Ranges DEF Inv, TypeOK
  <2>2. ASSUME NEW z \in Xid
        PROVE  /\ executed'[z] > 0 => Started(z)'
               /\ header'[z].srv = 0 /\ z \in Listed(reply_window_') => executed'[z] <= nonce_'
               /\ header'[z].srv = 0 /\ z \notin Listed(reply_window_') => executed'[z] < nonce_'
               /\ header'[z].srv # 0 => executed'[z] <= 1
               /\ header'[z].srv = nonce_' /\ z \notin Listed(reply_window_') => executed'[z] = 0
    <3>1. CASE z = x
      <4>1. header[x].srv = 0 => executed[x] < nonce_
        BY <1>5 DEF Inv, CountInv
      <4>2. header[x].srv # 0 => executed[x] = 0
        BY <1>5 DEF Inv, CountInv
      <4>3. header'[x] = header[x] /\ nonce_' = nonce_ /\ x \in Listed(reply_window_') /\ Started(x)'
        BY <1>1, <1>2, <1>5, <1>9, Zenon
      <4>4. /\ header[x].srv = 0 => executed'[x] <= nonce_
            /\ header[x].srv # 0 => executed'[x] <= 1
        BY <1>6, <2>1, <4>1, <4>2
      <4>5. QED
        BY <3>1, <4>3, <4>4
    <3>2. CASE z # x
      BY <1>1, <1>5, <1>6, <1>9, <3>2, Zenon DEF Inv, CountInv
    <3>3. QED
      BY <3>1, <3>2
  <2>3. QED
    BY <2>2, Zenon DEF CountInv
<1>14. BoundInv'
  BY <1>1, <1>5, <1>9, Zenon DEF Inv, BoundInv
<1>15. ClientInv' /\ BindInv'
  BY <1>1, Frame
<1>16. QED
  BY <1>8, <1>11, <1>12, <1>13, <1>14, <1>15 DEF Inv

\* No call that still waits is found forgotten: the bind is the latest call as
\* long as it waits, and any other is later than the bind in the window.
LEMMA NotForgotten ==
    ASSUME Inv, NEW x \in calls_, header[x].srv \in {0, nonce_}
    PROVE  RpcState(reply_window_, x) # "FORGOTTEN"
<1>1. x \in Xid /\ Started(x) /\ x \in Nat
  BY Ranges, Zenon DEF calls_, Started
<1>2. \A y \in Listed(reply_window_) : y \in Xid /\ y \in Nat /\ y < xid_
  <2>1. \A y \in Listed(reply_window_) : y \in Xid
    BY DEF Listed
  <2>2. QED
    BY <2>1, Ranges, Zenon DEF Inv, WindowInv, ClientInv
<1>3. Listed(reply_window_) # {} => \E y \in Listed(reply_window_) : ~(y > x)
  <2>1. CASE bind_done_
    <3>1. header[x].srv = nonce_
      BY <2>1 DEF Inv, BindInv
    <3>2. \E y \in Listed(reply_window_) : y < x
      BY <1>1, <3>1 DEF Inv, BoundInv
    <3>3. QED
      BY <1>1, <1>2, <3>2
  <2>2. CASE ~bind_done_
    <3>1. x = xid_ - 1 /\ xid_ \in Nat
      BY <2>2 DEF Inv, BindInv, TypeOK
    <3>2. QED
      BY <1>1, <1>2, <3>1
  <2>3. QED
    BY <2>1, <2>2
<1>4. QED
  BY <1>3 DEF RpcState

\* The server takes a request, whatever it knows of the call.
LEMMA DispatchInv == ASSUME Inv, NEW x \in Xid, NEW k \in Conn, dispatch(x, k) PROVE Inv'
<1>1. CASE dispatch_oldsrv(x, k)
  <2>1. /\ oldsrv_failure \in Result /\ Genuine(x, oldsrv_failure)
        /\ oldsrv_failure # atmostonce_failure
    BY DEF oldsrv_failure, atmostonce_failure, Result, Genuine
  <2>2. /\ replies' = Sent(x, k, oldsrv_failure) /\ conns_' = conns_ /\ conns_ <= conns_
        /\ UNCHANGED <<nonce_, reply_window_, jobs, executed>>
    BY <1>1, Ranges DEF dispatch_oldsrv, Inv, TypeOK
  <2>3. QED
    BY <2>1, <2>2, AnsweredInv
<1>2. CASE dispatch_known(x, k)
  <2> DEFINE st == RpcState(reply_window_, x)
  <2>1. Trim(reply_window_, header[x].rep) = reply_window_
    BY TrimNothing DEF Inv, TypeOK, WindowInv
  <2>2. /\ header[x].srv \in {0, nonce_} /\ conns_' = IF conns_ < k THEN k ELSE conns_
        /\ nonce_' = nonce_
        /\ reply_window_' = IF st = "NEW" THEN [reply_window_ EXCEPT ![x].cb_present = TRUE]
                            ELSE reply_window_
        /\ jobs' = IF st = "NEW" THEN jobs \cup {<<x, k>>} ELSE jobs
        /\ executed' = IF st = "NEW" THEN [executed EXCEPT ![x] = @ + 1] ELSE executed
        /\ replies' = CASE st = "DONE" -> Sent(x, k, nonce_)
                        [] st = "FORGOTTEN" -> Sent(x, k, atmostonce_failure)
                        [] OTHER -> replies
    BY <1>2, <2>1 DEF dispatch_known
  <2>3. conns_' \in {conns_, k} /\ conns_ <= conns_'
    <3>1. k \in Nat /\ conns_ \in Nat
      BY Ranges DEF Inv, TypeOK
    <3>2. QED
      BY <2>2, <3>1
  <2>4. CASE st = "NEW"
    <3>1. reply_window_[x] = NoEntry
      BY <2>4 DEF RpcState
    <3>2. replies' = replies
      BY <2>2, <2>4
    <3>3. QED
      BY <2>2, <2>4, <3>1, <3>2, NewInv, Zenon
  <2>5. CASE st = "DONE"
    <3>1. x \in Listed(reply_window_)
      BY <2>5 DEF RpcState, Listed
    <3>2. PICK ret \in Result : ret = nonce_ /\ ret \in Nat /\ ret # atmostonce_failure
      BY Ranges DEF Inv, TypeOK, Result, atmostonce_failure
    <3>3. Genuine(x, ret)
      BY <2>2, <3>1, <3>2 DEF Genuine, Inv, WindowInv
    <3>4. replies' = Sent(x, k, ret)
      BY <2>2, <2>5, <3>2
    <3>5. QED
      BY <2>2, <2>3, <2>5, <3>2, <3>3, <3>4, AnsweredInv
  <2>6. CASE st = "FORGOTTEN"
    <3>1. x \notin calls_
      BY <2>2, <2>6, NotForgotten
    <3>2. atmostonce_failure \in Result /\ Genuine(x, atmostonce_failure)
      BY DEF atmostonce_failure, Result, Genuine
    <3>3. replies' = Sent(x, k, atmostonce_failure)
      BY <2>2, <2>6
    <3>4. QED
      BY <2>2, <2>3, <2>6, <3>1, <3>2, <3>3, AnsweredInv
  <2>7. CASE st = "INPROGRESS"
    <3>1. /\ oldsrv_failure \in Result /\ Genuine(x, oldsrv_failure)
          /\ oldsrv_failure # atmostonce_failure
      BY DEF oldsrv_failure, atmostonce_failure, Result, Genuine
    <3>2. replies' = replies
      BY <2>2, <2>7
    <3>3. QED
      BY <2>2, <2>3, <2>7, <3>1, <3>2, AnsweredInv
  <2>8. QED
    BY <2>4, <2>5, <2>6, <2>7 DEF RpcState
<1>3. QED
  BY <1>1, <1>2 DEF dispatch

\* Every step of the client, the server and the network keeps the invariant.
LEMMA NextInv == Inv /\ [Next]_vars => Inv'
<1> SUFFICES ASSUME Inv, [Next]_vars PROVE Inv'
  OBVIOUS
<1>1. CASE UNCHANGED vars
  BY <1>1, StutterInv
<1>2. CASE ClientNext
  BY <1>2, Call1Inv, TransmitInv, RetransmitInv, Call1EndInv, GotPduInv, CancelInv,
     CancelReturnInv DEF ClientNext
<1>3. CASE ServerNext
  BY <1>3, RestartInv, DispatchInv, DispatchReplyInv DEF ServerNext
<1>4. CASE NetNext
  BY <1>4, ClosedInv DEF NetNext
<1>5. QED
  BY <1>1, <1>2, <1>3, <1>4 DEF Next

\* The invariant holds throughout.
THEOREM Invariance == Spec => []Inv
BY InitInv, NextInv, PTL DEF Spec

-----------------------------------------------------------------------------
(***************************************************************************)
(* What the library promises.                                              *)
(***************************************************************************)

\* The invariant implies each of the promises.
LEMMA Promises ==
    Inv => /\ AtMostOnceExecution /\ SuccessMeansExecuted /\ AssertXid /\ NeverAckedEarly
           /\ NeverForgotten
<1> SUFFICES ASSUME Inv
    PROVE  /\ AtMostOnceExecution /\ SuccessMeansExecuted /\ AssertXid /\ NeverAckedEarly
           /\ NeverForgotten
  OBVIOUS
<1>1. AtMostOnceExecution
  <2>1. nonce_ \in Nat /\ \A x \in Xid : executed[x] \in Nat
    BY Ranges DEF Inv, TypeOK
  <2>2. QED
    BY <2>1 DEF Inv, CountInv, AtMostOnceExecution
<1>2. SuccessMeansExecuted
  BY DEF Inv, MessageInv, Genuine, SuccessMeansExecuted
<1>3. AssertXid
  <2>1. ASSUME NEW r \in requests PROVE r[1] > header[r[1]].rep
    <3>1. r[1] \in Xid /\ Started(r[1]) /\ header[r[1]].rep \in Nat
      BY DEF Inv, TypeOK, MessageInv, Header
    <3>2. header[r[1]].rep < r[1] /\ r[1] \in Nat
      BY <3>1, Ranges, Zenon DEF Inv, ClientInv
    <3>3. QED
      BY <3>1, <3>2
  <2>2. QED
    BY <2>1 DEF AssertXid
<1>4. NeverAckedEarly
  BY DEF Inv, ClientInv, Started, Acked, NeverAckedEarly
<1>5. NeverForgotten
  BY DEF Inv, MessageInv, NeverForgotten
<1>6. QED
  BY <1>1, <1>2, <1>3, <1>4, <1>5

\* The handler of a call is run at most once, however often its request is sent
\* again and whether or not the server restarts in between.
THEOREM AtMostOnceExecutionCorrect == Spec => []AtMostOnceExecution
BY Invariance, Promises, PTL

\* A call returns success only if the instance the client is bound to ran it.
THEOREM SuccessMeansExecutedCorrect == Spec => []SuccessMeansExecuted
BY Invariance, Promises, PTL

\* The assertion xid > xid_rep of checkduplicate_and_update never fails.
THEOREM AssertXidCorrect == Spec => []AssertXid
BY Invariance, Promises, PTL

\* The client acknowledges no call that still waits for its reply.
THEOREM NeverAckedEarlyCorrect == Spec => []NeverAckedEarly
BY Invariance, Promises, PTL

\* No caller is told that the server forgot its call.
THEOREM NeverForgottenCorrect == Spec => []NeverForgotten
BY Invariance, Promises, PTL
=============================================================================
