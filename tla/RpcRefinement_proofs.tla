------------------------ MODULE RpcRefinement_proofs ------------------------
(***************************************************************************)
(* The RPC library implements at-most-once calls, for any number of calls, *)
(* connections and instances of the server: the start and the end of       *)
(* call1, and the first run of a handler, are steps of AtMostOnce; no      *)
(* other step can be told by the callers.                                  *)
(***************************************************************************)
EXTENDS Rpc_proofs

\* A step that no caller sees, and in which nothing is run for the first time.
LEMMA Unseen ==
    ASSUME \A z \in Xid : Outcome(z)' = Outcome(z) /\ Executions(z)' = Executions(z)
    PROVE  UNCHANGED AMO!vars
BY DEF AMO!vars

\* A step of the library in which the caller of x sees something.
LEMMA Seen ==
    ASSUME NEW x \in Xid,
           \A z \in Xid : z # x => Outcome(z)' = Outcome(z),
           \A z \in Xid : Executions(z)' = Executions(z),
           \/ Outcome(x) = "none" /\ Outcome(x)' = "called"
           \/ Outcome(x) = "called" /\ Outcome(x)' = "failed"
           \/ Outcome(x) = "called" /\ Outcome(x)' = "ok" /\ Executions(x) = 1
    PROVE  AMO!Next
BY Zenon DEF AMO!Next, AMO!Issue, AMO!Succeed, AMO!Fail

\* A step of the server that runs x for the first time.
LEMMA Run ==
    ASSUME NEW x \in Xid, \A z \in Xid : Outcome(z)' = Outcome(z),
           \A z \in Xid : z # x => Executions(z)' = Executions(z),
           Outcome(x) # "none", Executions(x) = 0, Executions(x)' = 1
    PROVE  AMO!Next
BY Zenon DEF AMO!Next, AMO!Execute

\* A call starts, and its caller waits; nothing has been run for it.
LEMMA Call1Refines == ASSUME Inv, NEW x \in Xid, call1(x) PROVE AMO!Next
<1>1. ~Started(x)
  BY DEF call1, Inv, TypeOK, ClientInv
<1>2. /\ stage[x] = "none" /\ stage'[x] = "transmit" /\ executed[x] = 0
      /\ UNCHANGED <<intret, executed>>
      /\ \A z \in Xid : z # x => stage'[z] = stage[z] /\ header'[z] = header[z]
  BY <1>1, Fresh DEF Started, call1, Inv, TypeOK, serverVars
<1>3. Outcome(x) = "none" /\ Outcome(x)' = "called"
  BY <1>2 DEF Outcome
<1>4. \A z \in Xid : z # x => Outcome(z)' = Outcome(z)
  BY <1>2, Zenon DEF Outcome
<1>5. \A z \in Xid : Executions(z)' = Executions(z)
  BY <1>2 DEF Executions
<1>6. QED
  BY <1>3, <1>4, <1>5, Seen

\* A call ends; when it returns success, it has been run.
LEMMA Call1EndRefines == ASSUME Inv, NEW x \in Xid, call1_end(x) PROVE AMO!Next
<1>1. /\ stage[x] = "wait" /\ stage'[x] = "ended" /\ UNCHANGED <<header, executed>>
      /\ \A z \in Xid : z # x => stage'[z] = stage[z] /\ intret'[z] = intret[z]
  BY DEF call1_end, Inv, TypeOK, serverVars
<1>2. intret'[x] > 0 => executed[x] > 0
  <2>1. Inv'
    BY Call1EndInv
  <2>2. QED
    BY <1>1, <2>1 DEF Inv, MessageInv, Genuine
<1>3. executed[x] > 0 => Executions(x) = 1
  BY DEF Executions, Inv, TypeOK, CountInv
<1>4. Outcome(x) = "called" /\ Outcome(x)' = IF intret'[x] > 0 THEN "ok" ELSE "failed"
  BY <1>1 DEF Outcome
<1>5. \A z \in Xid : z # x => Outcome(z)' = Outcome(z)
  BY <1>1, Zenon DEF Outcome
<1>6. \A z \in Xid : Executions(z)' = Executions(z)
  BY <1>1 DEF Executions
<1>7. QED
  BY <1>2, <1>3, <1>4, <1>5, <1>6, Seen

\* What the caller of z sees depends on where its call is, and on its result
\* once that has ended.
LEMMA SameOutcome ==
    ASSUME Inv, NEW z \in Xid, stage'[z] \in Stage,
           stage'[z] = "none" <=> stage[z] = "none",
           stage'[z] = "ended" <=> stage[z] = "ended",
           stage[z] = "ended" => intret'[z] = intret[z]
    PROVE  Outcome(z)' = Outcome(z)
BY DEF Outcome, Inv, TypeOK, Stage

\* Sending, cancelling and taking a reply change nothing until the call ends.
LEMMA ClientUnseen ==
    ASSUME Inv, NEW x \in Xid,
           \/ transmit(x) \/ retransmit(x) \/ cancel \/ cancel_return
           \/ \E m \in replies : rpcc_got_pdu(m)
    PROVE  UNCHANGED AMO!vars
<1>1. UNCHANGED <<header, executed>>
  BY DEF transmit, retransmit, cancel, cancel_return, rpcc_got_pdu, serverVars
<1>2. \A z \in Xid : Executions(z)' = Executions(z)
  BY <1>1 DEF Executions
<1>3. CASE transmit(x) \/ retransmit(x)
  <2>1. /\ stage' \in [Xid -> Stage] /\ intret' = intret
        /\ \A z \in Xid : /\ stage'[z] = "none" <=> stage[z] = "none"
                          /\ stage'[z] = "ended" <=> stage[z] = "ended"
    BY <1>3, StageFrame DEF transmit, retransmit
  <2>2. QED
    BY <1>2, <2>1, SameOutcome, Unseen
<1>4. CASE cancel \/ cancel_return \/ \E m \in replies : rpcc_got_pdu(m)
  <2>1. stage' = stage /\ stage \in [Xid -> Stage]
    BY <1>4 DEF cancel, cancel_return, rpcc_got_pdu, Inv, TypeOK
  <2>2. ASSUME NEW z \in Xid, stage[z] = "ended" PROVE intret'[z] = intret[z]
    <3>1. z \notin calls_
      BY <2>2 DEF calls_
    <3>2. QED
      BY <1>4, <3>1, SMTT(60) DEF cancel, cancel_return, rpcc_got_pdu, Inv, TypeOK
  <2>3. QED
    BY <1>2, <2>1, <2>2, SameOutcome, Unseen
<1>5. QED
  BY <1>3, <1>4

\* The server runs the handler of a call that has started; a bind that another
\* instance has run counts as run.
LEMMA DispatchRefines ==
    ASSUME Inv, NEW x \in Xid, NEW k \in Conn, dispatch(x, k) PROVE [AMO!Next]_(AMO!vars)
<1>1. /\ UNCHANGED <<stage, intret, header>> /\ Started(x)
      /\ executed' \in {executed, [executed EXCEPT ![x] = @ + 1]}
  BY DEF dispatch, dispatch_oldsrv, dispatch_known, clientVars, Inv, MessageInv
<1>2. \A z \in Xid : Outcome(z)' = Outcome(z)
  BY <1>1 DEF Outcome
<1>3. CASE executed' = executed
  <2>1. \A z \in Xid : Executions(z)' = Executions(z)
    BY <1>1, <1>3 DEF Executions
  <2>2. QED
    BY <1>2, <2>1, Unseen
<1>4. CASE executed' = [executed EXCEPT ![x] = @ + 1]
  <2>1. /\ \A z \in Xid : z # x => executed'[z] = executed[z]
        /\ executed'[x] = executed[x] + 1 /\ executed[x] \in Nat
    BY <1>4 DEF Inv, TypeOK
  <2>2. \A z \in Xid : z # x => Executions(z)' = Executions(z)
    BY <1>1, <2>1 DEF Executions
  <2>3. CASE header[x].srv = 0 /\ executed[x] > 0
    <3>1. Executions(x)' = Executions(x)
      BY <1>1, <2>1, <2>3 DEF Executions
    <3>2. QED
      BY <1>2, <2>2, <3>1, Unseen
  <2>4. CASE ~(header[x].srv = 0 /\ executed[x] > 0)
    <3>1. executed[x] = 0
      <4>1. header[x].srv # 0 => executed'[x] <= 1
        BY <1>1, DispatchInv DEF Inv, CountInv
      <4>2. QED
        BY <2>1, <2>4, <4>1
    <3>2. Executions(x) = 0 /\ Executions(x)' = 1
      BY <1>1, <2>1, <3>1, SMTT(60) DEF Executions
    <3>3. Outcome(x) # "none"
      BY <1>1 DEF Outcome, Started, Inv, TypeOK, Stage
    <3>4. QED
      BY <1>2, <2>2, <3>2, <3>3, Run
  <2>5. QED
    BY <2>3, <2>4
<1>5. QED
  BY <1>1, <1>3, <1>4

\* The rest of the server, and the network, is not seen by the callers.
LEMMA OthersUnseen ==
    ASSUME UNCHANGED <<stage, intret, header, executed>> PROVE UNCHANGED AMO!vars
<1>1. \A z \in Xid : Outcome(z)' = Outcome(z) /\ Executions(z)' = Executions(z)
  BY DEF Outcome, Executions
<1>2. QED
  BY <1>1, Unseen

\* Every step is one that at-most-once calls allow, or is not seen.
LEMMA StepRefines == Inv /\ [Next]_vars => [AMO!Next]_(AMO!vars)
<1> SUFFICES ASSUME Inv, [Next]_vars PROVE [AMO!Next]_(AMO!vars)
  OBVIOUS
<1>1. CASE UNCHANGED vars
  BY <1>1, OthersUnseen DEF vars, clientVars, serverVars
<1>2. ASSUME NEW x \in Xid, call1(x) \/ transmit(x) \/ retransmit(x) \/ call1_end(x)
      PROVE  [AMO!Next]_(AMO!vars)
  BY <1>2, Call1Refines, Call1EndRefines, ClientUnseen
<1>3. ASSUME cancel \/ cancel_return \/ \E m \in replies : rpcc_got_pdu(m)
      PROVE  UNCHANGED AMO!vars
  <2>1. CASE Xid = {}
    <3>1. \A z \in Xid : Outcome(z)' = Outcome(z) /\ Executions(z)' = Executions(z)
      BY <2>1
    <3>2. QED
      BY <3>1, Unseen
  <2>2. CASE Xid # {}
    BY <1>3, <2>2, ClientUnseen
  <2>3. QED
    BY <2>1, <2>2
<1>4. CASE ServerNext
  <2>1. ASSUME restart \/ \E x \in Xid, k \in Conn : dispatch_reply(x, k)
        PROVE  UNCHANGED AMO!vars
    BY <2>1, OthersUnseen, Zenon DEF restart, dispatch_reply, clientVars
  <2>2. QED
    BY <1>4, <2>1, DispatchRefines DEF ServerNext
<1>5. CASE NetNext
  BY <1>5, OthersUnseen DEF NetNext, client_closed, server_closed, clientVars, serverVars
<1>6. CASE ClientNext
  BY <1>2, <1>3, <1>6 DEF ClientNext
<1>7. QED
  BY <1>1, <1>4, <1>5, <1>6 DEF Next

\* To its callers the library is at-most-once calls: AtMostOnce describes all
\* that they can see, whatever is lost, sent again or restarted.
THEOREM ImplementsAtMostOnceCorrect == Spec => ImplementsAtMostOnce
<1>1. Init => AMO!Init
  BY DEF Init, AMO!Init, Outcome, Executions
<1>2. QED
  BY <1>1, Invariance, StepRefines, PTL DEF Spec, ImplementsAtMostOnce, AMO!Spec
=============================================================================
