------------------------ MODULE TransportLayerProofs ------------------------
(***************************************************************************)
(* Proofs about TransportLayer for any set of devices, any repetition      *)
(* limit and any bounds.  The invariant of one device, NodeInv, does not   *)
(* mention the bus: nothing a bus delivers can break it.                   *)
(***************************************************************************)
EXTENDS TransportRefinement, TLAPS

\* The strengthening of the three state invariants, for the state of one device.
NodeInv(s) ==
    /\ s \in NodeState
    /\ s.ackTimeoutEnabled <=> s.currentState = "OpenWait"
    /\ s.currentState = "OpenWait" => s.connectionTimeoutEnabled
    /\ s.currentState = "Closed" => ~s.connectionTimeoutEnabled
    /\ s.connectedTsap # NoTsap <=> s.currentState \in Open
    /\ s.connectedTsap \in {NoTsap, OwnTsap, s.connectionAddress}
    /\ s.currentState = "OpenWait" =>
          /\ s.savedFrame.seq = s.seqNoSend
          /\ s.savedFrame.id = s.sent
          /\ s.repCount <= MaxRepCount

Inv ==
    /\ tl \in [Node -> NodeState]
    /\ \A n \in Node : NodeInv(tl[n])
    /\ connects \in Nat /\ repeats \in Nat /\ crashes \in Nat

\* r differs from s in the transmit queue alone.
OnlyQueued(s, r) ==
    /\ r \in NodeState
    /\ r.currentState = s.currentState
    /\ r.connectionAddress = s.connectionAddress
    /\ r.seqNoSend = s.seqNoSend /\ r.seqNoRecv = s.seqNoRecv
    /\ r.connectionTimeoutEnabled = s.connectionTimeoutEnabled
    /\ r.ackTimeoutEnabled = s.ackTimeoutEnabled
    /\ r.repCount = s.repCount
    /\ r.savedFrame = s.savedFrame
    /\ r.savedConnecting = s.savedConnecting
    /\ r.connectedTsap = s.connectedTsap
    /\ r.unconfirmed = s.unconfirmed
    /\ r.conn = s.conn /\ r.sent = s.sent /\ r.delivered = s.delivered

\* The data link layer's queue takes a telegram and changes nothing else.
LEMMA QueueOnly ==
    ASSUME NEW s \in NodeState, NEW t \in Telegram
    PROVE  OnlyQueued(s, Queue(s, t))
<1>1. Append(s.tx, t) \in Seq(Telegram)
  BY DEF NodeState
<1>2. QED
  BY <1>1 DEF Queue, OnlyQueued, NodeState

\* So do the control telegrams.
LEMMA ControlOnly ==
    ASSUME NEW s \in NodeState, NEW type \in TpduType,
           NEW dst \in Node \cup {NoAddress}, NEW seq \in SeqNo
    PROVE  OnlyQueued(s, Control(s, type, dst, seq))
<1>1. 0 \in SeqNo
  BY TransportAssumption DEF SeqNo
<1>2. [type |-> type, dst |-> dst, seq |-> seq, tpci |-> 0, conn |-> s.conn, id |-> 0] \in Telegram
  BY <1>1 DEF Telegram, NodeState
<1>3. QED
  BY <1>2, QueueOnly DEF Control

\* A queued telegram cannot break the invariant of a device.
LEMMA OnlyQueuedInv ==
    ASSUME NEW s, NodeInv(s), NEW r, OnlyQueued(s, r)
    PROVE  NodeInv(r)
BY DEF NodeInv, OnlyQueued

\* _savedFrame is sent to the peer of the connection.
LEMMA SendSavedOnly ==
    ASSUME NEW s \in NodeState
    PROVE  OnlyQueued(s, SendSaved(s))
<1>1. [type |-> "DataConnected", dst |-> s.connectionAddress, seq |-> s.savedFrame.seq,
       tpci |-> s.savedFrame.tpci, conn |-> s.conn, id |-> s.savedFrame.id] \in Telegram
  BY DEF Telegram, TpduType, NodeState, SavedFrame
<1>2. QED
  BY <1>1, QueueOnly DEF SendSaved

\* Closing with A6 (E4, E8, E9, E11..E13, E16, E18, E25) from any state.
LEMMA CloseA6 ==
    ASSUME NEW s \in NodeState
    PROVE  NodeInv(A6(Close(s)))
<1>1. Close(s) \in NodeState
  BY DEF Close, NodeState, StateType
<1> DEFINE r == Control(Close(s), "Disconnect", Close(s).connectionAddress, 0)
<1>2. OnlyQueued(Close(s), r)
  <2>1. 0 \in SeqNo /\ "Disconnect" \in TpduType
    BY TransportAssumption DEF SeqNo, TpduType
  <2>2. Close(s).connectionAddress \in Node \cup {NoAddress}
    BY <1>1 DEF NodeState
  <2>3. QED
    BY <1>1, <2>1, <2>2, ControlOnly
<1>3. r \in NodeState /\ r.currentState = "Closed"
  BY <1>2 DEF OnlyQueued, Close, NodeState
<1>4. A6(Close(s)) = A5(r)
  BY DEF A6
<1> HIDE DEF r
<1>5. NodeInv(A5(r))
  BY <1>3 DEF NodeInv, A5, DisableTimeouts, NodeState, Open
<1>6. QED
  BY <1>4, <1>5

\* Closing without a telegram (E2).
LEMMA CloseA5 ==
    ASSUME NEW s \in NodeState
    PROVE  NodeInv(A5(Close(s)))
BY DEF NodeInv, A5, DisableTimeouts, Close, NodeState, StateType, Open

\* T_Disconnect to the connection address, in whatever state.
LEMMA DisconnectOnly ==
    ASSUME NEW s \in NodeState
    PROVE  OnlyQueued(s, Control(s, "Disconnect", s.connectionAddress, 0))
<1>1. 0 \in SeqNo /\ "Disconnect" \in TpduType /\ s.connectionAddress \in Node \cup {NoAddress}
  BY TransportAssumption DEF SeqNo, TpduType, NodeState
<1>2. QED
  BY <1>1, ControlOnly

\* Disconnecting at the application's request (E26).
LEMMA CloseA14 ==
    ASSUME NEW s \in NodeState
    PROVE  NodeInv(A14(Close(s)))
<1>1. Close(s) \in NodeState
  BY DEF Close, NodeState, StateType
<1> DEFINE r == Control(Close(s), "Disconnect", Close(s).connectionAddress, 0)
<1>2. r \in NodeState /\ r.currentState = "Closed"
  BY <1>1, DisconnectOnly DEF OnlyQueued, Close, NodeState
<1>3. A14(Close(s)) = A15(r)
  BY DEF A14
<1> HIDE DEF r
<1>4. NodeInv(A15(r))
  BY <1>2 DEF NodeInv, A15, DisableTimeouts, NodeState, Open
<1>5. QED
  BY <1>3, <1>4

LEMMA ClosedA15 ==
    ASSUME NEW s, NodeInv(s), s.currentState = "Closed"
    PROVE  NodeInv(A15(s))
BY DEF NodeInv, A15, DisableTimeouts, NodeState, Open

\* A connection is accepted (E0, E1): only a closed device does, whose
\* acknowledge timer is off.
LEMMA AcceptA1 ==
    ASSUME NEW s, NodeInv(s), s.currentState = "Closed", NEW m \in Node, NEW conn \in Nat
    PROVE  NodeInv(A1([s EXCEPT !.currentState = "OpenIdle"], m, conn))
<1>1. 0 \in SeqNo
  BY TransportAssumption DEF SeqNo
<1>2. m # NoTsap /\ m # OwnTsap
  BY AddressAssumption
<1>3. QED
  BY <1>1, <1>2 DEF NodeInv, A1, EnableConnectionTimeout, NodeState, StateType, Open

LEMMA RefuseA10 ==
    ASSUME NEW s, NodeInv(s), NEW m \in Node
    PROVE  NodeInv(A10(s, m))
<1>1. s \in NodeState /\ 0 \in SeqNo /\ "Disconnect" \in TpduType
  BY TransportAssumption DEF NodeInv, SeqNo, TpduType
<1>2. OnlyQueued(s, A10(s, m))
  BY <1>1, ControlOnly DEF A10
<1>3. QED
  BY <1>2, OnlyQueuedInv

\* Arming the connection timer of a device that is not closed.
LEMMA ArmConnection ==
    ASSUME NEW s, NodeInv(s), s.currentState # "Closed"
    PROVE  NodeInv(EnableConnectionTimeout(s))
BY DEF NodeInv, EnableConnectionTimeout, NodeState

\* A3 and A4 answer a repeated or unexpected telegram.
LEMMA AnswerA3A4 ==
    ASSUME NEW s, NodeInv(s), s.currentState # "Closed", NEW seq \in SeqNo
    PROVE  NodeInv(A3(s, seq)) /\ NodeInv(A4(s, seq))
<1>1. s \in NodeState /\ s.connectionAddress \in Node \cup {NoAddress}
  BY DEF NodeInv, NodeState
<1>2. ASSUME NEW type \in {"Ack", "Nack"}
      PROVE  NodeInv(EnableConnectionTimeout(Control(s, type, s.connectionAddress, seq)))
  <2> DEFINE r == Control(s, type, s.connectionAddress, seq)
  <2>1. type \in TpduType
    BY DEF TpduType
  <2>2. OnlyQueued(s, r)
    BY <1>1, <2>1, ControlOnly
  <2>3. NodeInv(r) /\ r.currentState # "Closed"
    BY <2>2, OnlyQueuedInv DEF OnlyQueued
  <2>4. QED
    BY <2>3, ArmConnection
<1>3. QED
  BY <1>2 DEF A3, A4

\* E6 while connecting: disconnected, but the state stays Connecting.
LEMMA ConnectingA6 ==
    ASSUME NEW s, NodeInv(s), s.currentState = "Connecting"
    PROVE  NodeInv(A6(s))
<1> DEFINE r == Control(s, "Disconnect", s.connectionAddress, 0)
<1>1. r \in NodeState /\ r.currentState = "Connecting"
  BY DisconnectOnly DEF NodeInv, OnlyQueued
<1>2. A6(s) = A5(r)
  BY DEF A6
<1> HIDE DEF r
<1>3. NodeInv(A5(r))
  BY <1>1 DEF NodeInv, A5, DisableTimeouts, NodeState, Open
<1>4. QED
  BY <1>2, <1>3

\* A7 numbers and sends a data request.
LEMMA NumberedType ==
    ASSUME NEW s \in NodeState, NEW tpci \in SeqNo
    PROVE  /\ Numbered(s, tpci) \in NodeState
           /\ Numbered(s, tpci).currentState = s.currentState
           /\ Numbered(s, tpci).connectedTsap = s.connectedTsap
           /\ Numbered(s, tpci).connectionAddress = s.connectionAddress
           /\ Numbered(s, tpci).savedFrame.seq = Numbered(s, tpci).seqNoSend
           /\ Numbered(s, tpci).savedFrame.id = Numbered(s, tpci).sent
<1> DEFINE f == [seq |-> s.seqNoSend, tpci |-> tpci, id |-> s.sent + 1]
           k == s.sent + 1
<1>1. f \in SavedFrame /\ f.seq = s.seqNoSend /\ f.id = k /\ k \in Nat
  BY DEF SavedFrame, NodeState
<1>2. Numbered(s, tpci) = [s EXCEPT !.savedFrame = f, !.sent = k]
  BY DEF Numbered, NodeState
<1> HIDE DEF f, k
<1>3. [s EXCEPT !.savedFrame = f, !.sent = k] \in NodeState
  BY <1>1 DEF NodeState
<1>4. QED
  BY <1>1, <1>2, <1>3 DEF NodeState

LEMMA RequestA7 ==
    ASSUME NEW s \in NodeState, s.currentState = "OpenWait", NEW tpci \in SeqNo,
           s.connectedTsap # NoTsap,
           s.connectedTsap \in {NoTsap, OwnTsap, s.connectionAddress}
    PROVE  NodeInv(A7(s, tpci)) /\ A7(s, tpci).currentState = "OpenWait"
<1> DEFINE r == SendSaved(Numbered(s, tpci))
<1>1. OnlyQueued(Numbered(s, tpci), r)
  BY NumberedType, SendSavedOnly
<1>2. A7(s, tpci) = EnableTimeouts([r EXCEPT !.repCount = 0])
  BY DEF A7
<1> HIDE DEF r
<1>3. /\ r \in NodeState /\ r.currentState = "OpenWait"
      /\ r.connectedTsap # NoTsap
      /\ r.connectedTsap \in {NoTsap, OwnTsap, r.connectionAddress}
      /\ r.savedFrame.seq = r.seqNoSend
      /\ r.savedFrame.id = r.sent
  BY <1>1, NumberedType DEF OnlyQueued
<1>4. 0 <= MaxRepCount /\ 0 \in Nat
  BY TransportAssumption
<1>5. NodeInv(EnableTimeouts([r EXCEPT !.repCount = 0]))
  BY <1>3, <1>4 DEF NodeInv, EnableTimeouts, NodeState, Open
<1>6. EnableTimeouts([r EXCEPT !.repCount = 0]).currentState = "OpenWait"
  BY <1>3 DEF EnableTimeouts, NodeState
<1>7. QED
  BY <1>2, <1>5, <1>6

\* A data request on an idle connection (E15) makes it wait.
LEMMA RequestIdle ==
    ASSUME NEW s, NodeInv(s), s.currentState = "OpenIdle", NEW tpci \in SeqNo
    PROVE  /\ NodeInv(DataConnectedRequest(s, tpci))
           /\ DataConnectedRequest(s, tpci).currentState = "OpenWait"
<1> DEFINE w == [s EXCEPT !.currentState = "OpenWait"]
<1>1. /\ w \in NodeState /\ w.currentState = "OpenWait"
      /\ w.connectedTsap # NoTsap
      /\ w.connectedTsap \in {NoTsap, OwnTsap, w.connectionAddress}
  BY DEF NodeInv, NodeState, StateType, Open
<1>2. DataConnectedRequest(s, tpci) = A7(w, tpci)
  BY DEF DataConnectedRequest
<1> HIDE DEF w
<1>3. QED
  BY <1>1, <1>2, RequestA7

LEMMA RequestInv ==
    ASSUME NEW s, NodeInv(s), NEW tpci \in SeqNo
    PROVE  NodeInv(DataConnectedRequest(s, tpci))
<1>1. CASE s.currentState = "Closed"
  BY <1>1 DEF DataConnectedRequest
<1>2. CASE s.currentState = "OpenIdle"
  BY <1>2, RequestIdle
<1>3. CASE s.currentState \notin {"Closed", "OpenIdle"}
  <2>1. DataConnectedRequest(s, tpci) = A11(s, tpci)
    BY <1>3 DEF DataConnectedRequest
  <2>2. tpci \in 0 .. SeqMod
    BY TransportAssumption DEF SeqNo
  <2>3. NodeInv(A11(s, tpci))
    BY <2>2 DEF NodeInv, A11, NodeState
  <2>4. QED
    BY <2>1, <2>3
<1>4. QED
  BY <1>1, <1>2, <1>3

\* A request leaves an open connection open.
LEMMA RequestStaysOpen ==
    ASSUME NEW s, NodeInv(s), s.currentState \in Open, NEW tpci \in SeqNo
    PROVE  DataConnectedRequest(s, tpci).currentState # "Closed"
<1>1. CASE s.currentState = "OpenIdle"
  BY <1>1, RequestIdle
<1>2. CASE s.currentState = "OpenWait"
  BY <1>2 DEF DataConnectedRequest, A11, NodeInv, NodeState
<1>3. QED
  BY <1>1, <1>2 DEF Open

LEMMA IncSeqNrType ==
    ASSUME NEW q \in SeqNo
    PROVE  IncSeqNr(q) \in SeqNo
BY TransportAssumption DEF IncSeqNr, SeqNo

\* A8: the awaited acknowledgement.
LEMMA AcknowledgedA8 ==
    ASSUME NEW s, NodeInv(s), s.currentState = "OpenWait"
    PROVE  NodeInv(A8([s EXCEPT !.currentState = "OpenIdle"]))
<1>1. IncSeqNr(s.seqNoSend) \in SeqNo
  BY IncSeqNrType DEF NodeInv, NodeState
<1>2. QED
  BY <1>1 DEF NodeInv, A8, EnableConnectionTimeout, NodeState, StateType, Open

\* A9: a repetition, of which there is one left.
LEMMA RepeatedA9 ==
    ASSUME NEW s, NodeInv(s), s.currentState = "OpenWait", s.repCount < MaxRepCount
    PROVE  NodeInv(A9(s))
<1> DEFINE r == SendSaved(s)
<1>1. OnlyQueued(s, r)
  BY SendSavedOnly DEF NodeInv
<1>2. A9(s) = EnableTimeouts([r EXCEPT !.repCount = @ + 1])
  BY DEF A9
<1>3. NodeInv(r) /\ r.currentState = "OpenWait" /\ r.repCount < MaxRepCount
  BY <1>1, OnlyQueuedInv DEF OnlyQueued
<1> HIDE DEF r
<1>4. r.repCount + 1 \in Nat /\ r.repCount + 1 <= MaxRepCount
  <2>1. r.repCount \in Nat
    BY <1>3 DEF NodeInv, NodeState
  <2>2. QED
    BY <1>3, <2>1, TransportAssumption
<1>5. NodeInv(EnableTimeouts([r EXCEPT !.repCount = @ + 1]))
  BY <1>3, <1>4 DEF NodeInv, EnableTimeouts, NodeState, Open
<1>6. QED
  BY <1>2, <1>5

\* A2: the expected telegram is indicated; the application may answer at once.
LEMMA IndicatedA2 ==
    ASSUME NEW s, NodeInv(s), s.currentState \in Open, NEW m \in Node,
           NEW t \in Telegram, NEW answer \in BOOLEAN
    PROVE  NodeInv(A2(s, m, t, answer))
<1> DEFINE ack == Control(s, "Ack", s.connectionAddress, s.seqNoRecv)
           d   == [id |-> t.id, sentIn |-> t.conn, gotIn |-> s.conn]
           ind == [ack EXCEPT !.seqNoRecv = IncSeqNr(@), !.delivered[m] = Append(@, d)]
<1>1. /\ s \in NodeState /\ s.seqNoRecv \in SeqNo /\ s.seqNoSend \in SeqNo
      /\ s.connectionAddress \in Node \cup {NoAddress} /\ s.conn \in Nat
  BY DEF NodeInv, NodeState
<1>2. "Ack" \in TpduType
  BY DEF TpduType
<1>3. OnlyQueued(s, ack)
  BY <1>1, <1>2, ControlOnly
<1>4. NodeInv(ack) /\ ack \in NodeState /\ ack.currentState \in Open
  BY <1>3, OnlyQueuedInv DEF OnlyQueued
<1>5. d \in Delivery
  BY <1>1 DEF Delivery, Telegram
<1>6. A2(s, m, t, answer) = EnableConnectionTimeout(
            IF answer THEN DataConnectedRequest(ind, s.seqNoSend) ELSE ind)
  BY DEF A2
<1> HIDE DEF ack, d
<1>7. IncSeqNr(ack.seqNoRecv) \in SeqNo
  BY <1>4, IncSeqNrType DEF NodeState
<1>8. [ack.delivered EXCEPT ![m] = Append(@, d)] \in [Node -> Seq(Delivery)]
  <2>1. ack.delivered \in [Node -> Seq(Delivery)]
    BY <1>4 DEF NodeState
  <2>2. Append(ack.delivered[m], d) \in Seq(Delivery)
    BY <2>1, <1>5
  <2>3. QED
    BY <2>1, <2>2
<1>9. NodeInv(ind) /\ ind.currentState \in Open
  <2> DEFINE q == IncSeqNr(ack.seqNoRecv)
             e == [ack.delivered EXCEPT ![m] = Append(@, d)]
  <2>1. ind = [ack EXCEPT !.seqNoRecv = q, !.delivered = e]
    BY <1>4 DEF NodeState
  <2> HIDE DEF q, e, ind
  <2>2. q \in SeqNo /\ e \in [Node -> Seq(Delivery)]
    BY <1>7, <1>8 DEF q, e
  <2>3. NodeInv([ack EXCEPT !.seqNoRecv = q, !.delivered = e])
    BY <2>2, <1>4 DEF NodeInv, NodeState
  <2>4. [ack EXCEPT !.seqNoRecv = q, !.delivered = e].currentState \in Open
    BY <2>2, <1>4 DEF NodeState
  <2>5. QED
    BY <2>1, <2>3, <2>4
<1> HIDE DEF ind
<1>10. CASE answer
  <2>1. NodeInv(DataConnectedRequest(ind, s.seqNoSend))
    BY <1>1, <1>9, RequestInv
  <2>2. DataConnectedRequest(ind, s.seqNoSend).currentState # "Closed"
    BY <1>1, <1>9, RequestStaysOpen
  <2>3. QED
    BY <1>6, <1>10, <2>1, <2>2, ArmConnection
<1>11. CASE ~answer
  BY <1>6, <1>9, <1>11, ArmConnection DEF Open
<1>12. QED
  BY <1>10, <1>11

\* E19 and E20: the telegram of a connection request went out, or not.
LEMMA ConfirmInv ==
    ASSUME NEW s, NodeInv(s), NEW status \in BOOLEAN
    PROVE  NodeInv(ConnectConfirm(s, status))
<1>1. CASE s.currentState = "Connecting" /\ status
  <2>1. ConnectConfirm(s, status) = A13([s EXCEPT !.currentState = "OpenIdle"])
    BY <1>1 DEF ConnectConfirm
  <2>2. NodeInv(A13([s EXCEPT !.currentState = "OpenIdle"]))
    BY <1>1 DEF NodeInv, A13, NodeState, StateType, Open, NoTsap, OwnTsap
  <2>3. QED
    BY <2>1, <2>2
<1>2. CASE s.currentState = "Connecting" /\ ~status
  <2>1. ConnectConfirm(s, status) = A5(s)
    BY <1>2 DEF ConnectConfirm
  <2>2. NodeInv(A5(s))
    BY <1>2 DEF NodeInv, A5, DisableTimeouts, NodeState, Open
  <2>3. QED
    BY <2>1, <2>2
<1>3. CASE s.currentState # "Connecting"
  BY <1>3 DEF ConnectConfirm
<1>4. QED
  BY <1>1, <1>2, <1>3

\* A12: a connection request, whatever the data link layer makes of it.
LEMMA RequestedA12 ==
    ASSUME NEW s, NodeInv(s), s.currentState = "Closed", NEW destination \in Node,
           NEW conn \in Nat, NEW con \in {"now", "later", "refused"}
    PROVE  NodeInv(A12([s EXCEPT !.currentState = "Connecting"], destination, conn, con))
<1> DEFINE c   == [s EXCEPT !.currentState = "Connecting"]
           adr == [c EXCEPT !.connectionAddress = destination, !.conn = conn]
           que == Control(adr, "Connect", destination, 0)
           req == CASE con = "refused" -> ConnectConfirm(adr, FALSE)
                    [] con = "now"     -> ConnectConfirm(que, TRUE)
                    [] con = "later"   -> [que EXCEPT !.unconfirmed = @ + 1]
<1>1. /\ s \in NodeState /\ ~s.ackTimeoutEnabled /\ s.connectedTsap = NoTsap
      /\ 0 \in SeqNo /\ "Connect" \in TpduType
  BY TransportAssumption DEF NodeInv, NodeState, Open, SeqNo, TpduType
<1>2. NodeInv(adr) /\ adr \in NodeState /\ adr.currentState = "Connecting"
  BY <1>1 DEF NodeInv, NodeState, StateType, Open
<1>3. A12(c, destination, conn, con)
        = EnableConnectionTimeout([req EXCEPT !.seqNoRecv = 0, !.seqNoSend = 0])
  BY DEF A12
<1> HIDE DEF adr
<1>4. OnlyQueued(adr, que)
  BY <1>1, <1>2, ControlOnly
<1>5. NodeInv(que) /\ que \in NodeState /\ que.currentState = "Connecting"
  BY <1>2, <1>4, OnlyQueuedInv DEF OnlyQueued
<1> HIDE DEF que
<1>6. NodeInv(req) /\ req.currentState \in {"Connecting", "OpenIdle"}
  <2>1. CASE con = "refused"
    <3>1. req = ConnectConfirm(adr, FALSE)
      BY <2>1
    <3>2. ConnectConfirm(adr, FALSE).currentState = "Connecting"
      BY <1>2 DEF ConnectConfirm, A5, DisableTimeouts, NodeState
    <3>3. QED
      BY <1>2, <3>1, <3>2, ConfirmInv
  <2>2. CASE con = "now"
    <3>1. req = ConnectConfirm(que, TRUE)
      BY <2>2
    <3>2. ConnectConfirm(que, TRUE).currentState = "OpenIdle"
      BY <1>5 DEF ConnectConfirm, A13, NodeState
    <3>3. QED
      BY <1>5, <3>1, <3>2, ConfirmInv
  <2>3. CASE con = "later"
    <3>1. req = [que EXCEPT !.unconfirmed = @ + 1]
      BY <2>3
    <3>2. NodeInv([que EXCEPT !.unconfirmed = @ + 1])
      <4>1. que.unconfirmed + 1 \in Nat
        BY <1>5 DEF NodeState
      <4>2. QED
        BY <1>5, <4>1, ZenonT(60) DEF NodeInv, NodeState
    <3>3. [que EXCEPT !.unconfirmed = @ + 1].currentState = "Connecting"
      BY <1>5 DEF NodeState
    <3>4. QED
      BY <3>1, <3>2, <3>3
  <2>4. QED
    BY <2>1, <2>2, <2>3
<1> HIDE DEF req
<1>7. NodeInv(EnableConnectionTimeout([req EXCEPT !.seqNoRecv = 0, !.seqNoSend = 0]))
  BY <1>1, <1>6 DEF NodeInv, EnableConnectionTimeout, NodeState
<1>8. QED
  BY <1>3, <1>7

\* A power cycle keeps only what the observer counts.
LEMMA PowerCycleInv ==
    ASSUME NEW s \in NodeState
    PROVE  NodeInv([InitNode EXCEPT !.sent = s.sent, !.delivered = s.delivered])
<1>1. 0 \in SeqNo /\ NotSaved \in 0 .. SeqMod
  BY TransportAssumption DEF SeqNo, NotSaved
<1>2. <<>> \in Seq(Telegram) /\ s.sent \in Nat /\ s.delivered \in [Node -> Seq(Delivery)]
  BY DEF NodeState
<1>3. [seq |-> 0, tpci |-> 0, id |-> 0] \in SavedFrame
  BY <1>1 DEF SavedFrame
<1>4. QED
  BY <1>1, <1>2, <1>3, ZenonT(60) DEF NodeInv, InitNode, NodeState, StateType, Open

-----------------------------------------------------------------------------
(* The transition system. *)

LEMMA InitInv == Init => Inv
<1> SUFFICES ASSUME Init PROVE Inv
  OBVIOUS
<1>1. 0 \in SeqNo /\ NotSaved \in 0 .. SeqMod
  BY TransportAssumption DEF SeqNo, NotSaved
<1>2. [m \in Node |-> <<>>] \in [Node -> Seq(Delivery)]
  OBVIOUS
<1>3. [seq |-> 0, tpci |-> 0, id |-> 0] \in SavedFrame
  BY <1>1 DEF SavedFrame
<1>4. <<>> \in Seq(Telegram)
  OBVIOUS
<1>5. NodeInv(InitNode)
  BY <1>1, <1>2, <1>3, <1>4 DEF NodeInv, InitNode, NodeState, StateType, Open
<1>6. InitNode \in NodeState
  BY <1>5 DEF NodeInv
<1>7. QED
  BY <1>5, <1>6 DEF Init, Inv

\* A telegram is taken from a queue.
LEMMA TakenInv ==
    ASSUME NEW s, NodeInv(s), s.tx # <<>>
    PROVE  NodeInv([s EXCEPT !.tx = Tail(@)])
<1>1. Tail(s.tx) \in Seq(Telegram)
  BY DEF NodeInv, NodeState
<1>2. QED
  BY <1>1 DEF NodeInv, NodeState

\* One device changes to a state that satisfies its invariant.
LEMMA BecomesInv ==
    ASSUME Inv, NEW n \in Node, NEW s, NodeInv(s), Becomes(n, s)
    PROVE  tl' \in [Node -> NodeState] /\ \A k \in Node : NodeInv(tl'[k])
<1>1. s \in NodeState
  BY DEF NodeInv
<1>2. QED
  BY <1>1 DEF Becomes, Inv

\* A telegram is handled with such a result.
LEMMA HandledInv ==
    ASSUME Inv, NEW m \in Node, NEW n \in Node, m # n, tl[m].tx # <<>>,
           NEW s, NodeInv(s), Handled(m, n, s)
    PROVE  Inv'
<1>1. s \in NodeState
  BY DEF NodeInv
<1> DEFINE u == [tl[m] EXCEPT !.tx = Tail(@)]
<1>2. NodeInv(u) /\ u \in NodeState
  BY TakenInv DEF Inv, NodeInv
<1>3. CASE tl' = [tl EXCEPT ![m].tx = Tail(@), ![n] = s] /\ UNCHANGED repeats
  <2>1. tl' = [tl EXCEPT ![m] = u, ![n] = s]
    BY <1>3 DEF Inv
  <2> HIDE DEF u
  <2>2. tl' \in [Node -> NodeState] /\ \A k \in Node : NodeInv(tl'[k])
    BY <1>1, <1>2, <2>1 DEF Inv
  <2>3. QED
    BY <1>3, <2>2 DEF Inv, Handled
<1>4. CASE tl' = [tl EXCEPT ![n] = s] /\ repeats' = repeats + 1
  <2>1. tl' \in [Node -> NodeState] /\ \A k \in Node : NodeInv(tl'[k])
    BY <1>1, <1>4 DEF Inv
  <2>2. QED
    BY <1>4, <2>1 DEF Inv, Handled
<1>5. QED
  BY <1>3, <1>4 DEF Handled

\* Facts about an arriving telegram.
LEMMA ArrivedType ==
    ASSUME Inv, NEW m \in Node, NEW n \in Node, NEW type, Arrives(m, n, type)
    PROVE  /\ m # n /\ tl[m].tx # <<>>
           /\ HeadOf(m) \in Telegram
           /\ HeadOf(m).seq \in SeqNo /\ HeadOf(m).conn \in Nat
           /\ NodeInv(tl[n]) /\ tl[n] \in NodeState
<1>1. tl[m].tx \in Seq(Telegram) /\ tl[m].tx # <<>>
  BY DEF Inv, NodeState, Arrives
<1>2. HeadOf(m) \in Telegram
  BY <1>1 DEF HeadOf
<1>3. QED
  BY <1>1, <1>2 DEF Arrives, Inv, Telegram

\* dataIndividualIndication preserves the invariant, whatever the telegram.
LEMMA IndicationInv ==
    ASSUME Inv, NEW m \in Node, NEW n \in Node, Indication(m, n)
    PROVE  Inv'
<1> DEFINE s == tl[n]
           t == HeadOf(m)
<1>0. \E type : Arrives(m, n, type)
  BY DEF Indication, E0, E1, E2, E3, E4, E5, E6, E7E10E14, E8, E9, E11, E12, E13
<1>t. /\ m # n /\ tl[m].tx # <<>> /\ t \in Telegram
      /\ t.seq \in SeqNo /\ t.conn \in Nat /\ NodeInv(s) /\ s \in NodeState
  BY <1>0, ArrivedType
<1>d. s.currentState \in StateType
  BY <1>t DEF NodeState
<1>a. ASSUME NEW r, NodeInv(r), Handled(m, n, r)
      PROVE  Inv'
  BY <1>t, <1>a, HandledInv
<1>1. CASE E0(m, n)
  BY <1>1, <1>t, <1>a, AcceptA1 DEF E0
<1>2. CASE E1(m, n)
  BY <1>2, <1>t, <1>a, AcceptA1, RefuseA10 DEF E1
<1>3. CASE E2(m, n)
  BY <1>3, <1>t, <1>a, CloseA5 DEF E2
<1>4. CASE E3(m, n)
  BY <1>4, <1>t, <1>a DEF E3
<1>5. CASE E4(m, n)
  BY <1>5, <1>t, <1>a, IndicatedA2, CloseA6 DEF E4
<1>6. CASE E5(m, n)
  BY <1>6, <1>t, <1>a, AnswerA3A4 DEF E5
<1>7. CASE E6(m, n)
  <2>1. CASE s.currentState \in Open /\ Handled(m, n, A4(s, t.seq))
    BY <2>1, <1>t, <1>a, AnswerA3A4 DEF Open
  <2>2. CASE s.currentState = "Connecting" /\ Handled(m, n, A6(s))
    BY <2>2, <1>t, <1>a, ConnectingA6
  <2>3. CASE Handled(m, n, s)
    BY <2>3, <1>t, <1>a
  <2>4. QED
    BY <1>7, <2>1, <2>2, <2>3 DEF E6
<1>8. CASE E7E10E14(m, n)
  BY <1>8, <1>t, <1>a, RefuseA10 DEF E7E10E14
<1>9. CASE E8(m, n)
  BY <1>9, <1>t, <1>a, AcknowledgedA8, CloseA6 DEF E8
<1>10. CASE E9(m, n)
  BY <1>10, <1>t, <1>a, CloseA6 DEF E9
<1>11. CASE E11(m, n)
  BY <1>11, <1>t, <1>a, CloseA6 DEF E11
<1>12. CASE E12(m, n)
  BY <1>12, <1>t, <1>a, CloseA6, RepeatedA9 DEF E12
<1>13. CASE E13(m, n)
  BY <1>13, <1>t, <1>a, CloseA6 DEF E13
<1>14. QED
  BY <1>1, <1>2, <1>3, <1>4, <1>5, <1>6, <1>7, <1>8, <1>9, <1>10, <1>11, <1>12, <1>13
     DEF Indication

\* loop() preserves the invariant, whichever timers have expired.
LEMMA LoopInv ==
    ASSUME Inv, NEW n \in Node, Loop(n)
    PROVE  Inv'
<1> DEFINE s == tl[n]
           r == A6(Close(s))
<1>1. s \in NodeState /\ NodeInv(s)
  BY DEF Inv
<1>2. NodeInv(r)
  BY <1>1, CloseA6
<1>3. NodeInv([r EXCEPT !.savedConnecting = NotSaved])
  <2> HIDE DEF r
  <2>1. NotSaved \in 0 .. SeqMod
    BY TransportAssumption DEF NotSaved
  <2>2. QED
    BY <1>2, <2>1 DEF NodeInv, NodeState
<1>4. ASSUME NEW q, NodeInv(q), Becomes(n, q), UNCHANGED <<connects, repeats, crashes>>
      PROVE  Inv'
  BY <1>4, BecomesInv DEF Inv
<1>5. CASE LoopConnectionTimeout(n)
  BY <1>5, <1>3, <1>4 DEF LoopConnectionTimeout
<1>6. CASE LoopAckTimeout(n)
  BY <1>6, <1>1, <1>3, <1>4, RepeatedA9 DEF LoopAckTimeout
<1>7. CASE LoopSavedRequest(n)
  <2> DEFINE q == [s EXCEPT !.savedConnecting = NotSaved]
  <2>1. NotSaved \in 0 .. SeqMod
    BY TransportAssumption DEF NotSaved
  <2>2. NodeInv(q)
    BY <1>1, <2>1 DEF NodeInv, NodeState
  <2>3. s.savedConnecting \in SeqNo
    <3>1. s.savedConnecting \in 0 .. SeqMod
      BY <1>1 DEF NodeState
    <3>2. s.savedConnecting # SeqMod
      BY <1>7 DEF LoopSavedRequest, NotSaved
    <3>3. QED
      BY <3>1, <3>2, TransportAssumption DEF SeqNo
  <2> HIDE DEF q
  <2>4. NodeInv(DataConnectedRequest(q, s.savedConnecting))
    BY <2>2, <2>3, RequestInv
  <2>5. QED
    BY <1>7, <1>4, <2>4 DEF LoopSavedRequest, q
<1>8. QED
  BY <1>5, <1>6, <1>7 DEF Loop

\* The requests of the application and the confirmations of the bus.
LEMMA RequestsInv ==
    ASSUME Inv, NEW n \in Node,
           \/ E19E20(n) \/ E15(n) \/ E26(n) \/ PowerCycle(n) \/ LoseTelegram(n)
           \/ \E destination \in Node : E25(n, destination)
    PROVE  Inv'
<1> DEFINE s == tl[n]
<1>1. s \in NodeState /\ NodeInv(s) /\ s.seqNoSend \in SeqNo
  BY DEF Inv, NodeState
<1>2. ASSUME NEW q, NodeInv(q), Becomes(n, q), connects' \in Nat, repeats' \in Nat, crashes' \in Nat
      PROVE  Inv'
  BY <1>2, BecomesInv DEF Inv
<1>c. connects \in Nat /\ repeats \in Nat /\ crashes \in Nat
  BY DEF Inv
<1>3. CASE E19E20(n)
  <2>1. PICK status \in BOOLEAN :
           Becomes(n, [ConnectConfirm(s, status) EXCEPT !.unconfirmed = @ - 1])
    BY <1>3 DEF E19E20
  <2> DEFINE r == ConnectConfirm(s, status)
  <2>2. NodeInv(r)
    BY <1>1, ConfirmInv
  <2>3. r.unconfirmed = s.unconfirmed /\ s.unconfirmed > 0 /\ s.unconfirmed \in Nat
    BY <1>1, <1>3 DEF ConnectConfirm, A13, A5, DisableTimeouts, NodeState, E19E20
  <2> HIDE DEF r
  <2>4. r.unconfirmed - 1 \in Nat
    BY <2>3
  <2>5. NodeInv([r EXCEPT !.unconfirmed = @ - 1])
    BY <2>2, <2>4 DEF NodeInv, NodeState
  <2>6. QED
    BY <1>2, <1>3, <1>c, <2>1, <2>5 DEF E19E20, r
<1>4. CASE E15(n)
  BY <1>4, <1>1, <1>2, <1>c, RequestInv DEF E15
<1>5. CASE E26(n)
  BY <1>5, <1>1, <1>2, <1>c, ClosedA15, CloseA14 DEF E26
<1>6. CASE PowerCycle(n)
  <2> DEFINE q == [InitNode EXCEPT !.sent = s.sent, !.delivered = s.delivered]
  <2>1. NodeInv(q)
    BY <1>1, PowerCycleInv
  <2>2. /\ Becomes(n, q) /\ crashes' = crashes + 1
        /\ connects' = connects /\ repeats' = repeats
    BY <1>6 DEF PowerCycle
  <2> HIDE DEF q
  <2>3. connects' \in Nat /\ repeats' \in Nat /\ crashes' \in Nat
    BY <1>c, <2>2
  <2>4. QED
    BY <1>2, <2>1, <2>2, <2>3
<1>7. CASE LoseTelegram(n)
  <2> DEFINE q == [s EXCEPT !.tx = Tail(@)]
  <2>1. NodeInv(q)
    BY <1>1, <1>7, TakenInv DEF LoseTelegram
  <2>2. Becomes(n, q) /\ UNCHANGED <<connects, repeats, crashes>>
    BY <1>7 DEF LoseTelegram
  <2> HIDE DEF q
  <2>3. QED
    BY <1>2, <1>c, <2>1, <2>2
<1>8. ASSUME NEW destination \in Node, E25(n, destination)
      PROVE  Inv'
  <2>1. CASE s.currentState = "Closed"
    <3>1. /\ connects' = connects + 1 /\ UNCHANGED <<repeats, crashes>>
          /\ \E con \in {"now", "later", "refused"} :
                Becomes(n, A12([s EXCEPT !.currentState = "Connecting"], destination, connects', con))
      BY <1>8, <2>1 DEF E25
    <3>2. connects' \in Nat
      BY <3>1, <1>c
    <3>3. QED
      BY <1>1, <1>2, <1>c, <2>1, <3>1, <3>2, RequestedA12
  <2>2. CASE s.currentState # "Closed"
    BY <1>8, <2>2, <1>1, <1>2, <1>c, CloseA6 DEF E25
  <2>3. QED
    BY <2>1, <2>2
<1>9. QED
  BY <1>3, <1>4, <1>5, <1>6, <1>7, <1>8

LEMMA NextInv == Inv /\ [Next]_vars => Inv'
<1> SUFFICES ASSUME Inv, [Next]_vars PROVE Inv'
  OBVIOUS
<1>1. CASE UNCHANGED vars
  BY <1>1 DEF vars, Inv
<1>2. CASE Next
  <2>1. ASSUME NEW m \in Node, NEW n \in Node, Indication(m, n) PROVE Inv'
    BY <2>1, IndicationInv
  <2>2. ASSUME NEW n \in Node, Loop(n) PROVE Inv'
    BY <2>2, LoopInv
  <2>3. Connector \subseteq Node
    BY TransportAssumption
  <2>4. QED
    BY <1>2, <2>1, <2>2, <2>3, RequestsInv DEF Next
<1>3. QED
  BY <1>1, <1>2

THEOREM InvAlways == Spec => []Inv
BY InitInv, NextInv, PTL DEF Spec

\* The variables keep their types.
THEOREM TypeCorrect == Spec => []TypeOK
<1>1. Inv => TypeOK
  BY DEF Inv, TypeOK
<1>2. QED
  BY <1>1, InvAlways, PTL

\* The timers follow the state of every connection, for any number of devices
\* and whatever the bus delivers, repeats, loses or confirms.
THEOREM TimersAlwaysFollow == Spec => []TimersFollowState
<1>1. Inv => TimersFollowState
  BY DEF Inv, NodeInv, TimersFollowState
<1>2. QED
  BY <1>1, InvAlways, PTL

\* The application's idea of being connected follows the state.
THEOREM ApplicationAlwaysFollows == Spec => []ApplicationFollowsState
<1>1. Inv => ApplicationFollowsState
  BY DEF Inv, NodeInv, ApplicationFollowsState
<1>2. QED
  BY <1>1, InvAlways, PTL

\* The telegram a waiting device repeats is the one it awaits the answer to, and
\* is repeated at most _maxRepCount times.
THEOREM AlwaysAwaitsSavedFrame == Spec => []AwaitsSavedFrame
<1>1. Inv => AwaitsSavedFrame
  BY DEF Inv, NodeInv, AwaitsSavedFrame
<1>2. QED
  BY <1>1, InvAlways, PTL

\* Timers, saved telegram and application agree with the state of every connection.
THEOREM ConnectionAlwaysConsistent == Spec => []ConnectionConsistent
BY TimersAlwaysFollow, ApplicationAlwaysFollows, AlwaysAwaitsSavedFrame, PTL DEF ConnectionConsistent

-----------------------------------------------------------------------------
(* Sequence numbers, modulo SeqMod *)

\* The sequence number q goes with the telegram that has the number id, in a connection
\* where 0 goes with b.
Aligned(b, q, id) == (b + q) % SeqMod = id % SeqMod

\* A number is a multiple of SeqMod and its remainder.
LEMMA Quotient ==
    ASSUME NEW x \in Nat
    PROVE  \E k \in Nat : x = SeqMod * k + (x % SeqMod) /\ x % SeqMod \in 0 .. SeqMod - 1
<1>1. x = SeqMod * (x \div SeqMod) + (x % SeqMod) /\ x \div SeqMod \in Nat /\ x % SeqMod \in 0 .. SeqMod - 1
  BY TransportAssumption
<1>2. QED
  BY <1>1

\* Different multiples of SeqMod are at least SeqMod apart.
LEMMA Multiples ==
    ASSUME NEW k \in Nat, NEW l \in Nat, k < l
    PROVE  SeqMod * k + SeqMod <= SeqMod * l
<1>1. PICK j \in Nat : l = k + 1 + j
  <2>1. l - k - 1 \in Nat /\ l = k + 1 + (l - k - 1)
    OBVIOUS
  <2>2. QED
    BY <2>1
<1>2. SeqMod * l = SeqMod * k + SeqMod + SeqMod * j /\ SeqMod * j \in Nat /\ SeqMod * k \in Nat
  BY <1>1, TransportAssumption
<1>3. QED
  BY <1>2, TransportAssumption

\* What is above a multiple is the remainder.
LEMMA Remainder ==
    ASSUME NEW k \in Nat, NEW r \in 0 .. SeqMod - 1
    PROVE  (SeqMod * k + r) % SeqMod = r
<1> DEFINE x == SeqMod * k + r
<1>1. x \in Nat /\ SeqMod * k \in Nat /\ x = SeqMod * k + r
  BY TransportAssumption
<1> HIDE DEF x
<1>2. PICK l \in Nat : x = SeqMod * l + (x % SeqMod) /\ x % SeqMod \in 0 .. SeqMod - 1
  BY <1>1, Quotient
<1>3. ~(k < l) /\ ~(l < k)
  <2>1. k < l => SeqMod * k + SeqMod <= SeqMod * l
    BY Multiples
  <2>2. l < k => SeqMod * l + SeqMod <= SeqMod * k
    BY Multiples
  <2>3. SeqMod * l \in Nat
    BY TransportAssumption
  <2>4. QED
    BY <1>1, <1>2, <2>1, <2>2, <2>3, TransportAssumption
<1>4. k = l
  BY <1>3
<1>5. x % SeqMod = r
  BY <1>1, <1>2, <1>4, TransportAssumption
<1>6. QED
  BY <1>5 DEF x

\* The remainder counts on, and wraps.
LEMMA Successor ==
    ASSUME NEW x \in Nat
    PROVE  (x + 1) % SeqMod = IF x % SeqMod = SeqMod - 1 THEN 0 ELSE (x % SeqMod) + 1
<1>1. PICK k \in Nat : x = SeqMod * k + (x % SeqMod) /\ x % SeqMod \in 0 .. SeqMod - 1
  BY Quotient
<1>2. CASE x % SeqMod = SeqMod - 1
  <2>1. x + 1 = SeqMod * (k + 1) + 0
    BY <1>1, <1>2, TransportAssumption
  <2>2. (SeqMod * (k + 1) + 0) % SeqMod = 0
    BY Remainder, TransportAssumption
  <2>3. QED
    BY <1>2, <2>1, <2>2
<1>3. CASE x % SeqMod # SeqMod - 1
  <2> DEFINE r == (x % SeqMod) + 1
  <2>1. r \in 0 .. SeqMod - 1 /\ SeqMod * k \in Nat
    BY <1>1, <1>3, TransportAssumption
  <2>2. x + 1 = SeqMod * k + r
    BY <1>1, <2>1, TransportAssumption
  <2> HIDE DEF r
  <2>3. (x + 1) % SeqMod = r
    BY <2>1, <2>2, Remainder
  <2>4. QED
    BY <1>3, <2>3 DEF r
<1>4. QED
  BY <1>2, <1>3

\* incSeqNr adds 1 modulo SeqMod.
LEMMA IncSeqNrAdds ==
    ASSUME NEW b \in Nat, NEW q \in SeqNo
    PROVE  (b + IncSeqNr(q)) % SeqMod = ((b + q) + 1) % SeqMod
<1>0. q \in 0 .. SeqMod - 1 /\ IncSeqNr(q) = (q + 1) % SeqMod
  BY DEF SeqNo, IncSeqNr
<1>1. CASE q + 1 < SeqMod
  <2>1. (q + 1) % SeqMod = q + 1 /\ IncSeqNr(q) = q + 1
    BY <1>0, <1>1, TransportAssumption
  <2>2. b + (q + 1) = (b + q) + 1
    BY <1>0
  <2>3. QED
    BY <2>1, <2>2
<1>2. CASE q = SeqMod - 1
  <2>1. IncSeqNr(q) = 0 /\ (b + q) + 1 = b + SeqMod
    BY <1>0, <1>2, TransportAssumption
  <2>2. PICK k \in Nat : b = SeqMod * k + (b % SeqMod) /\ b % SeqMod \in 0 .. SeqMod - 1
    BY Quotient
  <2> DEFINE r == b % SeqMod
  <2>3. r \in 0 .. SeqMod - 1 /\ b = SeqMod * k + r /\ SeqMod * k \in Nat
    BY <2>2, TransportAssumption
  <2> HIDE DEF r
  <2>4. b + SeqMod = SeqMod * (k + 1) + r
    BY <2>3, TransportAssumption
  <2>5. (b + SeqMod) % SeqMod = r /\ b % SeqMod = r
    BY <2>3, <2>4, Remainder
  <2>6. b + 0 = b
    OBVIOUS
  <2>7. QED
    BY <2>1, <2>5, <2>6
<1>3. QED
  BY <1>0, <1>1, <1>2, TransportAssumption

\* Numbers with the same sequence number less than a round apart are equal.
LEMMA SameRound ==
    ASSUME NEW x \in Nat, NEW y \in Nat, x % SeqMod = y % SeqMod, x <= y, y < x + SeqMod
    PROVE  x = y
<1>1. PICK k \in Nat : x = SeqMod * k + (x % SeqMod) /\ x % SeqMod \in 0 .. SeqMod - 1
  BY Quotient
<1>2. PICK l \in Nat : y = SeqMod * l + (y % SeqMod) /\ y % SeqMod \in 0 .. SeqMod - 1
  BY Quotient
<1> DEFINE r == x % SeqMod
<1>3. r \in 0 .. SeqMod - 1 /\ x = SeqMod * k + r /\ y = SeqMod * l + r /\ SeqMod * k \in Nat /\ SeqMod * l \in Nat
  BY <1>1, <1>2, TransportAssumption
<1> HIDE DEF r
<1>4. ~(k < l) /\ ~(l < k)
  <2>1. k < l => SeqMod * k + SeqMod <= SeqMod * l
    BY Multiples
  <2>2. l < k => SeqMod * l + SeqMod <= SeqMod * k
    BY Multiples
  <2>3. QED
    BY <1>3, <2>1, <2>2, TransportAssumption
<1>5. k = l
  BY <1>4
<1>6. QED
  BY <1>3, <1>5

\* Numbers that go together stay together.
LEMMA AlignedNext ==
    ASSUME NEW b \in Nat, NEW q \in SeqNo, NEW id \in Nat, Aligned(b, q, id)
    PROVE  Aligned(b, IncSeqNr(q), id + 1)
<1>1. b + q \in Nat /\ (b + q) % SeqMod = id % SeqMod
  BY TransportAssumption DEF Aligned, SeqNo
<1>2. (b + IncSeqNr(q)) % SeqMod = ((b + q) + 1) % SeqMod
  BY IncSeqNrAdds
<1>3. ((b + q) + 1) % SeqMod = (id + 1) % SeqMod
  <2> DEFINE x == b + q
  <2>1. x \in Nat /\ x % SeqMod = id % SeqMod
    BY <1>1
  <2> HIDE DEF x
  <2>2. (x + 1) % SeqMod = (id + 1) % SeqMod
    BY <2>1, Successor
  <2>3. QED
    BY <2>2 DEF x
<1>4. QED
  BY <1>2, <1>3 DEF Aligned

-----------------------------------------------------------------------------
(* The order of telegrams: no reasoning about acknowledgements is needed.  A   *)
(* number belongs to one sequence number and one connection of its sender, and *)
(* leaves in order; once it is delivered, the receiver expects the sequence    *)
(* number after it until a T_Connect sent after its last copy arrives.         *)

DataOf(s)     == {i \in 1 .. Len(s.tx) : s.tx[i].type = "DataConnected"}
ConnectsOf(s) == {i \in 1 .. Len(s.tx) : s.tx[i].type = "Connect"}
Waits(s)      == s.currentState = "OpenWait"

\* _seqNoSend goes with the telegram that has this number.
Due(s) == IF Waits(s) THEN s.sent ELSE s.sent + 1

\* The queue of a sender: numbers in order, the copies of one alike and together; and the
\* one it waits for is the last.
SenderInv(s) ==
    /\ Waits(s) => s.sent > 0
    /\ \A i \in DataOf(s) : s.tx[i].id > 0 /\ s.tx[i].id <= s.sent
    /\ \A i, j \in DataOf(s) : i < j =>
          /\ s.tx[i].id <= s.tx[j].id
          /\ s.tx[i].id = s.tx[j].id =>
                /\ s.tx[i].seq = s.tx[j].seq /\ s.tx[i].conn = s.tx[j].conn
                /\ \A k \in ConnectsOf(s) : ~(i < k /\ k < j)
    /\ \A i \in DataOf(s) : Waits(s) /\ s.tx[i].id = s.sent =>
          /\ s.tx[i].seq = s.savedFrame.seq /\ s.tx[i].conn = s.conn
          /\ \A k \in ConnectsOf(s) : k < i

\* A connection is opened before it is used; c connections were requested so far.
SenderConns(s, c) ==
    /\ s.conn <= c /\ (s.currentState # "Closed" => s.conn > 0)
    /\ \A i \in DataOf(s) \cup ConnectsOf(s) : s.tx[i].conn > 0 /\ s.tx[i].conn <= c
    /\ \A i \in DataOf(s), k \in ConnectsOf(s) : i < k => s.tx[i].conn # s.tx[k].conn

\* What r's application got of m
Got(r, m) == {r.delivered[m][i] : i \in 1 .. Len(r.delivered[m])}

\* r expects the sequence number after the telegram with this number.
Expects(s, r, id) ==
    /\ \A i \in DataOf(s) : s.tx[i].id = id => r.seqNoRecv = IncSeqNr(s.tx[i].seq)
    /\ Waits(s) /\ s.sent = id => r.seqNoRecv = IncSeqNr(s.savedFrame.seq)

\* What still comes from s, the state of m, is not older than what r got.
FifoInv(s, r, m, c) ==
    \A e \in Got(r, m) :
       /\ e.gotIn <= c /\ e.id <= s.sent
       /\ \A i \in DataOf(s) : e.id <= s.tx[i].id /\ (e.id = s.tx[i].id => e.sentIn = s.tx[i].conn)
       /\ Waits(s) /\ e.id = s.sent => e.sentIn = s.conn

\* A device that never connects: a T_Connect of m comes after all copies of what it got.
ServerInv(s, r, m) ==
    \A e \in Got(r, m) :
       /\ \A k \in ConnectsOf(s) :
            /\ \A i \in DataOf(s) : k < i => e.id < s.tx[i].id
            /\ Waits(s) => e.id < s.sent
       /\ r.currentState \in Open /\ r.connectionAddress = m => Expects(s, r, e.id)

\* A device that may connect as well
ConnInv(s, r, m) ==
    \A e \in Got(r, m) :
       /\ r.currentState = "Connecting" => e.gotIn # r.conn
       /\ InConnection(e) /\ e.gotIn = r.conn /\ r.currentState \in Open =>
             r.connectionAddress = m /\ Expects(s, r, e.id)

\* Connection k is between x[k], which requested it, and y[k].
Belongs(s, p, x, y) ==
    /\ s.conn > 0 => p \in {x[s.conn], y[s.conn]}
    /\ \A i \in DataOf(s) : p \in {x[s.tx[i].conn], y[s.tx[i].conn]}
    /\ \A i \in ConnectsOf(s) : p = x[s.tx[i].conn] /\ s.tx[i].dst = y[s.tx[i].conn]

EndsOf(f, x, y) == \A p \in Node : Belongs(f[p], p, x, y)

Ends(f, c) == \E x, y \in [1 .. c -> Node] : (\A k \in 1 .. c : x[k] # y[k]) /\ EndsOf(f, x, y)

\* A T_Connect still to come opens no connection in which its receiver got anything.
NotAgain(f) ==
    \A p, n, m \in Node : \A i \in ConnectsOf(f[p]) : f[p].tx[i].dst = n =>
        \A e \in Got(f[n], m) : ~(InConnection(e) /\ e.gotIn = f[p].tx[i].conn)

InOrder(d) ==
    \A i, j \in 1 .. Len(d) :
        i < j /\ InConnection(d[i]) /\ InConnection(d[j]) => d[i].id < d[j].id

Senders(f, c) ==
    \A m \in Node : SenderInv(f[m]) /\ SenderConns(f[m], c) /\ f[m].delivered[m] = <<>>

Pairs(f, c) == \A m, n \in Node : FifoInv(f[m], f[n], m, c) /\ ConnInv(f[m], f[n], m)

Servers(f) ==
    /\ \A n \in Server : f[n].currentState # "Connecting"
    /\ \A m \in Node, n \in Server : ServerInv(f[m], f[n], m)

Deliveries(f) == \A m, n \in Node : InOrder(f[n].delivered[m])

Order(f, c) ==
    /\ f \in [Node -> NodeState] /\ c \in Nat
    /\ Senders(f, c) /\ Pairs(f, c) /\ Servers(f)
    /\ Ends(f, c) /\ NotAgain(f) /\ Deliveries(f)

\* Which telegrams a connection has, and where their sequence numbers start: h[i] is the
\* connection in which s numbered the telegram i, and in connection k the sequence number 0
\* goes with b[k].  The telegrams of a connection follow each other.
Writes(s, h, b, c) ==
    /\ \A i \in DataOf(s) : /\ h[s.tx[i].id] = s.tx[i].conn
                            /\ Aligned(b[s.tx[i].conn], s.tx[i].seq, s.tx[i].id)
    /\ Waits(s) => h[s.sent] = s.conn
    /\ s.currentState # "Closed" =>
          /\ Aligned(b[s.conn], s.seqNoSend, Due(s))
          /\ \A i \in 1 .. s.sent : h[i] = s.conn => \A k \in i .. s.sent : h[k] = s.conn
    /\ \A i, j, k \in 1 .. s.sent : i < j /\ j < k /\ h[i] = h[k] => h[j] = h[i]
    /\ \A i \in 1 .. s.sent : h[i] <= c

\* Between two telegrams of a connection that follow each other in d, only whole rounds of
\* sequence numbers are missing.
InRounds(d) ==
    \A i, j \in 1 .. Len(d) :
        /\ i < j /\ InConnection(d[i]) /\ InConnection(d[j]) /\ d[i].gotIn = d[j].gotIn
        /\ \A k \in i + 1 .. j - 1 : ~InConnection(d[k])
        => d[j].id % SeqMod = (d[i].id + 1) % SeqMod

\* d is what a device got of one with this h.
Records(d, h) ==
    /\ \A i \in 1 .. Len(d) : d[i].id > 0 /\ h[d[i].id] = d[i].sentIn
    /\ \A i, j \in 1 .. Len(d) : i < j => d[i].id <= d[j].id
    /\ InRounds(d)

\* What r got in its present connection is the last it got; it expects the telegram after it.
Continues(r, d, b) ==
    \A i \in 1 .. Len(d) : r.currentState \in Open /\ InConnection(d[i]) /\ d[i].gotIn = r.conn =>
        /\ \A j \in i .. Len(d) : d[j].gotIn = r.conn
        /\ i = Len(d) => Aligned(b[r.conn], r.seqNoRecv, d[i].id + 1)

\* Both of what r got of one device
Reads(r, d, h, b) == Records(d, h) /\ Continues(r, d, b)

\* A device to which a T_Connect is under way has not been in that connection,
Pending(f, h) ==
    \A p, n \in Node : \A i \in ConnectsOf(f[p]) : f[p].tx[i].dst = n =>
        /\ f[n].conn # f[p].tx[i].conn
        /\ \A k \in 1 .. f[n].sent : h[n][k] # f[p].tx[i].conn

\* and there is one T_Connect of a connection.
OneConnect(f) ==
    \A p, q \in Node : \A i \in ConnectsOf(f[p]), j \in ConnectsOf(f[q]) :
        f[p].tx[i].conn = f[q].tx[j].conn => p = q /\ i = j

\* All of it, of all devices
RoundsOf(f, c, h, b) ==
    /\ \A m \in Node : Writes(f[m], h[m], b[m], c)
    /\ \A m, n \in Node : Reads(f[n], f[n].delivered[m], h[m], b[m])
    /\ Pending(f, h) /\ OneConnect(f)

\* The connections of a device's telegrams, and the starts of its connections
Numbering == [Node -> [Nat -> Nat]]

\* The ghosts h and b exist: the devices keep neither.
Rounds(f, c) == \E h, b \in Numbering : RoundsOf(f, c, h, b)

LEMMA NodeTypes ==
    ASSUME NEW s \in NodeState
    PROVE  /\ s.sent \in Nat /\ s.conn \in Nat /\ s.tx \in Seq(Telegram)
           /\ s.seqNoRecv \in SeqNo /\ s.savedFrame \in SavedFrame /\ s.savedFrame.seq \in SeqNo
           /\ \A i \in 1 .. Len(s.tx) : /\ s.tx[i] \in Telegram /\ s.tx[i].id \in Nat
                                        /\ s.tx[i].conn \in Nat /\ s.tx[i].seq \in SeqNo
           /\ \A m \in Node : \A e \in Got(s, m) : e \in Delivery /\ e.id \in Nat
                                                   /\ e.sentIn \in Nat /\ e.gotIn \in Nat
<1>1. /\ s.sent \in Nat /\ s.conn \in Nat /\ s.tx \in Seq(Telegram)
      /\ s.seqNoRecv \in SeqNo /\ s.savedFrame \in SavedFrame
      /\ s.delivered \in [Node -> Seq(Delivery)]
  BY DEF NodeState
<1>2. s.savedFrame.seq \in SeqNo
  BY <1>1 DEF SavedFrame
<1>3. \A i \in 1 .. Len(s.tx) : s.tx[i] \in Telegram
  BY <1>1
<1>4. \A t \in Telegram : t.id \in Nat /\ t.conn \in Nat /\ t.seq \in SeqNo
  BY DEF Telegram
<1>5. \A m \in Node : \A e \in Got(s, m) : e \in Delivery
  BY <1>1 DEF Got
<1>6. \A e \in Delivery : e.id \in Nat /\ e.sentIn \in Nat /\ e.gotIn \in Nat
  BY DEF Delivery
<1>7. QED
  BY <1>1, <1>2, <1>3, <1>4, <1>5, <1>6

\* r numbers its telegrams as s does.
SameNumbers(s, r) == \A b \in Nat : Aligned(b, s.seqNoSend, Due(s)) => Aligned(b, r.seqNoSend, Due(r))

\* A queue out of which telegrams were taken, or into which others were put
Sub(q, p) ==
    \E g \in Nat : \A i \in 1 .. Len(q) : q[i].type \in {"DataConnected", "Connect"} =>
        i + g <= Len(p) /\ q[i] = p[i + g]

\* A step that neither opens a connection nor numbers, sends or indicates a telegram
Calm(s, r) ==
    /\ s \in NodeState /\ r \in NodeState
    /\ Sub(r.tx, s.tx)
    /\ r.sent = s.sent /\ r.delivered = s.delivered
    /\ Waits(r) => Waits(s) /\ r.savedFrame.seq = s.savedFrame.seq
    /\ r.currentState # "Closed" =>
          s.currentState # "Closed" /\ r.conn = s.conn /\ SameNumbers(s, r)
    /\ r.currentState = "Connecting" => s.currentState = "Connecting"
    /\ r.currentState \in Open =>
          \/ s.currentState = "Connecting"
          \/ /\ s.currentState \in Open
             /\ r.connectionAddress = s.connectionAddress /\ r.seqNoRecv = s.seqNoRecv
    /\ r.conn \in {s.conn, 0}

LEMMA CalmQueue ==
    ASSUME NEW s, NEW r, Calm(s, r)
    PROVE  \E g \in Nat :
              /\ \A i \in DataOf(r) : i \in Nat /\ i + g \in DataOf(s) /\ r.tx[i] = s.tx[i + g]
              /\ \A i \in ConnectsOf(r) : i \in Nat /\ i + g \in ConnectsOf(s) /\ r.tx[i] = s.tx[i + g]
<1>1. r.tx \in Seq(Telegram) /\ s.tx \in Seq(Telegram)
  BY DEF Calm, NodeState
<1>2. PICK g \in Nat : \A i \in 1 .. Len(r.tx) : r.tx[i].type \in {"DataConnected", "Connect"} =>
                          i + g <= Len(s.tx) /\ r.tx[i] = s.tx[i + g]
  BY DEF Calm, Sub
<1>3. \A i \in 1 .. Len(r.tx) : i \in Nat /\ (i + g <= Len(s.tx) => i + g \in 1 .. Len(s.tx))
  BY <1>1
<1>4. QED
  BY <1>2, <1>3 DEF DataOf, ConnectsOf

LEMMA CalmSender ==
    ASSUME NEW s, NEW r, NEW c, Calm(s, r), SenderInv(s), SenderConns(s, c), c \in Nat
    PROVE  SenderInv(r) /\ SenderConns(r, c)
<1>1. PICK g \in Nat :
          /\ \A i \in DataOf(r) : i \in Nat /\ i + g \in DataOf(s) /\ r.tx[i] = s.tx[i + g]
          /\ \A i \in ConnectsOf(r) : i \in Nat /\ i + g \in ConnectsOf(s) /\ r.tx[i] = s.tx[i + g]
  BY CalmQueue, SMTT(60)
<1>2. /\ r.sent = s.sent
      /\ Waits(r) => Waits(s) /\ r.savedFrame.seq = s.savedFrame.seq /\ r.conn = s.conn
  BY DEF Calm, Waits
<1>3. SenderInv(r)
  <2>1. Waits(r) => r.sent > 0
    BY <1>2 DEF SenderInv
  <2>2. \A i \in DataOf(r) : r.tx[i].id > 0 /\ r.tx[i].id <= r.sent
    BY <1>1, <1>2 DEF SenderInv
  <2>3. ASSUME NEW i \in DataOf(r), NEW j \in DataOf(r), i < j
        PROVE  /\ r.tx[i].id <= r.tx[j].id
               /\ r.tx[i].id = r.tx[j].id =>
                     /\ r.tx[i].seq = r.tx[j].seq /\ r.tx[i].conn = r.tx[j].conn
                     /\ \A k \in ConnectsOf(r) : ~(i < k /\ k < j)
    <3>1. i + g \in DataOf(s) /\ j + g \in DataOf(s) /\ i + g < j + g
      BY <1>1, <2>3
    <3>2. \A k \in ConnectsOf(r) : k + g \in ConnectsOf(s)
                                   /\ (i < k /\ k < j => i + g < k + g /\ k + g < j + g)
      BY <1>1
    <3>3. QED
      BY <1>1, <3>1, <3>2 DEF SenderInv
  <2>4. ASSUME NEW i \in DataOf(r), Waits(r), r.tx[i].id = r.sent
        PROVE  /\ r.tx[i].seq = r.savedFrame.seq /\ r.tx[i].conn = r.conn
               /\ \A k \in ConnectsOf(r) : k < i
    <3>1. i + g \in DataOf(s) /\ r.tx[i] = s.tx[i + g]
      BY <1>1
    <3>2. \A k \in ConnectsOf(r) : k + g \in ConnectsOf(s) /\ (k + g < i + g => k < i)
      BY <1>1
    <3>3. QED
      BY <1>2, <2>4, <3>1, <3>2 DEF SenderInv
  <2>5. QED
    BY <2>1, <2>2, <2>3, <2>4 DEF SenderInv
<1>4. SenderConns(r, c)
  <2>1. r.conn <= c /\ (r.currentState # "Closed" => r.conn > 0)
    BY DEF Calm, SenderConns
  <2>2. \A i \in DataOf(r) \cup ConnectsOf(r) : r.tx[i].conn > 0 /\ r.tx[i].conn <= c
    BY <1>1 DEF SenderConns
  <2>3. ASSUME NEW i \in DataOf(r), NEW k \in ConnectsOf(r), i < k
        PROVE  r.tx[i].conn # r.tx[k].conn
    <3>1. i + g < k + g
      BY <1>1, <2>3
    <3>2. QED
      BY <1>1, <3>1 DEF SenderConns
  <2>4. QED
    BY <2>1, <2>2, <2>3 DEF SenderConns
<1>5. QED
  BY <1>3, <1>4

\* A calm step of the sender, and one of the receiver
LEMMA CalmPair ==
    ASSUME NEW s, NEW r, NEW c, NEW q, NEW m, Calm(s, r)
    PROVE  /\ FifoInv(s, q, m, c) => FifoInv(r, q, m, c)
           /\ ConnInv(s, q, m) => ConnInv(r, q, m)
           /\ ServerInv(s, q, m) => ServerInv(r, q, m)
<1>1. PICK g \in Nat :
          /\ \A i \in DataOf(r) : i \in Nat /\ i + g \in DataOf(s) /\ r.tx[i] = s.tx[i + g]
          /\ \A i \in ConnectsOf(r) : i \in Nat /\ i + g \in ConnectsOf(s) /\ r.tx[i] = s.tx[i + g]
  BY CalmQueue
<1>2. /\ r.sent = s.sent
      /\ Waits(r) => Waits(s) /\ r.savedFrame.seq = s.savedFrame.seq /\ r.conn = s.conn
  BY DEF Calm, Waits
<1>3. \A id : Expects(s, q, id) => Expects(r, q, id)
  BY <1>1, <1>2 DEF Expects
<1>4. ASSUME FifoInv(s, q, m, c) PROVE FifoInv(r, q, m, c)
  BY <1>1, <1>2, <1>4 DEF FifoInv
<1>5. ASSUME ConnInv(s, q, m) PROVE ConnInv(r, q, m)
  BY <1>3, <1>5 DEF ConnInv
<1>6. ASSUME ServerInv(s, q, m) PROVE ServerInv(r, q, m)
  <2>1. \A k \in ConnectsOf(r), i \in DataOf(r) : k < i => k + g < i + g
    BY <1>1
  <2>2. QED
    BY <1>1, <1>2, <1>3, <1>6, <2>1 DEF ServerInv
<1>7. QED
  BY <1>4, <1>5, <1>6

LEMMA CalmReceiver ==
    ASSUME NEW q, NEW r, NEW c, NEW s, NEW m, Calm(q, r)
    PROVE  /\ FifoInv(s, q, m, c) => FifoInv(s, r, m, c)
           /\ ConnInv(s, q, m) => ConnInv(s, r, m)
           /\ q.currentState # "Connecting" /\ ServerInv(s, q, m) => ServerInv(s, r, m)
<1>1. Got(r, m) = Got(q, m)
  BY DEF Got, Calm
<1>2. \A id : r.seqNoRecv = q.seqNoRecv /\ Expects(s, q, id) => Expects(s, r, id)
  BY DEF Expects
<1>3. ASSUME FifoInv(s, q, m, c) PROVE FifoInv(s, r, m, c)
  BY <1>1, <1>3 DEF FifoInv
<1>4. ASSUME ConnInv(s, q, m) PROVE ConnInv(s, r, m)
  BY <1>1, <1>2, <1>4 DEF ConnInv, Calm, Open
<1>5. ASSUME q.currentState # "Connecting", ServerInv(s, q, m) PROVE ServerInv(s, r, m)
  BY <1>1, <1>2, <1>5 DEF ServerInv, Calm
<1>6. QED
  BY <1>3, <1>4, <1>5

LEMMA CalmStep ==
    ASSUME NEW f, NEW c, Order(f, c), NEW n \in Node, NEW r, Calm(f[n], r)
    PROVE  Order([f EXCEPT ![n] = r], c)
<1> DEFINE g == [f EXCEPT ![n] = r]
<1>1. /\ f \in [Node -> NodeState] /\ c \in Nat /\ r \in NodeState
      /\ g \in [Node -> NodeState] /\ g[n] = r
      /\ \A p \in Node : p # n => g[p] = f[p]
      /\ r.delivered = f[n].delivered
  BY DEF Order, Calm
<1> HIDE DEF g
<1>2. Senders(g, c)
  BY <1>1, CalmSender DEF Order, Senders
<1>3. ASSUME NEW m \in Node, NEW p \in Node
      PROVE  /\ FifoInv(g[m], g[p], m, c) /\ ConnInv(g[m], g[p], m)
             /\ p \in Server => ServerInv(g[m], g[p], m)
  <2>1. /\ FifoInv(f[m], f[p], m, c) /\ ConnInv(f[m], f[p], m)
        /\ p \in Server => ServerInv(f[m], f[p], m)
        /\ p \in Server => f[p].currentState # "Connecting"
    BY DEF Order, Pairs, Servers
  <2>2. /\ FifoInv(g[m], f[p], m, c) /\ ConnInv(g[m], f[p], m)
        /\ p \in Server => ServerInv(g[m], f[p], m)
    BY <1>1, <2>1, CalmPair
  <2>3. QED
    BY <1>1, <2>1, <2>2, CalmReceiver
<1>4. Pairs(g, c) /\ Servers(g)
  <2>1. \A p \in Server : p \in Node /\ g[p].currentState # "Connecting"
    BY <1>1 DEF Order, Calm, Server, Servers
  <2>2. QED
    BY <1>3, <2>1 DEF Pairs, Servers
<1>5. PICK k \in Nat :
          /\ \A i \in DataOf(r) : i \in Nat /\ i + k \in DataOf(f[n]) /\ r.tx[i] = f[n].tx[i + k]
          /\ \A i \in ConnectsOf(r) : i \in Nat /\ i + k \in ConnectsOf(f[n]) /\ r.tx[i] = f[n].tx[i + k]
  BY CalmQueue, SMTT(60)
<1>6. Ends(g, c)
  <2>1. PICK x, y \in [1 .. c -> Node] : (\A i \in 1 .. c : x[i] # y[i]) /\ EndsOf(f, x, y)
    BY DEF Order, Ends
  <2>2. r.conn > 0 => r.conn = f[n].conn
    BY DEF Calm
  <2>3. EndsOf(g, x, y)
    <3>1. Belongs(f[n], n, x, y)
      BY <2>1 DEF EndsOf
    <3>2. Belongs(r, n, x, y)
      <4>1. r.conn > 0 => n \in {x[r.conn], y[r.conn]}
        BY <2>2, <3>1 DEF Belongs
      <4>2. \A i \in DataOf(r) : n \in {x[r.tx[i].conn], y[r.tx[i].conn]}
        BY <1>5, <3>1 DEF Belongs
      <4>3. \A i \in ConnectsOf(r) : n = x[r.tx[i].conn] /\ r.tx[i].dst = y[r.tx[i].conn]
        BY <1>5, <3>1 DEF Belongs
      <4>4. QED
        BY <4>1, <4>2, <4>3 DEF Belongs
    <3>3. QED
      BY <1>1, <2>1, <3>2 DEF EndsOf
  <2>4. QED
    BY <2>1, <2>3 DEF Ends
<1>7. NotAgain(g)
  <2>1. \A p, m \in Node : Got(g[p], m) = Got(f[p], m)
    BY <1>1 DEF Got
  <2>2. \A p \in Node : \A i \in ConnectsOf(g[p]) :
            \E j \in ConnectsOf(f[p]) : g[p].tx[i] = f[p].tx[j]
    BY <1>1, <1>5
  <2>3. QED
    BY <2>1, <2>2 DEF Order, NotAgain
<1>8. Deliveries(g)
  BY <1>1 DEF Order, Deliveries
<1>9. Order(g, c)
  BY <1>1, <1>2, <1>4, <1>6, <1>7, <1>8 DEF Order
<1>10. QED
  BY <1>9 DEF g

\* A T_Connect is accepted (A1).
Accepts(s, r, m, conn) ==
    /\ r \in NodeState
    /\ r.tx = s.tx /\ r.sent = s.sent /\ r.delivered = s.delivered
    /\ r.currentState = "OpenIdle" /\ r.connectionAddress = m /\ r.conn = conn
    /\ r.seqNoSend = 0

LEMMA AcceptStep ==
    ASSUME NEW f, NEW c, Order(f, c), NEW n \in Node, NEW m \in Node,
           f[m].tx # <<>>, Head(f[m].tx).type = "Connect", Head(f[m].tx).dst = n,
           NEW r, Accepts(f[n], r, m, Head(f[m].tx).conn)
    PROVE  Order([f EXCEPT ![n] = r], c)
<1> DEFINE g == [f EXCEPT ![n] = r]
           h == f[m].tx[1]
<1>1. /\ f \in [Node -> NodeState] /\ c \in Nat /\ r \in NodeState
      /\ g \in [Node -> NodeState] /\ g[n] = r
      /\ \A p \in Node : p # n => g[p] = f[p]
      /\ r.delivered = f[n].delivered /\ r.tx = f[n].tx /\ r.sent = f[n].sent
      /\ ~Waits(r) /\ r.currentState = "OpenIdle"
  BY DEF Order, Accepts, Waits
<1>2. /\ 1 \in ConnectsOf(f[m]) /\ h.type = "Connect" /\ h.dst = n
      /\ r.conn = h.conn /\ r.connectionAddress = m
      /\ h.conn > 0 /\ h.conn <= c
      /\ \A i \in DataOf(f[m]) : 1 < i
  <2>1. f[m].tx \in Seq(Telegram) /\ f[m].tx # <<>>
    BY <1>1 DEF NodeState
  <2>2. Head(f[m].tx) = h /\ 1 \in 1 .. Len(f[m].tx)
    BY <2>1
  <2>3. h.type = "Connect" /\ h.dst = n /\ r.conn = h.conn /\ r.connectionAddress = m
    BY <2>2 DEF Accepts
  <2>4. 1 \in ConnectsOf(f[m])
    BY <2>2, <2>3 DEF ConnectsOf
  <2>5. \A i \in DataOf(f[m]) : i \in 1 .. Len(f[m].tx) /\ i # 1
    BY <2>3 DEF DataOf
  <2>6. h.conn > 0 /\ h.conn <= c
    BY <2>4 DEF Order, Senders, SenderConns
  <2>7. QED
    BY <2>1, <2>3, <2>4, <2>5, <2>6
<1> HIDE DEF g, h
<1>3. /\ \A p, q \in Node : Got(g[p], q) = Got(f[p], q)
      /\ \A p \in Node : DataOf(g[p]) = DataOf(f[p]) /\ ConnectsOf(g[p]) = ConnectsOf(f[p])
      /\ \A p \in Node : g[p].tx = f[p].tx /\ g[p].delivered = f[p].delivered /\ g[p].sent = f[p].sent
      /\ \A p \in Node : Waits(g[p]) => Waits(f[p]) /\ g[p] = f[p]
  BY <1>1 DEF Got, DataOf, ConnectsOf
<1>4. \A p \in Node : SenderInv(g[p]) /\ SenderConns(g[p], c) /\ g[p].delivered[p] = <<>>
  <2> SUFFICES ASSUME NEW p \in Node
               PROVE  SenderInv(g[p]) /\ SenderConns(g[p], c) /\ g[p].delivered[p] = <<>>
    OBVIOUS
  <2>1. SenderInv(f[p]) /\ SenderConns(f[p], c) /\ f[p].delivered[p] = <<>>
    BY DEF Order, Senders
  <2>2. CASE p # n
    BY <1>1, <2>1, <2>2
  <2>3. CASE p = n
    <3>1. SenderInv(r)
      BY <1>1, <1>3, <2>1, <2>3 DEF SenderInv
    <3>2. SenderConns(r, c)
      BY <1>1, <1>2, <1>3, <2>1, <2>3 DEF SenderConns
    <3>3. QED
      BY <1>1, <2>1, <2>3, <3>1, <3>2
  <2>4. QED
    BY <2>2, <2>3
<1>5. ASSUME NEW q \in Node, NEW p \in Node
      PROVE  /\ FifoInv(g[q], g[p], q, c) /\ ConnInv(g[q], g[p], q)
             /\ p \in Server => ServerInv(g[q], g[p], q)
  <2>1. /\ FifoInv(f[q], f[p], q, c) /\ ConnInv(f[q], f[p], q)
        /\ p \in Server => ServerInv(f[q], f[p], q)
    BY DEF Order, Pairs, Servers
  <2>2. FifoInv(g[q], g[p], q, c)
    BY <1>3, <2>1 DEF FifoInv
  <2>3. \A id : Expects(f[q], f[p], id) /\ p # n => Expects(g[q], g[p], id)
    BY <1>1, <1>3 DEF Expects
  <2>4. CASE p # n
    <3>1. g[p] = f[p]
      BY <1>1, <2>4
    <3>2. ConnInv(g[q], g[p], q)
      BY <1>3, <2>1, <2>3, <2>4, <3>1 DEF ConnInv
    <3>3. p \in Server => ServerInv(g[q], g[p], q)
      BY <1>3, <2>1, <2>3, <2>4, <3>1 DEF ServerInv
    <3>4. QED
      BY <2>2, <3>2, <3>3
  <2>5. CASE p = n
    <3>1. \A e \in Got(f[n], q) : ~(InConnection(e) /\ e.gotIn = r.conn)
      BY <1>2 DEF Order, NotAgain, h
    <3>2. ConnInv(g[q], g[p], q)
      BY <1>1, <1>3, <2>5, <3>1 DEF ConnInv
    <3>3. ASSUME p \in Server PROVE ServerInv(g[q], g[p], q)
      <4>1. ASSUME q = m, NEW e \in Got(f[n], q)
            PROVE  Expects(g[q], r, e.id)
        <5>1. \A i \in DataOf(f[m]) : e.id < f[m].tx[i].id
          BY <1>2, <2>1, <2>5, <3>3, <4>1 DEF ServerInv
        <5>2. Waits(f[m]) => e.id < f[m].sent
          BY <1>2, <2>1, <2>5, <3>3, <4>1 DEF ServerInv
        <5>3. e.id \in Nat
          BY <1>1, NodeTypes
        <5>4. \A i \in DataOf(f[m]) : f[m].tx[i].id \in Nat
          BY <1>1, NodeTypes DEF DataOf
        <5>5. f[m].sent \in Nat
          BY <1>1, NodeTypes
        <5>6. QED
          BY <1>3, <4>1, <5>1, <5>2, <5>3, <5>4, <5>5 DEF Expects
      <4>2. QED
        BY <1>1, <1>2, <1>3, <2>1, <2>5, <3>3, <4>1 DEF ServerInv
    <3>4. QED
      BY <2>2, <3>2, <3>3
  <2>6. QED
    BY <2>4, <2>5
<1>6. Pairs(g, c) /\ Servers(g)
  <2>1. \A p \in Server : p \in Node /\ g[p].currentState # "Connecting"
    BY <1>1 DEF Order, Server, Servers
  <2>2. QED
    BY <1>5, <2>1 DEF Pairs, Servers
<1>7. Ends(g, c)
  <2>1. PICK x, y \in [1 .. c -> Node] : (\A i \in 1 .. c : x[i] # y[i]) /\ EndsOf(f, x, y)
    BY DEF Order, Ends
  <2>2. n = y[h.conn]
    BY <1>2, <2>1 DEF EndsOf, Belongs, h
  <2>3. EndsOf(g, x, y)
    <3>1. Belongs(f[n], n, x, y)
      BY <2>1 DEF EndsOf
    <3>2. DataOf(r) = DataOf(f[n]) /\ ConnectsOf(r) = ConnectsOf(f[n]) /\ r.tx = f[n].tx
      BY <1>1, <1>3, SMTT(60)
    <3>3. Belongs(r, n, x, y)
      BY <1>2, <2>2, <3>1, <3>2 DEF Belongs
    <3>4. QED
      BY <1>1, <2>1, <3>3 DEF EndsOf
  <2>4. QED
    BY <2>1, <2>3 DEF Ends
<1>8. NotAgain(g)
  BY <1>3 DEF Order, NotAgain
<1>9. Deliveries(g)
  BY <1>3 DEF Order, Deliveries
<1>10. Order(g, c)
  BY <1>1, <1>4, <1>6, <1>7, <1>8, <1>9 DEF Order, Senders
<1>11. QED
  BY <1>10 DEF g

\* A device changes; what the pairs of devices it is in must keep
LEMMA Changed ==
    ASSUME NEW f, NEW c, Order(f, c), NEW n \in Node, NEW r \in NodeState, NEW d \in Nat,
           SenderInv(r), SenderConns(r, d), r.delivered[n] = <<>>,
           \A p \in Node : p # n => SenderConns(f[p], d),
           \A m \in Node : m # n => /\ FifoInv(f[m], r, m, d) /\ ConnInv(f[m], r, m)
                                    /\ FifoInv(r, f[m], n, d) /\ ConnInv(r, f[m], n)
                                    /\ n \in Server => ServerInv(f[m], r, m)
                                    /\ m \in Server => ServerInv(r, f[m], n),
           \A m, p \in Node : m # n /\ p # n => FifoInv(f[m], f[p], m, d),
           n \in Server => r.currentState # "Connecting",
           \A m \in Node : InOrder(r.delivered[m]),
           Ends([f EXCEPT ![n] = r], d), NotAgain([f EXCEPT ![n] = r])
    PROVE  Order([f EXCEPT ![n] = r], d)
<1> DEFINE g == [f EXCEPT ![n] = r]
<1>1. /\ f \in [Node -> NodeState] /\ g \in [Node -> NodeState] /\ g[n] = r
      /\ \A p \in Node : p # n => g[p] = f[p]
  BY DEF Order
<1>2. Ends(g, d) /\ NotAgain(g)
  OBVIOUS
<1> HIDE DEF g
<1>3. Senders(g, d)
  BY <1>1 DEF Order, Senders
<1>4. Got(r, n) = {}
  BY DEF Got
<1>5. FifoInv(r, r, n, d) /\ ConnInv(r, r, n) /\ ServerInv(r, r, n)
  BY <1>4 DEF FifoInv, ConnInv, ServerInv
<1>6. ASSUME NEW m \in Node, NEW p \in Node
      PROVE  /\ FifoInv(g[m], g[p], m, d) /\ ConnInv(g[m], g[p], m)
             /\ p \in Server => ServerInv(g[m], g[p], m)
  <2>1. /\ ConnInv(f[m], f[p], m)
        /\ p \in Server => ServerInv(f[m], f[p], m)
    BY DEF Order, Pairs, Servers
  <2>2. CASE m # n /\ p # n
    BY <1>1, <2>1, <2>2
  <2>3. CASE m = n /\ p = n
    BY <1>1, <1>5, <2>3
  <2>4. CASE m # n /\ p = n
    BY <1>1, <2>4
  <2>5. CASE m = n /\ p # n
    BY <1>1, <2>5
  <2>6. QED
    BY <2>2, <2>3, <2>4, <2>5
<1>7. Pairs(g, d) /\ Servers(g)
  <2>1. \A p \in Server : p \in Node /\ g[p].currentState # "Connecting"
    BY <1>1 DEF Order, Server, Servers
  <2>2. QED
    BY <1>6, <2>1 DEF Pairs, Servers
<1>8. Deliveries(g)
  BY <1>1 DEF Order, Deliveries
<1>9. Order(g, d)
  BY <1>1, <1>2, <1>3, <1>7, <1>8 DEF Order
<1>10. QED
  BY <1>9 DEF g

\* What a pair of devices keeps when neither the sender's telegrams nor the receiver change
SameTelegrams(s, r) == r.tx = s.tx /\ r.delivered = s.delivered

LEMMA SameQueues ==
    ASSUME NEW s, NEW r, SameTelegrams(s, r)
    PROVE  /\ DataOf(r) = DataOf(s) /\ ConnectsOf(r) = ConnectsOf(s) /\ r.tx = s.tx
           /\ \A m : Got(r, m) = Got(s, m)
BY DEF SameTelegrams, DataOf, ConnectsOf, Got

\* A telegram is numbered (A7).
Numbers(s, r) ==
    /\ s \in NodeState /\ r \in NodeState /\ SameTelegrams(s, r)
    /\ s.currentState = "OpenIdle" /\ r.currentState = "OpenWait"
    /\ r.sent = s.sent + 1 /\ r.conn = s.conn /\ r.seqNoRecv = s.seqNoRecv
    /\ r.connectionAddress = s.connectionAddress /\ r.seqNoSend = s.seqNoSend

LEMMA NumberStep ==
    ASSUME NEW f, NEW c, Order(f, c), NEW n \in Node, NEW r, Numbers(f[n], r)
    PROVE  Order([f EXCEPT ![n] = r], c)
<1> DEFINE s == f[n]
<1>1. /\ s \in NodeState /\ r \in NodeState /\ c \in Nat /\ f \in [Node -> NodeState]
      /\ SenderInv(s) /\ SenderConns(s, c) /\ s.delivered[n] = <<>> /\ r.delivered = s.delivered
      /\ s.currentState \in Open /\ r.currentState = "OpenWait" /\ Waits(r) /\ s.sent \in Nat
      /\ r.sent = s.sent + 1 /\ r.conn = s.conn /\ r.seqNoRecv = s.seqNoRecv
      /\ r.connectionAddress = s.connectionAddress
  BY NodeTypes DEF Order, Senders, Numbers, SameTelegrams, Waits, Open
<1>2. /\ DataOf(r) = DataOf(s) /\ ConnectsOf(r) = ConnectsOf(s) /\ r.tx = s.tx
      /\ \A m : Got(r, m) = Got(s, m)
  BY SameQueues DEF Numbers
<1> HIDE DEF s
<1>3. \A i \in DataOf(s) : s.tx[i].id \in Nat /\ s.tx[i].id <= s.sent
  BY <1>1, NodeTypes DEF DataOf, SenderInv
<1>4. SenderInv(r)
  BY <1>1, <1>2, <1>3 DEF SenderInv
<1>5. SenderConns(r, c)
  BY <1>1, <1>2 DEF SenderConns, Open
<1>6. ASSUME NEW m \in Node, m # n
      PROVE  /\ FifoInv(f[m], r, m, c) /\ ConnInv(f[m], r, m)
             /\ n \in Server => ServerInv(f[m], r, m)
  <2>1. /\ FifoInv(f[m], s, m, c) /\ ConnInv(f[m], s, m)
        /\ n \in Server => ServerInv(f[m], s, m)
    BY DEF Order, Pairs, Servers, s
  <2>2. \A id : Expects(f[m], s, id) => Expects(f[m], r, id)
    BY <1>1 DEF Expects
  <2>3. FifoInv(f[m], r, m, c)
    BY <1>2, <2>1 DEF FifoInv
  <2>4. ConnInv(f[m], r, m)
    BY <1>1, <1>2, <2>1, <2>2 DEF ConnInv
  <2>5. n \in Server => ServerInv(f[m], r, m)
    BY <1>1, <1>2, <2>1, <2>2 DEF ServerInv
  <2>6. QED
    BY <2>3, <2>4, <2>5
<1>7. ASSUME NEW m \in Node, m # n
      PROVE  /\ FifoInv(r, f[m], n, c) /\ ConnInv(r, f[m], n)
             /\ m \in Server => ServerInv(r, f[m], n)
  <2>1. /\ FifoInv(s, f[m], n, c) /\ ConnInv(s, f[m], n)
        /\ m \in Server => ServerInv(s, f[m], n)
    BY DEF Order, Pairs, Servers, s
  <2>2. \A e \in Got(f[m], n) : e.id \in Nat /\ e.id <= s.sent /\ e.id < r.sent
    <3>1. \A e \in Got(f[m], n) : e.id \in Nat
      BY <1>1, NodeTypes
    <3>2. QED
      BY <1>1, <2>1, <3>1 DEF FifoInv
  <2>3. \A e \in Got(f[m], n) : Expects(s, f[m], e.id) => Expects(r, f[m], e.id)
    BY <1>1, <1>2, <2>2 DEF Expects
  <2>4. FifoInv(r, f[m], n, c)
    BY <1>1, <1>2, <2>1, <2>2 DEF FifoInv
  <2>5. ConnInv(r, f[m], n)
    BY <2>1, <2>3 DEF ConnInv
  <2>6. m \in Server => ServerInv(r, f[m], n)
    BY <1>1, <1>2, <2>1, <2>2, <2>3 DEF ServerInv
  <2>7. QED
    BY <2>4, <2>5, <2>6
<1> DEFINE g == [f EXCEPT ![n] = r]
<1>8. g[n] = r /\ \A p \in Node : p # n => g[p] = f[p]
  BY <1>1
<1> HIDE DEF g
<1>9. Ends(g, c)
  <2>1. PICK x, y \in [1 .. c -> Node] : (\A i \in 1 .. c : x[i] # y[i]) /\ EndsOf(f, x, y)
    BY DEF Order, Ends
  <2>2. Belongs(r, n, x, y)
    BY <1>1, <1>2, <2>1 DEF EndsOf, Belongs, s
  <2>3. EndsOf(g, x, y)
    BY <1>8, <2>1, <2>2 DEF EndsOf
  <2>4. QED
    BY <2>1, <2>3 DEF Ends
<1>10. NotAgain(g)
  <2>1. /\ \A p, m \in Node : Got(g[p], m) = Got(f[p], m)
        /\ \A p \in Node : ConnectsOf(g[p]) = ConnectsOf(f[p]) /\ g[p].tx = f[p].tx
    BY <1>2, <1>8 DEF s
  <2>2. QED
    BY <2>1 DEF Order, NotAgain
<1>11. \A m \in Node : InOrder(r.delivered[m])
  BY <1>1 DEF Order, Deliveries, s
<1>12. QED
  BY <1>1, <1>4, <1>5, <1>6, <1>7, <1>9, <1>10, <1>11, Changed DEF Order, Senders, Pairs, g

Puts(s, r, t) == s.tx \in Seq(Telegram) /\ t \in Telegram /\ r.tx = Append(s.tx, t)

LEMMA Appended ==
    ASSUME NEW s, NEW t, NEW r, Puts(s, r, t)
    PROVE  /\ Len(r.tx) = Len(s.tx) + 1 /\ Len(s.tx) \in Nat
           /\ r.tx[Len(s.tx) + 1] = t
           /\ \A i \in DataOf(s) \cup ConnectsOf(s) : i \in Nat /\ i <= Len(s.tx) /\ r.tx[i] = s.tx[i]
           /\ t.type = "DataConnected" => /\ DataOf(r) = DataOf(s) \cup {Len(s.tx) + 1}
                                          /\ ConnectsOf(r) = ConnectsOf(s)
           /\ t.type = "Connect" => /\ ConnectsOf(r) = ConnectsOf(s) \cup {Len(s.tx) + 1}
                                    /\ DataOf(r) = DataOf(s)
<1>1. /\ Len(r.tx) = Len(s.tx) + 1 /\ Len(s.tx) \in Nat
      /\ r.tx[Len(s.tx) + 1] = t
      /\ \A i \in 1 .. Len(s.tx) : r.tx[i] = s.tx[i]
  BY DEF Puts
<1>2. 1 .. Len(r.tx) = 1 .. Len(s.tx) \cup {Len(s.tx) + 1}
  BY <1>1
<1>3. \A i \in DataOf(s) \cup ConnectsOf(s) : i \in Nat /\ i <= Len(s.tx) /\ r.tx[i] = s.tx[i]
  BY <1>1 DEF DataOf, ConnectsOf
<1>4. ASSUME t.type = "DataConnected"
      PROVE  DataOf(r) = DataOf(s) \cup {Len(s.tx) + 1} /\ ConnectsOf(r) = ConnectsOf(s)
  BY <1>1, <1>2, <1>4 DEF DataOf, ConnectsOf
<1>5. ASSUME t.type = "Connect"
      PROVE  ConnectsOf(r) = ConnectsOf(s) \cup {Len(s.tx) + 1} /\ DataOf(r) = DataOf(s)
  BY <1>1, <1>2, <1>5 DEF DataOf, ConnectsOf
<1>6. QED
  BY <1>1, <1>3, <1>4, <1>5

\* The numbered telegram is sent, once more or for the first time (A7, A9).
Sends(s, r, t) ==
    /\ s \in NodeState /\ r \in NodeState /\ t \in Telegram
    /\ r.tx = Append(s.tx, t) /\ r.delivered = s.delivered
    /\ Waits(s) /\ r.currentState = s.currentState
    /\ r.sent = s.sent /\ r.conn = s.conn /\ r.seqNoRecv = s.seqNoRecv
    /\ r.connectionAddress = s.connectionAddress /\ r.savedFrame = s.savedFrame
    /\ r.seqNoSend = s.seqNoSend /\ s.savedFrame.seq = s.seqNoSend
    /\ t.type = "DataConnected" /\ t.id = s.sent /\ t.seq = s.savedFrame.seq /\ t.conn = s.conn

LEMMA SendStep ==
    ASSUME NEW f, NEW c, Order(f, c), NEW n \in Node, NEW r, NEW t, Sends(f[n], r, t)
    PROVE  Order([f EXCEPT ![n] = r], c)
<1> DEFINE s == f[n]
           L == Len(s.tx) + 1
<1>1. /\ s \in NodeState /\ r \in NodeState /\ t \in Telegram /\ c \in Nat /\ f \in [Node -> NodeState]
      /\ SenderInv(s) /\ SenderConns(s, c) /\ s.delivered[n] = <<>> /\ r.delivered = s.delivered
      /\ r.currentState = "OpenWait" /\ s.currentState = "OpenWait" /\ Waits(s) /\ Waits(r)
      /\ s.sent \in Nat /\ s.tx \in Seq(Telegram)
      /\ r.sent = s.sent /\ r.conn = s.conn /\ r.seqNoRecv = s.seqNoRecv
      /\ r.connectionAddress = s.connectionAddress /\ r.savedFrame = s.savedFrame
      /\ t.id = s.sent /\ t.seq = s.savedFrame.seq /\ t.conn = s.conn /\ t.type = "DataConnected"
  BY NodeTypes DEF Order, Senders, Sends, Waits
<1>2. /\ r.tx[L] = t /\ L \in Nat
      /\ \A i \in DataOf(s) \cup ConnectsOf(s) : i \in Nat /\ i < L /\ r.tx[i] = s.tx[i]
      /\ DataOf(r) = DataOf(s) \cup {L} /\ ConnectsOf(r) = ConnectsOf(s)
      /\ \A m : Got(r, m) = Got(s, m)
  <2>1. r.tx = Append(s.tx, t)
    BY DEF Sends
  <2> HIDE DEF s, L
  <2>2. /\ L \in Nat /\ r.tx[L] = t
        /\ \A i \in DataOf(s) \cup ConnectsOf(s) : i \in Nat /\ i <= Len(s.tx) /\ r.tx[i] = s.tx[i]
        /\ DataOf(r) = DataOf(s) \cup {L} /\ ConnectsOf(r) = ConnectsOf(s)
    <3>1. /\ Len(s.tx) \in Nat /\ r.tx[Len(s.tx) + 1] = t
          /\ \A i \in DataOf(s) \cup ConnectsOf(s) : i \in Nat /\ i <= Len(s.tx) /\ r.tx[i] = s.tx[i]
          /\ t.type = "DataConnected" => /\ DataOf(r) = DataOf(s) \cup {Len(s.tx) + 1}
                                         /\ ConnectsOf(r) = ConnectsOf(s)
      <4>1. Puts(s, r, t)
        BY <1>1, <2>1 DEF Puts
      <4>2. QED
        BY <4>1, Appended
    <3>2. L = Len(s.tx) + 1 /\ t.type = "DataConnected"
      BY <1>1 DEF L
    <3>3. QED
      BY <3>1, <3>2
  <2>3. \A i \in Nat : i <= Len(s.tx) => i < L
    BY <1>1 DEF L
  <2>4. \A m : Got(r, m) = Got(s, m)
    BY <1>1 DEF Got
  <2>5. QED
    BY <2>2, <2>3, <2>4
<1> HIDE DEF s, L
<1>3. \A i \in DataOf(s) : s.tx[i].id \in Nat /\ s.tx[i].id <= s.sent
  BY <1>1, NodeTypes DEF DataOf, SenderInv
<1>4. SenderInv(r)
  <2>1. \A i \in DataOf(r) : r.tx[i].id > 0 /\ r.tx[i].id <= r.sent
    BY <1>1, <1>2, <1>3 DEF SenderInv
  <2>2. ASSUME NEW i \in DataOf(r), NEW j \in DataOf(r), i < j
        PROVE  /\ r.tx[i].id <= r.tx[j].id
               /\ r.tx[i].id = r.tx[j].id =>
                     /\ r.tx[i].seq = r.tx[j].seq /\ r.tx[i].conn = r.tx[j].conn
                     /\ \A k \in ConnectsOf(r) : ~(i < k /\ k < j)
    <3>1. i \in DataOf(s) /\ r.tx[i] = s.tx[i]
      BY <1>2, <2>2
    <3>2. CASE j \in DataOf(s)
      BY <1>1, <1>2, <2>2, <3>1, <3>2 DEF SenderInv
    <3>3. CASE j = L
      <4>1. r.tx[j] = t
        BY <1>2, <3>3
      <4>2. s.tx[i].id = s.sent =>
                /\ s.tx[i].seq = s.savedFrame.seq /\ s.tx[i].conn = s.conn
                /\ \A k \in ConnectsOf(s) : k < i
        BY <1>1, <3>1 DEF SenderInv
      <4>3. \A k \in ConnectsOf(s) : k \in Nat /\ i \in Nat /\ (k < i => ~(i < k))
        BY <1>2, <3>1
      <4>4. QED
        BY <1>1, <1>2, <1>3, <3>1, <4>1, <4>2, <4>3
    <3>4. QED
      BY <1>2, <3>2, <3>3
  <2>3. ASSUME NEW i \in DataOf(r), r.tx[i].id = r.sent
        PROVE  /\ r.tx[i].seq = r.savedFrame.seq /\ r.tx[i].conn = r.conn
               /\ \A k \in ConnectsOf(r) : k < i
    BY <1>1, <1>2, <2>3 DEF SenderInv
  <2>4. QED
    BY <1>1, <2>1, <2>2, <2>3 DEF SenderInv
<1>5. SenderConns(r, c)
  <2>1. r.conn <= c /\ r.conn > 0
    BY <1>1 DEF SenderConns
  <2>2. \A i \in DataOf(r) \cup ConnectsOf(r) : r.tx[i].conn > 0 /\ r.tx[i].conn <= c
    BY <1>1, <1>2, <2>1 DEF SenderConns
  <2>3. ASSUME NEW i \in DataOf(r), NEW k \in ConnectsOf(r), i < k
        PROVE  r.tx[i].conn # r.tx[k].conn
    <3>1. i \in DataOf(s)
      BY <1>2, <2>3
    <3>2. QED
      BY <1>1, <1>2, <2>3, <3>1 DEF SenderConns
  <2>4. QED
    BY <2>1, <2>2, <2>3 DEF SenderConns
<1>6. ASSUME NEW m \in Node, m # n
      PROVE  /\ FifoInv(f[m], r, m, c) /\ ConnInv(f[m], r, m)
             /\ n \in Server => ServerInv(f[m], r, m)
  <2>1. /\ FifoInv(f[m], s, m, c) /\ ConnInv(f[m], s, m)
        /\ n \in Server => ServerInv(f[m], s, m)
    BY DEF Order, Pairs, Servers, s
  <2>2. \A id : Expects(f[m], s, id) => Expects(f[m], r, id)
    BY <1>1 DEF Expects
  <2>3. FifoInv(f[m], r, m, c)
    BY <1>2, <2>1 DEF FifoInv
  <2>4. ConnInv(f[m], r, m)
    BY <1>1, <1>2, <2>1, <2>2 DEF ConnInv
  <2>5. n \in Server => ServerInv(f[m], r, m)
    BY <1>1, <1>2, <2>1, <2>2 DEF ServerInv
  <2>6. QED
    BY <2>3, <2>4, <2>5
<1>7. ASSUME NEW m \in Node, m # n
      PROVE  /\ FifoInv(r, f[m], n, c) /\ ConnInv(r, f[m], n)
             /\ m \in Server => ServerInv(r, f[m], n)
  <2>1. /\ FifoInv(s, f[m], n, c) /\ ConnInv(s, f[m], n)
        /\ m \in Server => ServerInv(s, f[m], n)
    BY DEF Order, Pairs, Servers, s
  <2>2. \A id : Expects(s, f[m], id) => Expects(r, f[m], id)
    BY <1>1, <1>2 DEF Expects
  <2>3. FifoInv(r, f[m], n, c)
    BY <1>1, <1>2, <2>1 DEF FifoInv
  <2>4. ConnInv(r, f[m], n)
    BY <2>1, <2>2 DEF ConnInv
  <2>5. m \in Server => ServerInv(r, f[m], n)
    BY <1>1, <1>2, <2>1, <2>2 DEF ServerInv
  <2>6. QED
    BY <2>3, <2>4, <2>5
<1> DEFINE g == [f EXCEPT ![n] = r]
<1>8. g[n] = r /\ \A p \in Node : p # n => g[p] = f[p]
  BY <1>1
<1> HIDE DEF g
<1>9. Ends(g, c)
  <2>1. PICK x, y \in [1 .. c -> Node] : (\A i \in 1 .. c : x[i] # y[i]) /\ EndsOf(f, x, y)
    BY DEF Order, Ends
  <2>2. Belongs(s, n, x, y)
    BY <2>1 DEF EndsOf, s
  <2>3. r.conn > 0 => n \in {x[r.conn], y[r.conn]}
    BY <1>1, <2>2 DEF Belongs
  <2>4. \A i \in DataOf(r) : n \in {x[r.tx[i].conn], y[r.tx[i].conn]}
    <3>1. s.conn > 0
      BY <1>1 DEF SenderConns
    <3>2. QED
      BY <1>1, <1>2, <2>2, <3>1 DEF Belongs
  <2>5. \A i \in ConnectsOf(r) : n = x[r.tx[i].conn] /\ r.tx[i].dst = y[r.tx[i].conn]
    BY <1>2, <2>2 DEF Belongs
  <2>6. Belongs(r, n, x, y)
    BY <2>3, <2>4, <2>5 DEF Belongs
  <2>7. EndsOf(g, x, y)
    BY <1>8, <2>1, <2>6 DEF EndsOf
  <2>8. QED
    BY <2>1, <2>7 DEF Ends
<1>10. NotAgain(g)
  <2>1. /\ \A p, m \in Node : Got(g[p], m) = Got(f[p], m)
        /\ \A p \in Node : ConnectsOf(g[p]) = ConnectsOf(f[p])
        /\ \A p \in Node : \A i \in ConnectsOf(f[p]) : g[p].tx[i] = f[p].tx[i]
    BY <1>2, <1>8 DEF s
  <2>2. QED
    BY <2>1 DEF Order, NotAgain
<1>11. \A m \in Node : InOrder(r.delivered[m])
  BY <1>1 DEF Order, Deliveries, s
<1>12. QED
  BY <1>1, <1>4, <1>5, <1>6, <1>7, <1>9, <1>10, <1>11, Changed DEF Order, Senders, Pairs, g

\* The telegram of m that s expects is indicated (A2).
Indicates(s, r, m, t) ==
    /\ s \in NodeState /\ r \in NodeState /\ t \in Telegram
    /\ s.currentState \in Open /\ s.connectionAddress = m /\ t.seq = s.seqNoRecv
    /\ r.tx = s.tx /\ r.sent = s.sent /\ r.conn = s.conn /\ r.savedFrame = s.savedFrame
    /\ r.currentState = s.currentState /\ r.connectionAddress = s.connectionAddress
    /\ r.seqNoRecv = IncSeqNr(s.seqNoRecv) /\ r.seqNoSend = s.seqNoSend
    /\ r.delivered = [s.delivered EXCEPT ![m] = Append(@, [id |-> t.id, sentIn |-> t.conn, gotIn |-> s.conn])]

LEMMA IncSeqNrMoves ==
    ASSUME NEW q \in SeqNo
    PROVE  IncSeqNr(q) # q
BY TransportAssumption DEF IncSeqNr, SeqNo

\* Whatever m's telegram at the head of its queue, n has had none like it in this connection,
LEMMA HeadIsNew ==
    ASSUME NEW f, NEW c, Order(f, c), NEW n \in Node, NEW m \in Node,
           f[m].tx # <<>>, NEW t, t = Head(f[m].tx), t.type = "DataConnected",
           f[n].currentState \in Open, f[n].connectionAddress = m, t.seq = f[n].seqNoRecv
    PROVE  /\ 1 \in DataOf(f[m]) /\ t = f[m].tx[1] /\ t \in Telegram
           /\ \A i \in DataOf(f[m]) : t.id <= f[m].tx[i].id
           /\ t.id > 0 /\ t.id <= f[m].sent
           /\ \A e \in Got(f[n], m) : e.id <= t.id
           /\ \A e \in Got(f[n], m) : InConnection(e) /\ e.gotIn = f[n].conn => e.id < t.id
           /\ n \in Server => \A e \in Got(f[n], m) : e.id < t.id
<1> DEFINE s == f[m]
<1>1. /\ s \in NodeState /\ s.tx \in Seq(Telegram) /\ SenderInv(s)
      /\ FifoInv(s, f[n], m, c) /\ ConnInv(s, f[n], m)
      /\ n \in Server => ServerInv(s, f[n], m)
  BY NodeTypes DEF Order, Senders, Pairs, Servers
<1>2. t = s.tx[1] /\ 1 \in 1 .. Len(s.tx) /\ t \in Telegram
  BY <1>1
<1> HIDE DEF s
<1>3. 1 \in DataOf(s)
  BY <1>2 DEF DataOf
<1>4. \A i \in DataOf(s) : i = 1 \/ 1 < i
  BY DEF DataOf
<1>5. t.seq \in SeqNo /\ t.id \in Nat
  BY <1>1, <1>2, NodeTypes
<1>6. \A i \in DataOf(s) : t.id <= s.tx[i].id
  BY <1>1, <1>2, <1>3, <1>4, <1>5 DEF SenderInv
<1>7. t.id > 0 /\ t.id <= s.sent
  BY <1>1, <1>2, <1>3 DEF SenderInv
<1>8. \A e \in Got(f[n], m) : e.id \in Nat /\ e.id <= t.id
  <2>1. \A e \in Got(f[n], m) : e.id \in Nat
    BY NodeTypes DEF Order
  <2>2. QED
    BY <1>1, <1>2, <1>3, <2>1 DEF FifoInv
<1>9. \A e \in Got(f[n], m) : ~Expects(s, f[n], e.id) \/ e.id < t.id
  <2>1. \A e \in Got(f[n], m) : Expects(s, f[n], e.id) => e.id # t.id
    BY <1>2, <1>3, <1>5, IncSeqNrMoves DEF Expects
  <2>2. QED
    BY <1>5, <1>8, <2>1
<1>10. \A e \in Got(f[n], m) : InConnection(e) /\ e.gotIn = f[n].conn => e.id < t.id
  BY <1>1, <1>9 DEF ConnInv
<1>11. n \in Server => \A e \in Got(f[n], m) : e.id < t.id
  BY <1>1, <1>9 DEF ServerInv
<1>12. QED
  BY <1>2, <1>3, <1>6, <1>7, <1>8, <1>10, <1>11 DEF s

LEMMA IndicateStep ==
    ASSUME NEW f, NEW c, Order(f, c), NEW n \in Node, NEW m \in Node, m # n,
           f[m].tx # <<>>, NEW t, t = Head(f[m].tx), t.type = "DataConnected",
           NEW r, Indicates(f[n], r, m, t)
    PROVE  Order([f EXCEPT ![n] = r], c)
<1> DEFINE s == f[n]
           q == f[m]
           e == [id |-> t.id, sentIn |-> t.conn, gotIn |-> s.conn]
<1>1. /\ s \in NodeState /\ r \in NodeState /\ c \in Nat /\ f \in [Node -> NodeState]
      /\ SenderInv(s) /\ SenderConns(s, c) /\ s.delivered[n] = <<>>
      /\ s.currentState \in Open /\ r.currentState = s.currentState /\ t.seq = s.seqNoRecv
      /\ s.connectionAddress = m /\ r.connectionAddress = m
      /\ r.tx = s.tx /\ r.sent = s.sent /\ r.conn = s.conn /\ r.savedFrame = s.savedFrame
      /\ r.seqNoRecv = IncSeqNr(t.seq)
      /\ r.delivered = [s.delivered EXCEPT ![m] = Append(@, e)]
      /\ s.conn > 0 /\ s.conn <= c
  <2>1. /\ s \in NodeState /\ c \in Nat /\ f \in [Node -> NodeState]
        /\ SenderInv(s) /\ SenderConns(s, c) /\ s.delivered[n] = <<>>
    BY DEF Order, Senders
  <2>2. s.currentState \in Open /\ s.currentState # "Closed"
    BY DEF Indicates, Open
  <2>3. s.conn > 0 /\ s.conn <= c
    BY <2>1, <2>2 DEF SenderConns
  <2>4. QED
    BY <2>1, <2>2, <2>3 DEF Indicates
<1>2. /\ 1 \in DataOf(q) /\ t = q.tx[1] /\ t \in Telegram
      /\ \A i \in DataOf(q) : t.id <= q.tx[i].id
      /\ t.id > 0 /\ t.id <= q.sent
      /\ \A d \in Got(s, m) : d.id <= t.id
      /\ \A d \in Got(s, m) : InConnection(d) /\ d.gotIn = s.conn => d.id < t.id
      /\ n \in Server => \A d \in Got(s, m) : d.id < t.id
  <2>1. /\ f[m].tx # <<>> /\ t = Head(f[m].tx) /\ t.type = "DataConnected"
        /\ f[n].currentState \in Open /\ f[n].connectionAddress = m /\ t.seq = f[n].seqNoRecv
    BY <1>1
  <2> HIDE DEF s, q
  <2>2. /\ 1 \in DataOf(f[m]) /\ t = f[m].tx[1] /\ t \in Telegram
        /\ \A i \in DataOf(f[m]) : t.id <= f[m].tx[i].id
        /\ t.id > 0 /\ t.id <= f[m].sent
        /\ \A d \in Got(f[n], m) : d.id <= t.id
        /\ \A d \in Got(f[n], m) : InConnection(d) /\ d.gotIn = f[n].conn => d.id < t.id
        /\ n \in Server => \A d \in Got(f[n], m) : d.id < t.id
    BY ONLY <2>1, HeadIsNew, Order(f, c), n \in Node, m \in Node
  <2>3. QED
    BY <2>2 DEF s, q
<1>3. /\ DataOf(r) = DataOf(s) /\ ConnectsOf(r) = ConnectsOf(s) /\ (Waits(r) <=> Waits(s))
  BY <1>1 DEF DataOf, ConnectsOf, Waits
<1>4. /\ s.delivered \in [Node -> Seq(Delivery)] /\ e \in Delivery
      /\ e.id = t.id /\ e.sentIn = t.conn /\ e.gotIn = s.conn
      /\ t.id \in Nat /\ t.conn \in Nat /\ t.seq \in SeqNo /\ s.conn \in Nat
  BY <1>1, <1>2 DEF NodeState, Telegram, Delivery
<1> HIDE DEF s, q, e
<1>5. /\ r.delivered[m] = Append(s.delivered[m], e)
      /\ \A p \in Node : p # m => r.delivered[p] = s.delivered[p]
  BY <1>1, <1>4
<1>6. /\ Got(r, m) = Got(s, m) \cup {e}
      /\ \A p \in Node : p # m => Got(r, p) = Got(s, p)
  <2>1. s.delivered[m] \in Seq(Delivery)
    BY <1>4
  <2>2. /\ 1 .. Len(r.delivered[m]) = 1 .. Len(s.delivered[m]) \cup {Len(s.delivered[m]) + 1}
        /\ \A i \in 1 .. Len(s.delivered[m]) : r.delivered[m][i] = s.delivered[m][i]
        /\ r.delivered[m][Len(s.delivered[m]) + 1] = e
    BY <1>4, <1>5, <2>1
  <2>3. QED
    BY <1>5, <2>2 DEF Got
<1>7. SenderInv(r) /\ SenderConns(r, c)
  <2>1. SenderInv(r)
    BY <1>1, <1>3 DEF SenderInv
  <2>2. SenderConns(r, c)
    BY <1>1, <1>3 DEF SenderConns
  <2>3. QED
    BY <2>1, <2>2
<1>8. /\ FifoInv(q, s, m, c) /\ ConnInv(q, s, m) /\ SenderInv(q) /\ SenderConns(q, c)
      /\ n \in Server => ServerInv(q, s, m)
      /\ q \in NodeState
  BY DEF Order, Pairs, Servers, Senders, s, q
<1>9. Expects(q, r, t.id)
  <2>1. \A i \in DataOf(q) : i = 1 \/ 1 < i
    BY DEF DataOf
  <2>2. \A i \in DataOf(q) : q.tx[i].id = t.id => q.tx[i].seq = t.seq
    BY <1>2, <1>8, <2>1 DEF SenderInv
  <2>3. Waits(q) /\ q.sent = t.id => q.savedFrame.seq = t.seq
    BY <1>2, <1>8 DEF SenderInv
  <2>4. QED
    BY <1>1, <2>2, <2>3 DEF Expects
\* Of what is older, nothing still comes.
<1>10. \A d \in Got(s, m) : d.id \in Nat /\ (d.id < t.id => Expects(q, r, d.id))
  <2>1. \A d \in Got(s, m) : d.id \in Nat
    BY <1>1, NodeTypes
  <2>2. \A i \in DataOf(q) : q.tx[i].id \in Nat
    BY <1>8, NodeTypes DEF DataOf
  <2>3. q.sent \in Nat
    BY <1>8, NodeTypes
  <2>4. QED
    BY <1>2, <1>4, <2>1, <2>2, <2>3 DEF Expects
<1>11. FifoInv(q, r, m, c) /\ ConnInv(q, r, m) /\ (n \in Server => ServerInv(q, r, m))
  <2>1. FifoInv(q, r, m, c)
    <3>1. \A i \in DataOf(q) : i = 1 \/ 1 < i
      BY DEF DataOf
    <3>2. \A i \in DataOf(q) : t.id = q.tx[i].id => t.conn = q.tx[i].conn
      BY <1>2, <1>8, <3>1 DEF SenderInv
    <3>3. Waits(q) /\ t.id = q.sent => t.conn = q.conn
      BY <1>2, <1>8 DEF SenderInv
    <3>4. QED
      BY <1>1, <1>2, <1>4, <1>6, <1>8, <3>2, <3>3 DEF FifoInv
  <2>2. ConnInv(q, r, m)
    BY <1>1, <1>2, <1>4, <1>6, <1>9, <1>10 DEF ConnInv, Open
  <2>3. ASSUME n \in Server PROVE ServerInv(q, r, m)
    <3>1. \A k \in ConnectsOf(q) : k \in Nat /\ k # 1 /\ 1 < k
      BY <1>2 DEF ConnectsOf, DataOf
    <3>2. ASSUME NEW k \in ConnectsOf(q), NEW i \in DataOf(q), k < i
          PROVE  t.id < q.tx[i].id
      <4>1. 1 < i /\ q.tx[1].id <= q.tx[i].id /\ q.tx[i].id \in Nat
        <5>1. i \in Nat /\ q.tx[i].id \in Nat
          BY <1>8, NodeTypes DEF DataOf
        <5>2. 1 < i
          BY <3>1, <3>2, <5>1
        <5>3. QED
          BY <1>2, <1>8, <5>1, <5>2 DEF SenderInv
      <4>2. q.tx[1].id # q.tx[i].id
        BY <1>2, <1>8, <3>1, <3>2, <4>1 DEF SenderInv
      <4>3. QED
        BY <1>2, <1>4, <4>1, <4>2
    <3>3. ASSUME NEW k \in ConnectsOf(q), Waits(q)
          PROVE  t.id < q.sent
      <4>1. t.id # q.sent
        <5>1. ~(k < 1)
          BY <3>1
        <5>2. QED
          BY <1>2, <1>8, <3>3, <5>1 DEF SenderInv
      <4>2. q.sent \in Nat
        BY <1>8, NodeTypes
      <4>3. QED
        BY <1>2, <1>4, <4>1, <4>2
    <3>4. QED
      BY <1>2, <1>4, <1>6, <1>8, <1>9, <1>10, <2>3, <3>2, <3>3 DEF ServerInv
  <2>4. QED
    BY <2>1, <2>2, <2>3
<1>12. ASSUME NEW p \in Node, p # n, p # m
       PROVE  /\ FifoInv(f[p], r, p, c) /\ ConnInv(f[p], r, p)
              /\ n \in Server => ServerInv(f[p], r, p)
  <2>1. /\ FifoInv(f[p], s, p, c) /\ ConnInv(f[p], s, p)
        /\ n \in Server => ServerInv(f[p], s, p)
    BY DEF Order, Pairs, Servers, s
  <2>2. Got(r, p) = Got(s, p)
    BY <1>6, <1>12
  <2>3. FifoInv(f[p], r, p, c)
    BY <2>1, <2>2 DEF FifoInv
  <2>4. ConnInv(f[p], r, p)
    BY <1>1, <1>12, <2>1, <2>2 DEF ConnInv, Open
  <2>5. n \in Server => ServerInv(f[p], r, p)
    BY <1>1, <1>12, <2>1, <2>2 DEF ServerInv
  <2>6. QED
    BY <2>3, <2>4, <2>5
<1>13. ASSUME NEW p \in Node, p # n
       PROVE  /\ FifoInv(r, f[p], n, c) /\ ConnInv(r, f[p], n)
              /\ p \in Server => ServerInv(r, f[p], n)
  <2>1. /\ FifoInv(s, f[p], n, c) /\ ConnInv(s, f[p], n)
        /\ p \in Server => ServerInv(s, f[p], n)
    BY DEF Order, Pairs, Servers, s
  <2>2. \A id : Expects(s, f[p], id) => Expects(r, f[p], id)
    BY <1>1, <1>3 DEF Expects
  <2>3. FifoInv(r, f[p], n, c)
    BY <1>1, <1>3, <2>1 DEF FifoInv
  <2>4. ConnInv(r, f[p], n)
    BY <2>1, <2>2 DEF ConnInv
  <2>5. p \in Server => ServerInv(r, f[p], n)
    BY <1>1, <1>3, <2>1, <2>2 DEF ServerInv
  <2>6. QED
    BY <2>3, <2>4, <2>5
<1> DEFINE g == [f EXCEPT ![n] = r]
<1>14. g[n] = r /\ \A p \in Node : p # n => g[p] = f[p]
  BY <1>1
<1> HIDE DEF g
<1>15. Ends(g, c) /\ NotAgain(g)
  <2>1. PICK x, y \in [1 .. c -> Node] : (\A i \in 1 .. c : x[i] # y[i]) /\ EndsOf(f, x, y)
    BY DEF Order, Ends
  <2>2. Belongs(s, n, x, y) /\ Belongs(q, m, x, y)
    BY <2>1 DEF EndsOf, s, q
  <2>3. Belongs(r, n, x, y)
    BY <1>1, <1>3, <2>2 DEF Belongs
  <2>4. Ends(g, c)
    BY <1>14, <2>1, <2>3 DEF Ends, EndsOf
  <2>5. ASSUME NEW p \in Node, NEW i \in ConnectsOf(f[p]), f[p].tx[i].dst = n,
               f[p].tx[i].conn = s.conn, t.conn = s.conn
        PROVE  FALSE
    <3>1. p = x[s.conn] /\ n = y[s.conn]
      BY <2>1, <2>5 DEF EndsOf, Belongs
    <3>2. s.conn \in 1 .. c
      BY <1>1, <1>4
    <3>3. m \in {x[s.conn], y[s.conn]}
      BY <1>2, <2>2, <2>5 DEF Belongs
    <3>4. p = m
      BY <2>1, <3>1, <3>2, <3>3
    <3>5. i \in ConnectsOf(q) /\ q.tx[i].conn = q.tx[1].conn
      BY <1>2, <2>5, <3>4 DEF q
    <3>6. 1 < i
      BY <1>2, <3>5 DEF ConnectsOf, DataOf
    <3>7. QED
      BY <1>2, <1>8, <3>5, <3>6 DEF SenderConns
  <2>6. \A p \in Node : ConnectsOf(g[p]) = ConnectsOf(f[p]) /\ g[p].tx = f[p].tx
    BY <1>1, <1>3, <1>14 DEF s
  <2>7. ASSUME NEW p \in Node, NEW k \in Node, NEW l \in Node, NEW i \in ConnectsOf(g[p]),
               g[p].tx[i].dst = k, NEW d \in Got(g[k], l), InConnection(d),
               d.gotIn = g[p].tx[i].conn
        PROVE  FALSE
    <3>1. i \in ConnectsOf(f[p]) /\ g[p].tx[i] = f[p].tx[i]
      BY <2>6
    <3>2. CASE d \in Got(f[k], l)
      BY <2>7, <3>1, <3>2 DEF Order, NotAgain
    <3>3. CASE d \notin Got(f[k], l)
      <4>1. k = n /\ d = e
        BY <1>6, <1>14, <2>7, <3>3 DEF s
      <4>2. QED
        BY <1>4, <2>5, <2>7, <3>1, <4>1 DEF InConnection
    <3>4. QED
      BY <3>2, <3>3
  <2>8. NotAgain(g)
    BY <2>7 DEF NotAgain
  <2>9. QED
    BY <2>4, <2>8
<1>16. \A p \in Node : InOrder(r.delivered[p])
  <2>1. \A p \in Node : InOrder(s.delivered[p])
    BY DEF Order, Deliveries, s
  <2> DEFINE d == s.delivered[m]
             a == Append(d, e)
  <2>2. /\ d \in Seq(Delivery) /\ Len(d) \in Nat /\ Len(a) = Len(d) + 1 /\ a[Len(d) + 1] = e
        /\ \A i \in 1 .. Len(d) : a[i] = d[i] /\ d[i] \in Got(s, m)
    BY <1>4 DEF Got
  <2>3. ASSUME NEW i \in 1 .. Len(a), NEW j \in 1 .. Len(a), i < j,
               InConnection(a[i]), InConnection(a[j])
        PROVE  a[i].id < a[j].id
    <3> HIDE DEF d, a
    <3>1. i \in 1 .. Len(d) /\ (j \in 1 .. Len(d) \/ j = Len(d) + 1)
      BY <2>2, <2>3
    <3>2. CASE j \in 1 .. Len(d)
      <4>1. InOrder(d)
        BY <2>1 DEF d
      <4>2. QED
        BY <2>2, <2>3, <3>1, <3>2, <4>1 DEF InOrder
    <3>3. CASE j = Len(d) + 1
      <4>1. a[i] \in Got(s, m) /\ a[j] = e
        BY <2>2, <3>1, <3>3
      <4>2. a[i].id <= t.id /\ a[i].id \in Nat
        BY <1>2, <1>10, <4>1
      <4>3. a[i].id # t.id
        <5>1. FifoInv(q, s, m, c)
          BY <1>8
        <5>2. a[i].id = t.id => a[i].sentIn = t.conn
          BY <1>2, <4>1, <5>1 DEF FifoInv
        <5>3. t.conn = s.conn
          BY <1>4, <2>3, <4>1 DEF InConnection
        <5>4. a[i].id = t.id => a[i].id < t.id
          BY <1>2, <2>3, <4>1, <5>2, <5>3 DEF InConnection
        <5>5. QED
          BY <1>4, <5>4
      <4>4. QED
        BY <1>4, <4>1, <4>2, <4>3
    <3>4. QED
      BY <3>1, <3>2, <3>3
  <2>4. InOrder(a)
    BY <2>3 DEF InOrder
  <2> HIDE DEF d, a
  <2>5. r.delivered[m] = a
    BY <1>5 DEF a, d
  <2>6. QED
    BY <1>5, <2>1, <2>4, <2>5
<1>17. r.delivered[n] = <<>>
  BY <1>1, <1>5
<1>18. n \in Server => r.currentState # "Connecting"
  BY <1>1 DEF Open
<1>19. ASSUME NEW p \in Node, p # n
       PROVE  /\ FifoInv(f[p], r, p, c) /\ ConnInv(f[p], r, p)
              /\ FifoInv(r, f[p], n, c) /\ ConnInv(r, f[p], n)
              /\ n \in Server => ServerInv(f[p], r, p)
              /\ p \in Server => ServerInv(r, f[p], n)
  BY <1>11, <1>12, <1>13, <1>19 DEF q
<1>20. QED
  BY <1>1, <1>7, <1>15, <1>16, <1>17, <1>18, <1>19, Changed DEF Order, Senders, Pairs, g

\* A connection is requested, with a number of its own (A12); the telegram may be refused.
Requests(s, r, destination, conn) ==
    /\ s \in NodeState /\ r \in NodeState
    /\ r.currentState = "Connecting" /\ r.conn = conn
    /\ r.sent = s.sent /\ r.delivered = s.delivered
    /\ \/ r.tx = s.tx
       \/ \E t \in Telegram : /\ Puts(s, r, t)
                              /\ t.type = "Connect" /\ t.dst = destination /\ t.conn = conn

LEMMA ConnectStep ==
    ASSUME NEW f, NEW c, Order(f, c), NEW n \in Node, n \notin Server,
           NEW destination \in Node, destination # n,
           NEW r, Requests(f[n], r, destination, c + 1)
    PROVE  Order([f EXCEPT ![n] = r], c + 1)
<1> DEFINE s == f[n]
           b == c + 1
<1>1. /\ s \in NodeState /\ r \in NodeState /\ c \in Nat /\ f \in [Node -> NodeState]
      /\ SenderInv(s) /\ SenderConns(s, c) /\ s.delivered[n] = <<>> /\ r.delivered = s.delivered
      /\ r.currentState = "Connecting" /\ ~Waits(r) /\ r.conn = b /\ r.sent = s.sent
      /\ b \in Nat /\ b > 0 /\ c < b
  BY DEF Order, Senders, Requests, Waits
<1>2. /\ DataOf(r) = DataOf(s) /\ \A i \in DataOf(s) : r.tx[i] = s.tx[i] /\ i \in Nat
      /\ \A i \in ConnectsOf(r) : \/ i \in ConnectsOf(s) /\ r.tx[i] = s.tx[i]
                                  \/ /\ r.tx[i].conn = b /\ r.tx[i].dst = destination
                                     /\ \A j \in DataOf(s) : j < i
      /\ \A m : Got(r, m) = Got(s, m)
  <2>1. \A m : Got(r, m) = Got(s, m)
    BY <1>1 DEF Got
  <2>2. CASE r.tx = s.tx
    <3>1. DataOf(r) = DataOf(s) /\ ConnectsOf(r) = ConnectsOf(s)
      BY <2>2 DEF DataOf, ConnectsOf
    <3>2. \A i \in DataOf(s) : i \in Nat
      BY DEF DataOf
    <3>3. QED
      BY <2>1, <2>2, <3>1, <3>2
  <2>3. ASSUME NEW t \in Telegram, Puts(s, r, t), t.type = "Connect", t.dst = destination, t.conn = b
        PROVE  /\ DataOf(r) = DataOf(s) /\ \A i \in DataOf(s) : r.tx[i] = s.tx[i] /\ i \in Nat
               /\ \A i \in ConnectsOf(r) : \/ i \in ConnectsOf(s) /\ r.tx[i] = s.tx[i]
                                           \/ /\ r.tx[i].conn = b /\ r.tx[i].dst = destination
                                              /\ \A j \in DataOf(s) : j < i
    <3> HIDE DEF s, b
    <3>1. /\ Len(s.tx) \in Nat /\ r.tx[Len(s.tx) + 1] = t
          /\ \A i \in DataOf(s) \cup ConnectsOf(s) : i \in Nat /\ i <= Len(s.tx) /\ r.tx[i] = s.tx[i]
          /\ t.type = "Connect" => /\ ConnectsOf(r) = ConnectsOf(s) \cup {Len(s.tx) + 1}
                                   /\ DataOf(r) = DataOf(s)
      BY <2>3, Appended
    <3>2. \A j \in DataOf(s) : j < Len(s.tx) + 1
      BY <3>1
    <3>3. QED
      BY <2>3, <3>1, <3>2
  <2>4. \/ r.tx = s.tx
        \/ \E t \in Telegram : /\ Puts(s, r, t)
                               /\ t.type = "Connect" /\ t.dst = destination /\ t.conn = b
    BY DEF Requests
  <2>5. QED
    BY <2>1, <2>2, <2>3, <2>4
<1> HIDE DEF s, b
<1>3. SenderInv(r)
  <2>1. ASSUME NEW i \in DataOf(r), NEW j \in DataOf(r), i < j,
               NEW k \in ConnectsOf(r), r.tx[i].id = r.tx[j].id
        PROVE  ~(i < k /\ k < j)
    <3>1. CASE k \in ConnectsOf(s)
      BY <1>1, <1>2, <2>1, <3>1 DEF SenderInv
    <3>2. CASE k \notin ConnectsOf(s)
      <4>1. j < k /\ k \in Nat /\ j \in Nat
        BY <1>2, <2>1, <3>2 DEF ConnectsOf
      <4>2. QED
        BY <4>1
    <3>3. QED
      BY <3>1, <3>2
  <2>2. QED
    BY <1>1, <1>2, <2>1 DEF SenderInv
<1>4. ASSUME NEW q, SenderConns(q, c), q \in NodeState PROVE SenderConns(q, b)
  <2>1. q.conn \in Nat /\ \A i \in DataOf(q) \cup ConnectsOf(q) : q.tx[i].conn \in Nat
    BY <1>4, NodeTypes DEF DataOf, ConnectsOf
  <2>2. \A k \in Nat : k <= c => k <= b
    BY <1>1
  <2>3. QED
    BY <1>4, <2>1, <2>2 DEF SenderConns
<1>5. \A p \in Node : p # n => SenderConns(f[p], b)
  BY <1>1, <1>4 DEF Order, Senders
<1>6. \A i \in DataOf(s) \cup ConnectsOf(s) : s.tx[i].conn \in Nat /\ s.tx[i].conn > 0 /\ s.tx[i].conn <= c
                                              /\ s.tx[i].conn < b
  <2>1. \A i \in DataOf(s) \cup ConnectsOf(s) : s.tx[i].conn \in Nat
    BY <1>1, NodeTypes DEF DataOf, ConnectsOf
  <2>2. QED
    BY <1>1, <2>1 DEF SenderConns
<1>7. SenderConns(r, b)
  <2>1. \A i \in DataOf(r) \cup ConnectsOf(r) : r.tx[i].conn > 0 /\ r.tx[i].conn <= b
    BY <1>1, <1>2, <1>6
  <2>2. ASSUME NEW i \in DataOf(r), NEW k \in ConnectsOf(r), i < k
        PROVE  r.tx[i].conn # r.tx[k].conn
    <3>1. CASE k \in ConnectsOf(s) /\ r.tx[k] = s.tx[k]
      BY <1>1, <1>2, <2>2, <3>1 DEF SenderConns
    <3>2. CASE r.tx[k].conn = b
      BY <1>1, <1>2, <1>6, <2>2, <3>2
    <3>3. QED
      BY <1>2, <3>1, <3>2
  <2>3. QED
    BY <1>1, <2>1, <2>2 DEF SenderConns
<1>8. ASSUME NEW m \in Node, NEW p \in Node, FifoInv(f[m], f[p], m, c)
      PROVE  FifoInv(f[m], f[p], m, b) /\ \A e \in Got(f[p], m) : e.gotIn \in Nat /\ e.gotIn < b
  <2>1. \A e \in Got(f[p], m) : e.gotIn \in Nat
    BY <1>1, NodeTypes
  <2>2. \A k \in Nat : k <= c => k <= b /\ k < b
    BY <1>1
  <2>3. QED
    BY <1>8, <2>1, <2>2 DEF FifoInv
<1>9. ASSUME NEW m \in Node, m # n
      PROVE  /\ FifoInv(f[m], r, m, b) /\ ConnInv(f[m], r, m)
             /\ FifoInv(r, f[m], n, b) /\ ConnInv(r, f[m], n)
             /\ m \in Server => ServerInv(r, f[m], n)
  <2>1. /\ FifoInv(f[m], s, m, c) /\ FifoInv(f[m], s, m, b) /\ ConnInv(f[m], s, m)
        /\ \A e \in Got(s, m) : e.gotIn \in Nat /\ e.gotIn < b
    BY <1>8 DEF Order, Pairs, s
  <2>2. /\ FifoInv(s, f[m], n, c) /\ FifoInv(s, f[m], n, b) /\ ConnInv(s, f[m], n)
        /\ m \in Server => ServerInv(s, f[m], n)
    BY <1>8 DEF Order, Pairs, Servers, s
  <2>3. FifoInv(f[m], r, m, b)
    BY <1>2, <2>1 DEF FifoInv
  <2>4. ConnInv(f[m], r, m)
    BY <1>1, <1>2, <2>1 DEF ConnInv, Open
  <2>5. \A id : Expects(s, f[m], id) => Expects(r, f[m], id)
    BY <1>1, <1>2 DEF Expects
  <2>6. FifoInv(r, f[m], n, b)
    BY <1>1, <1>2, <2>2 DEF FifoInv
  <2>7. ConnInv(r, f[m], n)
    BY <2>2, <2>5 DEF ConnInv
  <2>8. ASSUME m \in Server PROVE ServerInv(r, f[m], n)
    <3>1. ASSUME NEW e \in Got(f[m], n), NEW k \in ConnectsOf(r), NEW i \in DataOf(r), k < i
          PROVE  e.id < r.tx[i].id
      <4>1. CASE k \in ConnectsOf(s)
        BY <1>2, <2>2, <2>8, <3>1, <4>1 DEF ServerInv
      <4>2. CASE k \notin ConnectsOf(s)
        <5>1. i < k /\ i \in Nat /\ k \in Nat
          BY <1>2, <3>1, <4>2 DEF ConnectsOf
        <5>2. QED
          BY <3>1, <5>1
      <4>3. QED
        BY <4>1, <4>2
    <3>2. QED
      BY <1>1, <2>2, <2>5, <2>8, <3>1 DEF ServerInv
  <2>9. QED
    BY <2>3, <2>4, <2>6, <2>7, <2>8
<1>10. \A m, p \in Node : m # n /\ p # n => FifoInv(f[m], f[p], m, b)
  BY <1>8 DEF Order, Pairs
<1> DEFINE g == [f EXCEPT ![n] = r]
<1>11. g[n] = r /\ \A p \in Node : p # n => g[p] = f[p]
  BY <1>1
<1> HIDE DEF g
<1>12. Ends(g, b)
  <2>1. PICK x, y \in [1 .. c -> Node] : (\A i \in 1 .. c : x[i] # y[i]) /\ EndsOf(f, x, y)
    BY DEF Order, Ends
  <2> DEFINE u == [i \in 1 .. b |-> IF i = b THEN n ELSE x[i]]
             v == [i \in 1 .. b |-> IF i = b THEN destination ELSE y[i]]
  <2>2. /\ \A i \in 1 .. b : i = b \/ i \in 1 .. c
        /\ \A i \in 1 .. c : i \in 1 .. b /\ i # b
        /\ b \in 1 .. b
    BY <1>1 DEF b
  <2>3. u \in [1 .. b -> Node] /\ v \in [1 .. b -> Node]
    BY <2>1, <2>2
  <2>4. /\ u[b] = n /\ v[b] = destination
        /\ \A i \in 1 .. c : u[i] = x[i] /\ v[i] = y[i]
    BY <2>2
  <2> HIDE DEF u, v
  <2>5. \A i \in 1 .. b : u[i] # v[i]
    BY <2>1, <2>2, <2>4
  <2>6. ASSUME NEW p \in Node, NEW w, w = f[p]
        PROVE  Belongs(w, p, u, v)
    <3>1. w \in NodeState /\ SenderConns(w, c) /\ Belongs(w, p, x, y)
      BY <1>1, <2>1, <2>6 DEF Order, Senders, EndsOf
    <3>2. w.conn > 0 => w.conn \in 1 .. c
      BY <1>1, <3>1, NodeTypes DEF SenderConns
    <3>3. \A i \in DataOf(w) \cup ConnectsOf(w) : w.tx[i].conn \in 1 .. c
      <4>1. \A i \in DataOf(w) \cup ConnectsOf(w) : w.tx[i].conn \in Nat
        BY <3>1, NodeTypes DEF DataOf, ConnectsOf
      <4>2. QED
        BY <1>1, <3>1, <4>1 DEF SenderConns
    <3>4. QED
      BY <2>4, <3>1, <3>2, <3>3 DEF Belongs
  <2>7. Belongs(r, n, u, v)
    <3>1. Belongs(s, n, u, v)
      BY <2>6 DEF s
    <3>2. \A i \in DataOf(r) : n \in {u[r.tx[i].conn], v[r.tx[i].conn]}
      BY <1>2, <3>1 DEF Belongs
    <3>3. \A i \in ConnectsOf(r) : n = u[r.tx[i].conn] /\ r.tx[i].dst = v[r.tx[i].conn]
      BY <1>2, <2>4, <3>1 DEF Belongs
    <3>4. QED
      BY <1>1, <2>4, <3>2, <3>3 DEF Belongs
  <2>8. EndsOf(g, u, v)
    BY <1>11, <2>6, <2>7 DEF EndsOf
  <2>9. QED
    BY <2>3, <2>5, <2>8 DEF Ends
<1>13. NotAgain(g)
  <2>1. \A p, m \in Node : Got(g[p], m) = Got(f[p], m)
    BY <1>2, <1>11 DEF s
  <2>2. \A p, m \in Node : \A e \in Got(f[p], m) : e.gotIn # b
    <3>1. \A p, m \in Node : FifoInv(f[m], f[p], m, c)
      BY DEF Order, Pairs
    <3>2. QED
      BY <1>1, <1>8, <3>1
  <2>3. \A p \in Node : \A i \in ConnectsOf(g[p]) :
            \/ i \in ConnectsOf(f[p]) /\ g[p].tx[i] = f[p].tx[i]
            \/ g[p].tx[i].conn = b
    BY <1>2, <1>11 DEF s
  <2>4. ASSUME NEW p \in Node, NEW k \in Node, NEW m \in Node, NEW i \in ConnectsOf(g[p]),
               g[p].tx[i].dst = k, NEW e \in Got(g[k], m)
        PROVE  ~(InConnection(e) /\ e.gotIn = g[p].tx[i].conn)
    <3>1. e \in Got(f[k], m) /\ e.gotIn # b
      BY <2>1, <2>2, <2>4
    <3>2. CASE i \in ConnectsOf(f[p]) /\ g[p].tx[i] = f[p].tx[i]
      BY <2>4, <3>1, <3>2 DEF Order, NotAgain
    <3>3. CASE g[p].tx[i].conn = b
      BY <3>1, <3>3
    <3>4. QED
      BY <2>3, <3>2, <3>3
  <2>5. QED
    BY <2>4 DEF NotAgain
<1>14. \A m \in Node : InOrder(r.delivered[m])
  BY <1>1 DEF Order, Deliveries, s
<1>15. Order(g, b)
  BY <1>1, <1>3, <1>5, <1>7, <1>9, <1>10, <1>12, <1>13, <1>14, Changed DEF g
<1>16. QED
  BY <1>15 DEF b, g

\* The sequence numbers of a step.  A number of h or b is set:
Put(h, n, k, v) == [h EXCEPT ![n] = [h[n] EXCEPT ![k] = v]]

\* u is Put(h, n, k, v), entry by entry.
IsPut(u, h, n, k, v) ==
    /\ u \in Numbering /\ u[n][k] = v
    /\ \A i \in Nat : i # k => u[n][i] = h[n][i]
    /\ \A p \in Node : p # n => u[p] = h[p]

LEMMA PutIs ==
    ASSUME NEW h \in Numbering, NEW n \in Node, NEW k \in Nat, NEW v \in Nat
    PROVE  IsPut(Put(h, n, k, v), h, n, k, v)
<1>1. h \in [Node -> [Nat -> Nat]] /\ h[n] \in [Nat -> Nat]
  BY DEF Numbering
<1> DEFINE w == [h[n] EXCEPT ![k] = v]
<1>2. w \in [Nat -> Nat] /\ w[k] = v /\ \A i \in Nat : i # k => w[i] = h[n][i]
  BY <1>1
<1> HIDE DEF w
<1> DEFINE u == [h EXCEPT ![n] = w]
<1>3. u \in [Node -> [Nat -> Nat]] /\ u[n] = w /\ \A p \in Node : p # n => u[p] = h[p]
  BY <1>1, <1>2
<1>4. u = Put(h, n, k, v)
  BY DEF Put, w
<1> HIDE DEF u
<1>5. QED
  BY <1>2, <1>3, <1>4 DEF Numbering, IsPut

\* What RoundsOf says of two devices
LEMMA RoundsAt ==
    ASSUME NEW f, NEW c, Order(f, c), NEW h \in Numbering, NEW b \in Numbering, RoundsOf(f, c, h, b),
           NEW m \in Node, NEW n \in Node
    PROVE  /\ f[m] \in NodeState /\ SenderInv(f[m]) /\ SenderConns(f[m], c) /\ c \in Nat
           /\ FifoInv(f[m], f[n], m, c) /\ ConnInv(f[m], f[n], m)
           /\ Writes(f[m], h[m], b[m], c)
           /\ Records(f[n].delivered[m], h[m]) /\ Continues(f[n], f[n].delivered[m], b[m])
           /\ h[m] \in [Nat -> Nat] /\ b[m] \in [Nat -> Nat]
           /\ f[n].delivered[m] \in Seq(Delivery) /\ Len(f[n].delivered[m]) \in Nat
           /\ \A i \in 1 .. Len(f[n].delivered[m]) :
                 /\ f[n].delivered[m][i] \in Got(f[n], m)
                 /\ f[n].delivered[m][i].id \in 1 .. f[m].sent
                 /\ f[n].delivered[m][i].gotIn \in 0 .. c
<1>1. /\ f[m] \in NodeState /\ f[n] \in NodeState /\ SenderInv(f[m]) /\ SenderConns(f[m], c) /\ c \in Nat
      /\ FifoInv(f[m], f[n], m, c) /\ ConnInv(f[m], f[n], m)
  BY DEF Order, Senders, Pairs
<1>2. /\ Writes(f[m], h[m], b[m], c)
      /\ Records(f[n].delivered[m], h[m]) /\ Continues(f[n], f[n].delivered[m], b[m])
  BY DEF RoundsOf, Reads
<1>3. h[m] \in [Nat -> Nat] /\ b[m] \in [Nat -> Nat]
  BY DEF Numbering
<1>4. f[n].delivered[m] \in Seq(Delivery)
  BY <1>1 DEF NodeState
<1> DEFINE d == f[n].delivered[m]
<1>5. d \in Seq(Delivery) /\ Len(d) \in Nat
  BY <1>4
<1>6. ASSUME NEW i \in 1 .. Len(d)
      PROVE  d[i] \in Got(f[n], m) /\ d[i].id \in 1 .. f[m].sent /\ d[i].gotIn \in 0 .. c
  <2>1. d[i] \in Got(f[n], m)
    BY DEF Got
  <2>2. d[i].id \in Nat /\ d[i].gotIn \in Nat /\ f[m].sent \in Nat
    BY <1>1, <2>1, NodeTypes
  <2>3. d[i].id > 0
    BY <1>2 DEF Records
  <2>4. d[i].id <= f[m].sent /\ d[i].gotIn <= c
    BY <1>1, <2>1 DEF FifoInv
  <2>5. QED
    BY <1>1, <2>1, <2>2, <2>3, <2>4
<1>7. QED
  BY <1>1, <1>2, <1>3, <1>5, <1>6

\* A calm step only takes telegrams out of the queue, or leaves the connection.
LEMMA CalmRounds ==
    ASSUME NEW f, NEW c, Order(f, c), NEW n \in Node, NEW r, Calm(f[n], r),
           NEW h \in Numbering, NEW b \in Numbering, RoundsOf(f, c, h, b)
    PROVE  RoundsOf([f EXCEPT ![n] = r], c, h, b)
<1> DEFINE g == [f EXCEPT ![n] = r]
           s == f[n]
<1>1. /\ f \in [Node -> NodeState] /\ c \in Nat /\ r \in NodeState
      /\ g[n] = r /\ \A p \in Node : p # n => g[p] = f[p]
      /\ r.delivered = s.delivered /\ r.sent = s.sent
      /\ r.conn \in {s.conn, 0}
      /\ r.currentState # "Closed" => s.currentState # "Closed" /\ r.conn = s.conn /\ SameNumbers(s, r)
      /\ Waits(r) => Waits(s)
  BY DEF Order, Calm
<1>2. PICK k \in Nat :
          /\ \A i \in DataOf(r) : i \in Nat /\ i + k \in DataOf(s) /\ r.tx[i] = s.tx[i + k]
          /\ \A i \in ConnectsOf(r) : i \in Nat /\ i + k \in ConnectsOf(s) /\ r.tx[i] = s.tx[i + k]
  BY CalmQueue
<1> HIDE DEF g, s
<1>3. /\ s \in NodeState /\ s.conn \in Nat /\ Writes(s, h[n], b[n], c) /\ b[n] \in [Nat -> Nat]
  BY <1>1, RoundsAt, NodeTypes DEF s
<1>4. Writes(r, h[n], b[n], c)
  <2>1. \A i \in DataOf(r) : /\ h[n][r.tx[i].id] = r.tx[i].conn
                             /\ Aligned(b[n][r.tx[i].conn], r.tx[i].seq, r.tx[i].id)
    BY <1>2, <1>3 DEF Writes
  <2>2. Waits(r) => h[n][r.sent] = r.conn
    BY <1>1, <1>3 DEF Writes, Waits
  <2>3. ASSUME r.currentState # "Closed"
        PROVE  /\ Aligned(b[n][r.conn], r.seqNoSend, Due(r))
               /\ \A i \in 1 .. r.sent : h[n][i] = r.conn => \A l \in i .. r.sent : h[n][l] = r.conn
    <3>1. b[n][s.conn] \in Nat /\ Aligned(b[n][s.conn], s.seqNoSend, Due(s))
      BY <1>1, <1>3, <2>3 DEF Writes
    <3>2. Aligned(b[n][s.conn], r.seqNoSend, Due(r))
      BY <1>1, <2>3, <3>1 DEF SameNumbers
    <3>3. QED
      BY <1>1, <1>3, <2>3, <3>2 DEF Writes
  <2>4. QED
    BY <1>1, <1>3, <2>1, <2>2, <2>3 DEF Writes
<1>5. ASSUME NEW m \in Node PROVE Reads(r, r.delivered[m], h[m], b[m])
  <2>1. /\ Records(s.delivered[m], h[m]) /\ Continues(s, s.delivered[m], b[m]) /\ ConnInv(f[m], s, m)
        /\ \A i \in 1 .. Len(s.delivered[m]) : s.delivered[m][i] \in Got(s, m)
    BY RoundsAt DEF s
  <2>2. CASE r.currentState \notin Open
    BY <1>1, <2>1, <2>2 DEF Reads, Continues
  <2>3. CASE s.currentState = "Connecting" /\ r.currentState \in Open
    <3>1. \A i \in 1 .. Len(s.delivered[m]) : s.delivered[m][i].gotIn # s.conn
      BY <2>1, <2>3 DEF ConnInv
    <3>2. r.conn = s.conn
      BY <1>1, <2>3 DEF Open
    <3>3. QED
      BY <1>1, <2>1, <3>1, <3>2 DEF Reads, Continues
  <2>4. CASE s.currentState \in Open /\ r.currentState \in Open /\ r.seqNoRecv = s.seqNoRecv
    <3>1. r.conn = s.conn
      BY <1>1, <2>4 DEF Open
    <3>2. QED
      BY <1>1, <2>1, <2>4, <3>1 DEF Reads, Continues
  <2>5. QED
    BY <2>2, <2>3, <2>4 DEF Calm, s
<1>6. \A p \in Node : \A i \in ConnectsOf(g[p]) :
         \E j \in ConnectsOf(f[p]) : g[p].tx[i] = f[p].tx[j]
  BY <1>1, <1>2 DEF s
<1>7. Pending(g, h)
  <2>1. ASSUME NEW p \in Node, NEW q \in Node, NEW i \in ConnectsOf(g[p]), g[p].tx[i].dst = q
        PROVE  /\ g[q].conn # g[p].tx[i].conn
               /\ \A a \in 1 .. g[q].sent : h[q][a] # g[p].tx[i].conn
    <3>1. PICK j \in ConnectsOf(f[p]) : g[p].tx[i] = f[p].tx[j]
      BY <1>6
    <3>2. /\ f[q].conn # f[p].tx[j].conn
          /\ \A a \in 1 .. f[q].sent : h[q][a] # f[p].tx[j].conn
      BY <2>1, <3>1 DEF RoundsOf, Pending
    <3>3. f[p].tx[j].conn # 0
      BY RoundsAt DEF SenderConns
    <3>4. g[q].conn \in {f[q].conn, 0} /\ g[q].sent = f[q].sent
      BY <1>1 DEF s
    <3>5. QED
      BY <3>1, <3>2, <3>3, <3>4
  <2>2. QED
    BY <2>1 DEF Pending
<1>8. OneConnect(g)
  <2>1. ASSUME NEW p \in Node, NEW q \in Node, NEW i \in ConnectsOf(g[p]), NEW j \in ConnectsOf(g[q]),
               g[p].tx[i].conn = g[q].tx[j].conn
        PROVE  p = q /\ i = j
    <3>1. /\ \E l \in ConnectsOf(f[p]) : g[p].tx[i] = f[p].tx[l]
          /\ \E l \in ConnectsOf(f[q]) : g[q].tx[j] = f[q].tx[l]
      BY <1>6
    <3>2. p = q
      BY <2>1, <3>1 DEF RoundsOf, OneConnect
    <3>3. CASE p = n
      <4>1. i + k \in ConnectsOf(s) /\ j + k \in ConnectsOf(s) /\ i \in Nat /\ j \in Nat
            /\ r.tx[i] = s.tx[i + k] /\ r.tx[j] = s.tx[j + k]
        BY <1>1, <1>2, <3>2, <3>3
      <4>2. s.tx[i + k].conn = s.tx[j + k].conn
        BY <1>1, <2>1, <3>2, <3>3, <4>1
      <4>3. i + k = j + k
        BY <4>1, <4>2 DEF RoundsOf, OneConnect, s
      <4>4. QED
        BY <3>2, <4>1, <4>3
    <3>4. CASE p # n
      BY <1>1, <2>1, <3>2, <3>4 DEF RoundsOf, OneConnect
    <3>5. QED
      BY <3>2, <3>3, <3>4
  <2>2. QED
    BY <2>1 DEF OneConnect
<1>9. RoundsOf(g, c, h, b)
  <2>1. \A m \in Node : Writes(g[m], h[m], b[m], c)
    BY <1>1, <1>4 DEF RoundsOf
  <2>2. \A m, p \in Node : Reads(g[p], g[p].delivered[m], h[m], b[m])
    BY <1>1, <1>5 DEF RoundsOf
  <2>3. QED
    BY <1>7, <1>8, <2>1, <2>2 DEF RoundsOf
<1>10. QED
  BY <1>9 DEF g

\* The next telegram is numbered in the connection of its device, as the one after its last.
LEMMA NumberRounds ==
    ASSUME NEW f, NEW c, Order(f, c), NEW n \in Node, NEW r, Numbers(f[n], r),
           NEW h \in Numbering, NEW b \in Numbering, RoundsOf(f, c, h, b)
    PROVE  Rounds([f EXCEPT ![n] = r], c)
<1> DEFINE g == [f EXCEPT ![n] = r]
           s == f[n]
           l == s.sent + 1
           u == Put(h, n, l, s.conn)
<1>1. /\ f \in [Node -> NodeState] /\ c \in Nat /\ r \in NodeState
      /\ g[n] = r /\ \A p \in Node : p # n => g[p] = f[p]
      /\ r.delivered = s.delivered /\ r.tx = s.tx
      /\ r.sent = l /\ r.conn = s.conn /\ r.seqNoRecv = s.seqNoRecv
      /\ s.currentState = "OpenIdle" /\ r.currentState = "OpenWait" /\ r.seqNoSend = s.seqNoSend
      /\ DataOf(r) = DataOf(s) /\ ConnectsOf(r) = ConnectsOf(s)
  BY SameQueues DEF Order, Numbers, SameTelegrams
<1>2. /\ s \in NodeState /\ s.conn \in Nat /\ s.sent \in Nat /\ l \in Nat /\ s.conn <= c
      /\ Writes(s, h[n], b[n], c) /\ SenderInv(s)
  <2>1. /\ s \in NodeState /\ Writes(s, h[n], b[n], c) /\ SenderInv(s) /\ SenderConns(s, c)
    BY RoundsAt
  <2>2. QED
    BY <2>1, NodeTypes DEF SenderConns
<1>4. /\ 1 .. l = 1 .. s.sent \cup {l} /\ l \notin 1 .. s.sent
      /\ \A i \in 1 .. s.sent : i \in Nat /\ i # l
  BY <1>2
<1>3. /\ u \in Numbering /\ u[n][l] = s.conn /\ \A i \in 1 .. s.sent : u[n][i] = h[n][i]
      /\ \A p \in Node : p # n => u[p] = h[p]
  <2>1. IsPut(u, h, n, l, s.conn)
    <3> HIDE DEF s, l
    <3>1. QED
      BY <1>2, PutIs
  <2> HIDE DEF u, l, s
  <2>2. QED
    BY <1>4, <2>1 DEF IsPut
<1>5. Due(r) = Due(s) /\ Due(s) = l
  BY <1>1 DEF Due, Waits
<1> HIDE DEF g, s, u
<1>6. Writes(r, u[n], b[n], c)
  <2>1. ASSUME NEW i \in DataOf(r)
        PROVE  u[n][r.tx[i].id] = r.tx[i].conn /\ Aligned(b[n][r.tx[i].conn], r.tx[i].seq, r.tx[i].id)
    <3>1. i \in DataOf(s) /\ s.tx[i].id \in 1 .. s.sent
      <4>1. s.tx[i].id \in Nat
        BY <1>1, <1>2, NodeTypes DEF DataOf
      <4>2. QED
        BY <1>1, <1>2, <4>1 DEF SenderInv
    <3>2. QED
      BY <1>1, <1>2, <1>3, <3>1 DEF Writes
  <2>2. Aligned(b[n][r.conn], r.seqNoSend, Due(r))
    BY <1>1, <1>2, <1>5 DEF Writes
  <2>3. \A i \in 1 .. s.sent : h[n][i] = s.conn => \A j \in i .. s.sent : h[n][j] = s.conn
    BY <1>1, <1>2 DEF Writes
  <2>4. ASSUME NEW i \in 1 .. r.sent, u[n][i] = r.conn, NEW j \in i .. r.sent
        PROVE  u[n][j] = r.conn
    <3>1. j = l \/ (i \in 1 .. s.sent /\ j \in i .. s.sent /\ j \in 1 .. s.sent)
      BY <1>1, <1>2, <1>4, <2>4
    <3>2. QED
      BY <1>1, <1>3, <2>3, <2>4, <3>1
  <2>5. ASSUME NEW i \in 1 .. r.sent, NEW j \in 1 .. r.sent, NEW k \in 1 .. r.sent,
               i < j, j < k, u[n][i] = u[n][k]
        PROVE  u[n][j] = u[n][i]
    <3>1. i \in 1 .. s.sent /\ j \in 1 .. s.sent /\ (k = l \/ k \in 1 .. s.sent)
      BY <1>1, <1>2, <1>4, <2>5
    <3>2. CASE k = l
      <4>1. j \in i .. s.sent /\ h[n][i] = s.conn
        BY <1>3, <2>5, <3>1, <3>2
      <4>2. QED
        BY <1>3, <2>3, <3>1, <4>1
    <3>3. CASE k \in 1 .. s.sent
      BY <1>2, <1>3, <2>5, <3>1, <3>3 DEF Writes
    <3>4. QED
      BY <3>1, <3>2, <3>3
  <2>6. \A i \in 1 .. r.sent : u[n][i] <= c
    BY <1>1, <1>2, <1>3, <1>4 DEF Writes
  <2>7. QED
    BY <1>1, <1>3, <2>1, <2>2, <2>4, <2>5, <2>6 DEF Writes
<1>7. ASSUME NEW m \in Node, NEW p \in Node
      PROVE  Reads(g[p], g[p].delivered[m], u[m], b[m])
  <2> DEFINE d == f[p].delivered[m]
  <2>1. /\ Records(d, h[m]) /\ Continues(f[p], d, b[m])
        /\ \A i \in 1 .. Len(d) : d[i].id \in 1 .. f[m].sent
    BY RoundsAt
  <2>2. /\ g[p].delivered[m] = d /\ g[p].conn = f[p].conn /\ g[p].seqNoRecv = f[p].seqNoRecv
        /\ g[p].currentState \in Open => f[p].currentState \in Open
    BY <1>1 DEF s, Open
  <2>3. \A i \in 1 .. f[m].sent : u[m][i] = h[m][i]
    BY <1>3 DEF s
  <2> HIDE DEF d
  <2>4. Records(d, u[m])
    BY <2>1, <2>3 DEF Records
  <2>5. Continues(g[p], d, b[m])
    BY <2>1, <2>2 DEF Continues
  <2>6. QED
    BY <2>2, <2>4, <2>5 DEF Reads
<1>8. \A p \in Node : /\ ConnectsOf(g[p]) = ConnectsOf(f[p]) /\ g[p].tx = f[p].tx
                      /\ g[p].conn = f[p].conn
  BY <1>1 DEF s
<1>9. Pending(g, u)
  <2>1. ASSUME NEW p \in Node, NEW q \in Node, NEW i \in ConnectsOf(g[p]), g[p].tx[i].dst = q
        PROVE  /\ g[q].conn # g[p].tx[i].conn
               /\ \A a \in 1 .. g[q].sent : u[q][a] # g[p].tx[i].conn
    <3>1. /\ f[q].conn # f[p].tx[i].conn
          /\ \A a \in 1 .. f[q].sent : h[q][a] # f[p].tx[i].conn
      BY <1>8, <2>1 DEF RoundsOf, Pending
    <3>2. CASE q = n
      BY <1>1, <1>3, <1>4, <1>8, <3>1, <3>2 DEF s
    <3>3. CASE q # n
      BY <1>1, <1>3, <1>8, <3>1, <3>3
    <3>4. QED
      BY <3>2, <3>3
  <2>2. QED
    BY <2>1 DEF Pending
<1>10. OneConnect(g)
  BY <1>8 DEF RoundsOf, OneConnect
<1>11. \A m \in Node : Writes(g[m], u[m], b[m], c)
  BY <1>1, <1>3, <1>6 DEF RoundsOf
<1>12. RoundsOf(g, c, u, b)
  BY <1>7, <1>9, <1>10, <1>11 DEF RoundsOf
<1>13. QED
  BY <1>3, <1>12 DEF Rounds, g

\* What is sent is the telegram that waits, or a copy of it.
LEMMA SendRounds ==
    ASSUME NEW f, NEW c, Order(f, c), NEW n \in Node, NEW r, NEW t, Sends(f[n], r, t),
           NEW h \in Numbering, NEW b \in Numbering, RoundsOf(f, c, h, b)
    PROVE  RoundsOf([f EXCEPT ![n] = r], c, h, b)
<1> DEFINE g == [f EXCEPT ![n] = r]
           s == f[n]
           L == Len(s.tx) + 1
<1>1. /\ f \in [Node -> NodeState] /\ c \in Nat /\ s \in NodeState /\ s.tx \in Seq(Telegram)
      /\ g[n] = r /\ \A p \in Node : p # n => g[p] = f[p]
      /\ r.delivered = s.delivered /\ r.sent = s.sent /\ r.conn = s.conn
      /\ r.seqNoRecv = s.seqNoRecv /\ r.seqNoSend = s.seqNoSend
      /\ r.currentState = "OpenWait" /\ s.currentState = "OpenWait"
      /\ t.id = s.sent /\ t.seq = s.seqNoSend /\ t.conn = s.conn /\ t.type = "DataConnected"
  BY NodeTypes DEF Order, Sends, Waits
<1>2. /\ r.tx[L] = t
      /\ \A i \in DataOf(s) \cup ConnectsOf(s) : r.tx[i] = s.tx[i]
      /\ DataOf(r) = DataOf(s) \cup {L} /\ ConnectsOf(r) = ConnectsOf(s)
  <2>1. Puts(s, r, t)
    BY <1>1 DEF Sends, Puts
  <2> HIDE DEF s
  <2>2. QED
    BY <1>1, <2>1, Appended
<1>3. Due(r) = Due(s) /\ Due(s) = s.sent
  BY <1>1 DEF Due, Waits
<1>4. Writes(s, h[n], b[n], c)
  BY RoundsAt
<1> HIDE DEF g, s, L
<1>5. Writes(r, h[n], b[n], c)
  <2>1. /\ h[n][s.sent] = s.conn /\ Aligned(b[n][s.conn], s.seqNoSend, s.sent)
        /\ \A i \in 1 .. s.sent : h[n][i] = s.conn => \A k \in i .. s.sent : h[n][k] = s.conn
    BY <1>1, <1>3, <1>4 DEF Writes, Waits
  <2>2. \A i \in DataOf(r) : /\ h[n][r.tx[i].id] = r.tx[i].conn
                             /\ Aligned(b[n][r.tx[i].conn], r.tx[i].seq, r.tx[i].id)
    BY <1>1, <1>2, <1>4, <2>1 DEF Writes
  <2>3. QED
    BY <1>1, <1>3, <1>4, <2>1, <2>2 DEF Writes
<1>6. ASSUME NEW m \in Node, NEW p \in Node
      PROVE  Reads(g[p], g[p].delivered[m], h[m], b[m])
  <2>1. Records(f[p].delivered[m], h[m]) /\ Continues(f[p], f[p].delivered[m], b[m])
    BY RoundsAt
  <2>2. /\ g[p].delivered[m] = f[p].delivered[m] /\ g[p].conn = f[p].conn
        /\ g[p].seqNoRecv = f[p].seqNoRecv /\ g[p].currentState = f[p].currentState
    BY <1>1 DEF s
  <2>3. QED
    BY <2>1, <2>2 DEF Reads, Continues
<1>7. /\ \A p \in Node : /\ ConnectsOf(g[p]) = ConnectsOf(f[p]) /\ g[p].conn = f[p].conn
                          /\ g[p].sent = f[p].sent
      /\ \A p \in Node : \A i \in ConnectsOf(f[p]) : g[p].tx[i] = f[p].tx[i]
  BY <1>1, <1>2 DEF s
<1>8. Pending(g, h) /\ OneConnect(g)
  <2>1. Pending(g, h)
    BY <1>7 DEF RoundsOf, Pending
  <2>2. OneConnect(g)
    BY <1>7, SMTT(60) DEF RoundsOf, OneConnect
  <2>3. QED
    BY <2>1, <2>2
<1>9. \A m \in Node : Writes(g[m], h[m], b[m], c)
  BY <1>1, <1>5 DEF RoundsOf
<1>10. RoundsOf(g, c, h, b)
  BY <1>6, <1>8, <1>9 DEF RoundsOf
<1>11. QED
  BY <1>10 DEF g

\* A telegram indicated has the sequence number expected, so it is the next one but for rounds.
LEMMA IndicateRounds ==
    ASSUME NEW f, NEW c, Order(f, c), NEW n \in Node, NEW m \in Node, m # n,
           f[m].tx # <<>>, NEW t, t = Head(f[m].tx), t.type = "DataConnected",
           NEW r, Indicates(f[n], r, m, t),
           NEW h \in Numbering, NEW b \in Numbering, RoundsOf(f, c, h, b)
    PROVE  RoundsOf([f EXCEPT ![n] = r], c, h, b)
<1> DEFINE g == [f EXCEPT ![n] = r]
           s == f[n]
           q == f[m]
           e == [id |-> t.id, sentIn |-> t.conn, gotIn |-> s.conn]
           d == s.delivered[m]
           D == r.delivered[m]
           L == Len(d) + 1
<1>1. /\ f \in [Node -> NodeState] /\ c \in Nat /\ s \in NodeState
      /\ g[n] = r /\ \A p \in Node : p # n => g[p] = f[p]
      /\ s.currentState \in Open /\ s.connectionAddress = m /\ t.seq = s.seqNoRecv
      /\ r.tx = s.tx /\ r.sent = s.sent /\ r.conn = s.conn
      /\ r.currentState = s.currentState /\ r.seqNoRecv = IncSeqNr(s.seqNoRecv)
      /\ r.seqNoSend = s.seqNoSend
      /\ r.delivered = [s.delivered EXCEPT ![m] = Append(@, e)]
  BY DEF Order, Indicates
<1>2. /\ 1 \in DataOf(q) /\ t = q.tx[1] /\ t \in Telegram
      /\ t.id > 0 /\ t.id <= q.sent
      /\ \A x \in Got(s, m) : x.id <= t.id
  <2>1. f[n].currentState \in Open /\ f[n].connectionAddress = m /\ t.seq = f[n].seqNoRecv
    BY <1>1
  <2> HIDE DEF s, q
  <2>2. /\ 1 \in DataOf(f[m]) /\ t = f[m].tx[1] /\ t \in Telegram
        /\ t.id > 0 /\ t.id <= f[m].sent
        /\ \A x \in Got(f[n], m) : x.id <= t.id
    BY ONLY <2>1, HeadIsNew, Order(f, c), n \in Node, m \in Node,
            f[m].tx # <<>>, t = Head(f[m].tx), t.type = "DataConnected"
  <2>3. QED
    BY <2>2 DEF s, q
<1>3. /\ Writes(q, h[m], b[m], c) /\ Records(d, h[m]) /\ Continues(s, d, b[m])
      /\ b[m] \in [Nat -> Nat]
      /\ d \in Seq(Delivery) /\ Len(d) \in Nat
      /\ \A i \in 1 .. Len(d) : d[i] \in Got(s, m) /\ d[i].id \in 1 .. q.sent
  BY RoundsAt
<1>4. /\ s.delivered \in [Node -> Seq(Delivery)] /\ e \in Delivery
      /\ e.id = t.id /\ e.sentIn = t.conn /\ e.gotIn = s.conn
      /\ t.id \in Nat /\ t.conn \in Nat /\ t.seq \in SeqNo /\ s.conn \in Nat
      /\ q.sent \in Nat
  <2>1. q \in NodeState
    BY <1>1
  <2>2. QED
    BY <1>1, <1>2, <2>1 DEF NodeState, Telegram, Delivery
<1>5. D = Append(d, e) /\ \A p \in Node : p # m => r.delivered[p] = s.delivered[p]
  BY <1>1, <1>4
<1> HIDE DEF g, s, q, e, d, D
<1>6. /\ Len(D) = L /\ D[L] = e /\ \A i \in 1 .. Len(d) : D[i] = d[i]
      /\ 1 .. L = 1 .. Len(d) \cup {L} /\ L \notin 1 .. Len(d)
      /\ \A i, j \in 1 .. L : i < j => i \in 1 .. Len(d)
  <2>1. Len(D) = L /\ D[L] = e /\ \A i \in 1 .. Len(d) : D[i] = d[i]
    BY <1>3, <1>4, <1>5
  <2>2. ASSUME NEW N \in Nat
        PROVE  /\ 1 .. N + 1 = 1 .. N \cup {N + 1} /\ N + 1 \notin 1 .. N
               /\ \A i, j \in 1 .. N + 1 : i < j => i \in 1 .. N
    OBVIOUS
  <2>3. QED
    BY <1>3, <2>1, <2>2
<1>7. h[m][t.id] = t.conn /\ Aligned(b[m][t.conn], t.seq, t.id) /\ t.id \in 1 .. q.sent
  <2>1. h[m][t.id] = t.conn /\ Aligned(b[m][t.conn], t.seq, t.id)
    BY <1>2, <1>3 DEF Writes
  <2>2. QED
    BY <1>2, <1>4, <2>1
\* The last telegram of this connection is the last of all.
<1>8. ASSUME NEW i \in 1 .. Len(d), InConnection(d[i]), d[i].gotIn = s.conn, t.conn = s.conn,
             \A k \in i + 1 .. Len(d) : ~InConnection(d[k])
      PROVE  t.id % SeqMod = (d[i].id + 1) % SeqMod
  <2>1. /\ \A j \in i .. Len(d) : d[j].gotIn = s.conn
        /\ i = Len(d) => Aligned(b[m][s.conn], s.seqNoRecv, d[i].id + 1)
    BY <1>1, <1>3, <1>8 DEF Continues
  <2>2. ASSUME i # Len(d) PROVE FALSE
    <3> DEFINE k == i + 1
    <3>1. k \in 1 .. Len(d) /\ k \in i .. Len(d) /\ k \in i + 1 .. Len(d) /\ i < k
      <4>1. \A N \in Nat : \A x \in 1 .. N : x # N =>
               x + 1 \in 1 .. N /\ x + 1 \in x .. N /\ x + 1 \in x + 1 .. N /\ x < x + 1
        OBVIOUS
      <4>2. QED
        BY <1>3, <2>2, <4>1
    <3> HIDE DEF k
    <3>2. d[k].gotIn = s.conn /\ ~InConnection(d[k])
      BY <1>8, <2>1, <3>1
    <3>3. h[m][d[i].id] = s.conn /\ h[m][d[k].id] # s.conn
      BY <1>3, <1>8, <3>1, <3>2 DEF Records, InConnection
    <3>4. d[i].id <= d[k].id /\ d[k].id <= t.id
      BY <1>2, <1>3, <3>1 DEF Records
    <3>5. d[i].id \in 1 .. q.sent /\ d[k].id \in 1 .. q.sent
      BY <1>3, <3>1
    <3>6. d[i].id # d[k].id /\ d[k].id # t.id
      BY <1>7, <1>8, <3>3
    <3>7. d[i].id < d[k].id /\ d[k].id < t.id
      BY <1>7, <3>4, <3>5, <3>6
    <3>8. \A x, y, z \in 1 .. q.sent : x < y /\ y < z /\ h[m][x] = h[m][z] => h[m][y] = h[m][x]
      BY <1>3 DEF Writes
    <3>9. h[m][d[k].id] = h[m][d[i].id]
      BY <1>7, <1>8, <3>3, <3>5, <3>7, <3>8
    <3>10. QED
      BY <3>3, <3>9
  <2>3. QED
    BY <1>1, <1>7, <1>8, <2>1, <2>2 DEF Aligned
<1>9. Records(D, h[m])
  <2>1. \A i \in 1 .. L : D[i].id > 0 /\ h[m][D[i].id] = D[i].sentIn
    BY <1>2, <1>3, <1>4, <1>6, <1>7 DEF Records
  <2>2. ASSUME NEW i \in 1 .. L, NEW j \in 1 .. L, i < j
        PROVE  D[i].id <= D[j].id
    <3>1. i \in 1 .. Len(d) /\ (j = L \/ j \in 1 .. Len(d))
      BY <1>6, <2>2
    <3>2. CASE j = L
      BY <1>2, <1>3, <1>4, <1>6, <3>1, <3>2
    <3>3. CASE j \in 1 .. Len(d)
      BY <1>3, <1>6, <2>2, <3>1, <3>3 DEF Records
    <3>4. QED
      BY <3>1, <3>2, <3>3
  <2>3. ASSUME NEW i \in 1 .. L, NEW j \in 1 .. L, i < j, InConnection(D[i]), InConnection(D[j]),
               D[i].gotIn = D[j].gotIn, \A k \in i + 1 .. j - 1 : ~InConnection(D[k])
        PROVE  D[j].id % SeqMod = (D[i].id + 1) % SeqMod
    <3>1. i \in 1 .. Len(d) /\ (j = L \/ j \in 1 .. Len(d)) /\ D[i] = d[i]
      BY <1>6, <2>3
    <3>2. CASE j = L
      <4>1. D[j] = e /\ t.conn = s.conn /\ d[i].gotIn = s.conn
        BY <1>4, <1>6, <2>3, <3>1, <3>2 DEF InConnection
      <4>2. \A k \in i + 1 .. Len(d) : k \in i + 1 .. j - 1 /\ k \in 1 .. Len(d)
        BY <1>3, <3>1, <3>2
      <4>3. \A k \in i + 1 .. Len(d) : ~InConnection(d[k])
        BY <1>6, <2>3, <4>2
      <4>4. t.id % SeqMod = (d[i].id + 1) % SeqMod
        BY <1>8, <2>3, <3>1, <4>1, <4>3
      <4>5. QED
        BY <1>4, <3>1, <4>1, <4>4
    <3>3. CASE j \in 1 .. Len(d)
      <4>1. InRounds(d)
        BY <1>3 DEF Records
      <4>2. \A k \in i + 1 .. j - 1 : k \in 1 .. Len(d)
        BY <1>3, <3>1, <3>3
      <4>3. \A k \in i + 1 .. j - 1 : ~InConnection(d[k])
        BY <1>6, <2>3, <4>2
      <4>4. QED
        BY <1>6, <2>3, <3>1, <3>3, <4>1, <4>3 DEF InRounds
    <3>4. QED
      BY <3>1, <3>2, <3>3
  <2>4. InRounds(D)
    BY <1>6, <2>3 DEF InRounds
  <2>5. QED
    BY <1>6, <2>1, <2>2, <2>4 DEF Records
<1>10. Continues(r, D, b[m])
  <2>1. ASSUME NEW i \in 1 .. L, InConnection(D[i]), D[i].gotIn = s.conn
        PROVE  /\ \A j \in i .. L : D[j].gotIn = s.conn
               /\ i = L => Aligned(b[m][s.conn], r.seqNoRecv, D[i].id + 1)
    <3>1. ASSUME NEW j \in i .. L PROVE D[j].gotIn = s.conn
      <4>1. j = L \/ (i \in 1 .. Len(d) /\ j \in i .. Len(d) /\ j \in 1 .. Len(d))
        <5>1. \A N \in Nat : \A x \in 1 .. N + 1 : \A y \in x .. N + 1 :
                 y = N + 1 \/ (x \in 1 .. N /\ y \in x .. N /\ y \in 1 .. N)
          OBVIOUS
        <5>2. QED
          BY <1>3, <3>1, <5>1
      <4>2. CASE j = L
        BY <1>4, <1>6, <4>2
      <4>3. CASE i \in 1 .. Len(d) /\ j \in i .. Len(d) /\ j \in 1 .. Len(d)
        <5>1. D[i] = d[i] /\ D[j] = d[j]
          BY <1>6, <4>3
        <5>2. QED
          BY <1>1, <1>3, <2>1, <4>3, <5>1 DEF Continues
      <4>4. QED
        BY <4>1, <4>2, <4>3
    <3>2. ASSUME i = L PROVE Aligned(b[m][s.conn], r.seqNoRecv, D[i].id + 1)
      <4>1. D[i].id = t.id /\ t.conn = s.conn
        BY <1>4, <1>6, <2>1, <3>2 DEF InConnection
      <4>2. b[m][t.conn] \in Nat
        BY <1>3, <1>4
      <4>3. Aligned(b[m][t.conn], IncSeqNr(t.seq), t.id + 1)
        BY <1>4, <1>7, <4>2, AlignedNext
      <4>4. QED
        BY <1>1, <4>1, <4>3
    <3>3. QED
      BY <3>1, <3>2
  <2>2. QED
    BY <1>1, <1>6, <2>1 DEF Continues
<1>11. ASSUME NEW p \in Node PROVE Reads(r, r.delivered[p], h[p], b[p])
  <2>1. CASE p = m
    BY <1>9, <1>10, <2>1 DEF Reads, D
  <2>2. CASE p # m
    <3> DEFINE D2 == s.delivered[p]
    <3>1. /\ Records(D2, h[p]) /\ ConnInv(f[p], s, p)
          /\ \A i \in 1 .. Len(D2) : D2[i] \in Got(s, p)
      BY RoundsAt DEF s
    <3>2. r.delivered[p] = D2
      BY <1>5, <2>2
    <3>3. \A i \in 1 .. Len(D2) : ~(InConnection(D2[i]) /\ D2[i].gotIn = s.conn)
      BY <1>1, <2>2, <3>1 DEF ConnInv
    <3> HIDE DEF D2
    <3>4. QED
      BY <1>1, <3>1, <3>2, <3>3, ZenonT(60) DEF Reads, Continues
  <2>3. QED
    BY <2>1, <2>2
<1>12. DataOf(r) = DataOf(s) /\ ConnectsOf(r) = ConnectsOf(s) /\ Waits(r) = Waits(s) /\ Due(r) = Due(s)
  BY <1>1 DEF DataOf, ConnectsOf, Waits, Due
<1>13. Writes(r, h[n], b[n], c)
  <2>1. Writes(s, h[n], b[n], c)
    BY RoundsAt DEF s
  <2>2. QED
    BY <1>1, <1>12, <2>1 DEF Writes
<1>14. \A p \in Node : /\ ConnectsOf(g[p]) = ConnectsOf(f[p]) /\ g[p].conn = f[p].conn
                       /\ g[p].sent = f[p].sent /\ g[p].tx = f[p].tx
  BY <1>1, <1>12 DEF s
<1>15. Pending(g, h) /\ OneConnect(g)
  <2>1. Pending(g, h)
    BY <1>14 DEF RoundsOf, Pending
  <2>2. OneConnect(g)
    BY <1>14 DEF RoundsOf, OneConnect
  <2>3. QED
    BY <2>1, <2>2
<1>16. \A p \in Node : Writes(g[p], h[p], b[p], c)
  BY <1>1, <1>13 DEF RoundsOf
<1>17. \A p, x \in Node : Reads(g[p], g[p].delivered[x], h[x], b[x])
  BY <1>1, <1>11 DEF RoundsOf
<1>18. RoundsOf(g, c, h, b)
  BY <1>15, <1>16, <1>17 DEF RoundsOf
<1>19. QED
  BY <1>18 DEF g

\* A connection newly requested has no telegram yet, so its numbers may start anywhere.
LEMMA ConnectRounds ==
    ASSUME NEW f, NEW c, Order(f, c), NEW n \in Node, NEW destination \in Node, destination # n,
           NEW r, Requests(f[n], r, destination, c + 1), r.seqNoSend = 0,
           NEW h \in Numbering, NEW b \in Numbering, RoundsOf(f, c, h, b)
    PROVE  Rounds([f EXCEPT ![n] = r], c + 1)
<1> DEFINE g == [f EXCEPT ![n] = r]
           s == f[n]
           k == c + 1
           l == s.sent + 1
           L == Len(s.tx) + 1
           u == Put(b, n, k, l)
<1>1. /\ f \in [Node -> NodeState] /\ c \in Nat /\ s \in NodeState
      /\ g[n] = r /\ \A p \in Node : p # n => g[p] = f[p]
      /\ r.delivered = s.delivered /\ r.sent = s.sent /\ r.conn = k
      /\ r.currentState = "Connecting" /\ ~Waits(r) /\ r.currentState \notin Open
      /\ s.sent \in Nat /\ l \in Nat /\ k \in Nat /\ c < k /\ c <= k
      /\ Due(r) = l
  BY NodeTypes DEF Order, Requests, Waits, Open, Due
<1>2. /\ DataOf(r) = DataOf(s) /\ \A i \in DataOf(s) : r.tx[i] = s.tx[i]
      /\ \A i \in ConnectsOf(r) : \/ i \in ConnectsOf(s) /\ r.tx[i] = s.tx[i]
                                  \/ i = L /\ r.tx[i].conn = k /\ r.tx[i].dst = destination
  <2>1. CASE r.tx = s.tx
    <3>1. DataOf(r) = DataOf(s) /\ ConnectsOf(r) = ConnectsOf(s)
      BY <2>1 DEF DataOf, ConnectsOf
    <3>2. QED
      BY <2>1, <3>1
  <2>2. ASSUME NEW t \in Telegram, Puts(s, r, t), t.type = "Connect", t.dst = destination, t.conn = k
        PROVE  /\ DataOf(r) = DataOf(s) /\ \A i \in DataOf(s) : r.tx[i] = s.tx[i]
               /\ \A i \in ConnectsOf(r) : \/ i \in ConnectsOf(s) /\ r.tx[i] = s.tx[i]
                                           \/ i = L /\ r.tx[i].conn = k /\ r.tx[i].dst = destination
    <3> HIDE DEF s, k
    <3>1. /\ r.tx[L] = t
          /\ \A i \in DataOf(s) \cup ConnectsOf(s) : r.tx[i] = s.tx[i]
          /\ t.type = "Connect" => /\ ConnectsOf(r) = ConnectsOf(s) \cup {L}
                                   /\ DataOf(r) = DataOf(s)
      BY <2>2, Appended
    <3>2. QED
      BY <2>2, <3>1
  <2>3. QED
    BY <2>1, <2>2 DEF Requests
<1>3. IsPut(u, b, n, k, l)
  <2> HIDE DEF s, l, k
  <2>1. QED
    BY <1>1, PutIs
<1>4. \A p \in Node : f[p].conn \in 0 .. c /\ f[p].conn # k
  <2>1. \A p \in Node : f[p].conn \in Nat /\ SenderConns(f[p], c)
    BY RoundsAt, NodeTypes
  <2>2. QED
    BY <1>1, <2>1 DEF SenderConns
<1>5. \A p \in Node : \A i \in DataOf(f[p]) \cup ConnectsOf(f[p]) :
         f[p].tx[i].conn \in 0 .. c /\ f[p].tx[i].conn # k
  <2>1. ASSUME NEW p \in Node, NEW i \in DataOf(f[p]) \cup ConnectsOf(f[p])
        PROVE  f[p].tx[i].conn \in 0 .. c /\ f[p].tx[i].conn # k
    <3>1. f[p] \in NodeState /\ SenderConns(f[p], c)
      BY RoundsAt
    <3>2. f[p].tx[i].conn \in Nat
      BY <3>1, NodeTypes DEF DataOf, ConnectsOf
    <3>3. f[p].tx[i].conn <= c
      BY <3>1 DEF SenderConns
    <3>4. QED
      BY <1>1, <3>2, <3>3
  <2>2. QED
    BY <2>1
<1>6. \A p \in Node : \A i \in 1 .. f[p].sent : h[p][i] \in 0 .. c /\ h[p][i] # k /\ h[p][i] <= k
  <2>1. ASSUME NEW p \in Node, NEW i \in 1 .. f[p].sent
        PROVE  h[p][i] \in 0 .. c /\ h[p][i] # k /\ h[p][i] <= k
    <3>1. Writes(f[p], h[p], b[p], c) /\ h[p] \in [Nat -> Nat] /\ f[p].sent \in Nat
      BY RoundsAt, NodeTypes
    <3>2. i \in Nat /\ h[p][i] <= c
      BY <3>1 DEF Writes
    <3>3. QED
      BY <1>1, <3>1, <3>2
  <2>2. QED
    BY <2>1
<1>7. \A p \in Node : \A i \in 0 .. c : u[p][i] = b[p][i]
  <2>1. \A i \in 0 .. c : i \in Nat /\ i # k
    BY <1>1
  <2> HIDE DEF u, k
  <2>2. QED
    BY <1>3, <2>1 DEF IsPut
<1> HIDE DEF g, s, u, k, L
<1>8. Writes(r, h[n], u[n], k)
  <2>1. Writes(s, h[n], b[n], c)
    BY RoundsAt DEF s
  <2>2. \A i \in DataOf(r) : /\ h[n][r.tx[i].id] = r.tx[i].conn
                             /\ Aligned(u[n][r.tx[i].conn], r.tx[i].seq, r.tx[i].id)
    BY <1>2, <1>5, <1>7, <2>1 DEF Writes, s
  <2>3. Aligned(u[n][r.conn], r.seqNoSend, Due(r))
    <3>1. u[n][k] = l /\ l + 0 = l
      BY <1>1, <1>3 DEF IsPut
    <3>2. QED
      BY <1>1, <3>1 DEF Aligned
  <2>4. \A i \in 1 .. r.sent : h[n][i] # r.conn /\ h[n][i] <= k
    BY <1>1, <1>6 DEF s
  <2>5. \A i, j, x \in 1 .. r.sent : i < j /\ j < x /\ h[n][i] = h[n][x] => h[n][j] = h[n][i]
    BY <1>1, <2>1 DEF Writes
  <2>6. QED
    BY <1>1, <2>2, <2>3, <2>4, <2>5 DEF Writes
<1>9. ASSUME NEW p \in Node, p # n PROVE Writes(f[p], h[p], u[p], k)
  <2>1. Writes(f[p], h[p], b[p], c)
    BY RoundsAt
  <2>2. u[p] = b[p] /\ \A i \in 1 .. f[p].sent : h[p][i] <= k
    BY <1>3, <1>6, <1>9 DEF IsPut
  <2>3. QED
    BY <2>1, <2>2 DEF Writes
<1>10. ASSUME NEW m \in Node, NEW p \in Node
       PROVE  Reads(g[p], g[p].delivered[m], h[m], u[m])
  <2>1. Records(f[p].delivered[m], h[m]) /\ Continues(f[p], f[p].delivered[m], b[m])
    BY RoundsAt
  <2>2. u[m][f[p].conn] = b[m][f[p].conn]
    BY <1>4, <1>7
  <2>3. CASE p = n
    BY <1>1, <2>1, <2>3 DEF Reads, Continues, s
  <2>4. CASE p # n
    <3>1. g[p] = f[p]
      BY <1>1, <2>4
    <3> DEFINE d == f[p].delivered[m]
    <3>2. g[p].delivered[m] = d /\ Records(d, h[m]) /\ Continues(f[p], d, b[m])
      BY <2>1, <3>1
    <3> HIDE DEF d
    <3>3. Continues(g[p], d, u[m])
      BY <2>2, <3>1, <3>2 DEF Continues
    <3>4. QED
      BY <3>2, <3>3 DEF Reads
  <2>5. QED
    BY <2>3, <2>4
<1>11. \A p \in Node : \A i \in ConnectsOf(g[p]) :
          \/ i \in ConnectsOf(f[p]) /\ g[p].tx[i] = f[p].tx[i]
          \/ p = n /\ i = L /\ g[p].tx[i].conn = k /\ g[p].tx[i].dst = destination
  BY <1>1, <1>2 DEF s
<1>12. Pending(g, h)
  <2>1. ASSUME NEW p \in Node, NEW q \in Node, NEW i \in ConnectsOf(g[p]), g[p].tx[i].dst = q
        PROVE  /\ g[q].conn # g[p].tx[i].conn
               /\ \A a \in 1 .. g[q].sent : h[q][a] # g[p].tx[i].conn
    <3>1. g[q].sent = f[q].sent /\ (q # n => g[q].conn = f[q].conn) /\ g[n].conn = k
      BY <1>1 DEF s
    <3>2. CASE i \in ConnectsOf(f[p]) /\ g[p].tx[i] = f[p].tx[i]
      <4>1. /\ f[q].conn # f[p].tx[i].conn
            /\ \A a \in 1 .. f[q].sent : h[q][a] # f[p].tx[i].conn
        BY <2>1, <3>2 DEF RoundsOf, Pending
      <4>2. f[p].tx[i].conn # k
        BY <1>5, <3>2
      <4>3. QED
        BY <3>1, <3>2, <4>1, <4>2
    <3>3. CASE g[p].tx[i].conn = k /\ g[p].tx[i].dst = destination
      BY <1>4, <1>6, <2>1, <3>1, <3>3
    <3>4. QED
      BY <1>11, <3>2, <3>3
  <2>2. QED
    BY <2>1 DEF Pending
<1>13. OneConnect(g)
  <2>1. ASSUME NEW p \in Node, NEW q \in Node, NEW i \in ConnectsOf(g[p]), NEW j \in ConnectsOf(g[q]),
               g[p].tx[i].conn = g[q].tx[j].conn
        PROVE  p = q /\ i = j
    <3>1. CASE g[p].tx[i].conn = k
      <4>1. p = n /\ i = L
        BY <1>5, <1>11, <3>1
      <4>2. q = n /\ j = L
        BY <1>5, <1>11, <2>1, <3>1, ZenonT(60)
      <4>3. QED
        BY <4>1, <4>2
    <3>2. CASE g[p].tx[i].conn # k
      <4>1. i \in ConnectsOf(f[p]) /\ g[p].tx[i] = f[p].tx[i]
        BY <1>11, <3>2
      <4>2. j \in ConnectsOf(f[q]) /\ g[q].tx[j] = f[q].tx[j]
        BY <1>11, <2>1, <3>2
      <4>3. QED
        BY <2>1, <4>1, <4>2 DEF RoundsOf, OneConnect
    <3>3. QED
      BY <3>1, <3>2
  <2>2. QED
    BY <2>1 DEF OneConnect
<1>14. \A m \in Node : Writes(g[m], h[m], u[m], k)
  BY <1>1, <1>8, <1>9
<1>15. RoundsOf(g, k, h, u)
  BY <1>10, <1>12, <1>13, <1>14 DEF RoundsOf
<1>16. u \in Numbering
  BY <1>3 DEF IsPut
<1>17. QED
  BY <1>15, <1>16 DEF Rounds, g, k

\* The T_Connect of connection k, of which there was one, is accepted.
Fresh(f, n, h, k) ==
    /\ \A p \in Node : \A i \in ConnectsOf(f[p]) : f[p].tx[i].conn # k
    /\ \A a \in 1 .. f[n].sent : h[n][a] # k
    /\ \A p \in Node : \A e \in Got(f[n], p) : ~(InConnection(e) /\ e.gotIn = k)

\* So has one newly accepted, as its T_Connect comes once.
LEMMA AcceptRounds ==
    ASSUME NEW f, NEW c, Order(f, c), NEW n \in Node, NEW m \in Node, NEW k \in Nat,
           NEW r, Accepts(f[n], r, m, k),
           NEW h \in Numbering, NEW b \in Numbering, RoundsOf(f, c, h, b), Fresh(f, n, h, k)
    PROVE  Rounds([f EXCEPT ![n] = r], c)
<1> DEFINE g == [f EXCEPT ![n] = r]
           s == f[n]
           l == s.sent + 1
           u == Put(b, n, k, l)
<1>1. /\ f \in [Node -> NodeState] /\ c \in Nat /\ s \in NodeState
      /\ g[n] = r /\ \A p \in Node : p # n => g[p] = f[p]
      /\ r.delivered = s.delivered /\ r.sent = s.sent /\ r.tx = s.tx /\ r.conn = k
      /\ r.seqNoSend = 0 /\ r.currentState = "OpenIdle" /\ ~Waits(r)
      /\ s.sent \in Nat /\ l \in Nat /\ Due(r) = l
      /\ DataOf(r) = DataOf(s) /\ ConnectsOf(r) = ConnectsOf(s)
  BY NodeTypes DEF Order, Accepts, Waits, Due, DataOf, ConnectsOf
<1>2. IsPut(u, b, n, k, l)
  <2> HIDE DEF s, l
  <2>1. QED
    BY <1>1, PutIs
<1> HIDE DEF g, s, u
<1>3. Writes(s, h[n], b[n], c) /\ SenderInv(s)
  BY RoundsAt DEF s
<1>4. Writes(r, h[n], u[n], c)
  <2>1. ASSUME NEW i \in DataOf(r)
        PROVE  /\ h[n][r.tx[i].id] = r.tx[i].conn
               /\ Aligned(u[n][r.tx[i].conn], r.tx[i].seq, r.tx[i].id)
    <3>1. i \in DataOf(s) /\ s.tx[i].id \in 1 .. s.sent /\ s.tx[i].conn \in Nat
      <4>1. s.tx[i].id \in Nat /\ s.tx[i].conn \in Nat
        BY <1>1, NodeTypes DEF DataOf
      <4>2. QED
        BY <1>1, <1>3, <4>1 DEF SenderInv
    <3>2. h[n][s.tx[i].id] = s.tx[i].conn /\ Aligned(b[n][s.tx[i].conn], s.tx[i].seq, s.tx[i].id)
      BY <1>3, <3>1 DEF Writes
    <3>3. s.tx[i].conn # k
      BY <3>1, <3>2 DEF Fresh, s
    <3>4. QED
      BY <1>1, <1>2, <3>1, <3>2, <3>3 DEF IsPut
  <2>2. Aligned(u[n][r.conn], r.seqNoSend, Due(r))
    <3>1. u[n][k] = l /\ l + 0 = l
      BY <1>1, <1>2 DEF IsPut
    <3>2. QED
      BY <1>1, <3>1 DEF Aligned
  <2>3. \A i \in 1 .. r.sent : h[n][i] # r.conn
    BY <1>1 DEF Fresh, s
  <2>4. /\ \A i, j, x \in 1 .. r.sent : i < j /\ j < x /\ h[n][i] = h[n][x] => h[n][j] = h[n][i]
        /\ \A i \in 1 .. r.sent : h[n][i] <= c
    BY <1>1, <1>3 DEF Writes
  <2>5. QED
    BY <1>1, <2>1, <2>2, <2>3, <2>4 DEF Writes
<1>5. ASSUME NEW p \in Node, p # n PROVE Writes(f[p], h[p], u[p], c)
  BY <1>2, <1>5, RoundsAt DEF IsPut
<1>6. ASSUME NEW q \in Node, NEW p \in Node
      PROVE  Reads(g[p], g[p].delivered[q], h[q], u[q])
  <2> DEFINE d == f[p].delivered[q]
  <2>1. /\ Records(d, h[q]) /\ Continues(f[p], d, b[q]) /\ f[p].conn \in Nat
        /\ \A i \in 1 .. Len(d) : d[i] \in Got(f[p], q) /\ d[i].id \in 1 .. f[q].sent
    BY RoundsAt, NodeTypes
  <2>2. g[p].delivered[q] = d
    BY <1>1 DEF s
  <2> HIDE DEF d
  <2>3. CASE p = n
    <3>1. \A i \in 1 .. Len(d) : ~(InConnection(d[i]) /\ d[i].gotIn = k)
      BY <2>1, <2>3 DEF Fresh
    <3>2. QED
      BY <1>1, <2>1, <2>2, <2>3, <3>1 DEF Reads, Continues
  <2>4. CASE p # n /\ q # n
    BY <1>1, <1>2, <2>1, <2>2, <2>4 DEF Reads, IsPut
  <2>5. CASE p # n /\ q = n
    <3>1. g[p] = f[p]
      BY <1>1, <2>5
    <3>2. CASE f[p].conn = k
      <4>1. \A i \in 1 .. Len(d) : ~(InConnection(d[i]) /\ d[i].gotIn = k)
        BY <2>1, <2>5 DEF Fresh, Records, InConnection
      <4>2. QED
        BY <2>1, <2>2, <3>1, <3>2, <4>1 DEF Reads, Continues
    <3>3. CASE f[p].conn # k
      <4>1. u[q][f[p].conn] = b[q][f[p].conn]
        BY <1>2, <2>1, <2>5, <3>3 DEF IsPut
      <4>2. QED
        BY <2>1, <2>2, <3>1, <4>1 DEF Reads, Continues
    <3>4. QED
      BY <3>2, <3>3
  <2>6. QED
    BY <2>3, <2>4, <2>5
<1>7. \A p \in Node : /\ ConnectsOf(g[p]) = ConnectsOf(f[p]) /\ g[p].tx = f[p].tx
                      /\ g[p].sent = f[p].sent
                      /\ p # n => g[p].conn = f[p].conn
  BY <1>1 DEF s
<1>8. Pending(g, h)
  <2>1. ASSUME NEW p \in Node, NEW q \in Node, NEW i \in ConnectsOf(g[p]), g[p].tx[i].dst = q
        PROVE  /\ g[q].conn # g[p].tx[i].conn
               /\ \A a \in 1 .. g[q].sent : h[q][a] # g[p].tx[i].conn
    <3>1. /\ f[q].conn # f[p].tx[i].conn /\ f[p].tx[i].conn # k
          /\ \A a \in 1 .. f[q].sent : h[q][a] # f[p].tx[i].conn
      BY <1>7, <2>1 DEF RoundsOf, Pending, Fresh
    <3>2. QED
      BY <1>1, <1>7, <3>1
  <2>2. QED
    BY <2>1 DEF Pending
<1>9. OneConnect(g)
  BY <1>7 DEF RoundsOf, OneConnect
<1>10. \A q \in Node : Writes(g[q], h[q], u[q], c)
  BY <1>1, <1>4, <1>5
<1>11. RoundsOf(g, c, h, u)
  BY <1>6, <1>8, <1>9, <1>10 DEF RoundsOf
<1>12. u \in Numbering
  BY <1>2 DEF IsPut
<1>13. QED
  BY <1>11, <1>12 DEF Rounds, g

-----------------------------------------------------------------------------
(* The actions of the source as such steps. *)

LEMMA SubSame ==
    ASSUME NEW q \in Seq(Telegram)
    PROVE  Sub(q, q)
<1>1. \A i \in 1 .. Len(q) : i + 0 = i /\ i <= Len(q)
  OBVIOUS
<1>2. \A i \in 1 .. Len(q) : i + 0 <= Len(q) /\ q[i] = q[i + 0]
  BY <1>1
<1>3. QED
  BY <1>2 DEF Sub

LEMMA SubTail ==
    ASSUME NEW q \in Seq(Telegram), q # <<>>
    PROVE  Sub(Tail(q), q) /\ Tail(q) \in Seq(Telegram)
<1>1. Tail(q) \in Seq(Telegram) /\ \A i \in 1 .. Len(Tail(q)) : i + 1 <= Len(q) /\ Tail(q)[i] = q[i + 1]
  OBVIOUS
<1>2. QED
  BY <1>1 DEF Sub

LEMMA SubAppend ==
    ASSUME NEW q \in Seq(Telegram), NEW t \in Telegram, t.type \notin {"DataConnected", "Connect"}
    PROVE  Sub(Append(q, t), q)
<1> DEFINE p == Append(q, t)
<1>1. /\ p \in Seq(Telegram) /\ Len(p) = Len(q) + 1 /\ Len(q) \in Nat /\ p[Len(q) + 1] = t
      /\ \A i \in 1 .. Len(q) : p[i] = q[i]
  OBVIOUS
<1> HIDE DEF p
<1>2. \A i \in 1 .. Len(p) : i + 0 = i /\ (i = Len(q) + 1 \/ (i \in 1 .. Len(q) /\ i <= Len(q)))
  BY <1>1
<1>3. \A i \in 1 .. Len(p) : p[i].type \in {"DataConnected", "Connect"} =>
          i + 0 <= Len(q) /\ p[i] = q[i + 0]
  BY <1>1, <1>2
<1>4. QED
  BY <1>3 DEF Sub, p

LEMMA SubTrans ==
    ASSUME NEW o \in Seq(Telegram), NEW p \in Seq(Telegram), NEW q \in Seq(Telegram),
           Sub(q, p), Sub(p, o)
    PROVE  Sub(q, o)
<1>1. PICK g \in Nat : \A i \in 1 .. Len(q) : q[i].type \in {"DataConnected", "Connect"} =>
                          i + g <= Len(p) /\ q[i] = p[i + g]
  BY DEF Sub
<1>2. PICK h \in Nat : \A i \in 1 .. Len(p) : p[i].type \in {"DataConnected", "Connect"} =>
                          i + h <= Len(o) /\ p[i] = o[i + h]
  BY DEF Sub
<1>3. ASSUME NEW i \in 1 .. Len(q), q[i].type \in {"DataConnected", "Connect"}
      PROVE  i + (g + h) <= Len(o) /\ q[i] = o[i + (g + h)]
  <2>1. i + g <= Len(p) /\ q[i] = p[i + g]
    BY <1>1, <1>3
  <2>2. i + g \in 1 .. Len(p) /\ (i + g) + h = i + (g + h)
    BY <2>1
  <2>3. (i + g) + h <= Len(o) /\ p[i + g] = o[(i + g) + h]
    BY <1>2, <1>3, <2>1, <2>2
  <2>4. QED
    BY <2>1, <2>2, <2>3
<1>4. g + h \in Nat
  OBVIOUS
<1>5. QED
  BY <1>3, <1>4 DEF Sub

LEMMA CalmTrans ==
    ASSUME NEW s, NEW q, NEW r, Calm(s, q), Calm(q, r)
    PROVE  Calm(s, r)
<1>1. s.tx \in Seq(Telegram) /\ q.tx \in Seq(Telegram) /\ r.tx \in Seq(Telegram)
  BY DEF Calm, NodeState
<1>2. Sub(r.tx, s.tx)
  BY <1>1, SubTrans DEF Calm
<1>3. r.currentState # "Closed" => SameNumbers(s, r)
  BY DEF Calm, SameNumbers
<1>4. QED
  BY <1>2, <1>3 DEF Calm, Waits, Open

\* Neither the queue nor what the observer counts changes, and a connection stays or ends.
LEMMA CalmFields ==
    ASSUME NEW s \in NodeState, NEW r \in NodeState,
           r.tx = s.tx, r.sent = s.sent, r.delivered = s.delivered, r.conn = s.conn,
           r.connectionAddress = s.connectionAddress,
           \/ r.currentState = "Closed"
           \/ r.currentState = s.currentState
           \/ s.currentState = "OpenWait" /\ r.currentState = "OpenIdle"
           \/ s.currentState = "Connecting" /\ r.currentState = "OpenIdle",
           r.currentState = "OpenWait" => r.savedFrame.seq = s.savedFrame.seq,
           r.currentState \in Open /\ s.currentState # "Connecting" => r.seqNoRecv = s.seqNoRecv,
           r.currentState # "Closed" => SameNumbers(s, r)
    PROVE  Calm(s, r)
<1>1. Sub(r.tx, s.tx)
  BY SubSame DEF NodeState
<1>2. QED
  BY <1>1 DEF Calm, Waits, Open

\* What is not about numbers, and an acknowledgement
LEMMA NumbersStay ==
    ASSUME NEW s, NEW r, r.seqNoSend = s.seqNoSend, r.sent = s.sent,
           r.currentState = "OpenWait" <=> s.currentState = "OpenWait"
    PROVE  SameNumbers(s, r)
BY DEF SameNumbers, Due, Waits

\* A control telegram other than a T_Connect
LEMMA CalmControl ==
    ASSUME NEW s \in NodeState, NEW type \in {"Ack", "Nack", "Disconnect"},
           NEW dst \in Node \cup {NoAddress}, NEW seq \in SeqNo
    PROVE  Calm(s, Control(s, type, dst, seq))
<1> DEFINE t == [type |-> type, dst |-> dst, seq |-> seq, tpci |-> 0, conn |-> s.conn, id |-> 0]
           r == Control(s, type, dst, seq)
<1>1. type \in TpduType /\ 0 \in SeqNo
  BY TransportAssumption DEF TpduType, SeqNo
<1>2. OnlyQueued(s, r)
  BY <1>1, ControlOnly
<1>3. t \in Telegram /\ t.type \notin {"DataConnected", "Connect"}
  BY <1>1 DEF Telegram, NodeState
<1>4. r = Queue(s, t)
  BY DEF Control
<1> HIDE DEF t
<1>5. r.tx = s.tx \/ r.tx = Append(s.tx, t)
  BY <1>4 DEF Queue, NodeState
<1>6. Sub(r.tx, s.tx)
  BY <1>3, <1>5, SubSame, SubAppend DEF NodeState
<1> HIDE DEF r
<1>7. SameNumbers(s, r)
  BY <1>2, NumbersStay DEF OnlyQueued
<1>8. Calm(s, r)
  BY <1>2, <1>6, <1>7 DEF Calm, OnlyQueued, Waits, Open
<1>9. QED
  BY <1>8 DEF r

LEMMA CalmTaken ==
    ASSUME NEW s \in NodeState, s.tx # <<>>
    PROVE  Calm(s, [s EXCEPT !.tx = Tail(@)])
<1> DEFINE q == Tail(s.tx)
           r == [s EXCEPT !.tx = q]
<1>1. Sub(q, s.tx) /\ q \in Seq(Telegram)
  BY SubTail DEF NodeState
<1> HIDE DEF q
<1>2. r \in NodeState /\ r.tx = q /\ r.sent = s.sent /\ r.delivered = s.delivered
      /\ r.currentState = s.currentState /\ r.savedFrame = s.savedFrame /\ r.conn = s.conn
      /\ r.connectionAddress = s.connectionAddress /\ r.seqNoRecv = s.seqNoRecv
      /\ r.seqNoSend = s.seqNoSend
  BY <1>1 DEF NodeState
<1> HIDE DEF r
<1>3. SameNumbers(s, r)
  BY <1>2, NumbersStay
<1>4. Calm(s, r)
  BY <1>1, <1>2, <1>3 DEF Calm, Waits, Open
<1>5. QED
  BY <1>4 DEF r, q

\* Closing, with or without a T_Disconnect (A5, A6, A14, A15)
LEMMA CalmClose ==
    ASSUME NEW s, NodeInv(s)
    PROVE  /\ Calm(s, A5(Close(s))) /\ Calm(s, A6(Close(s))) /\ Calm(s, A14(Close(s)))
           /\ Calm(s, [A6(Close(s)) EXCEPT !.savedConnecting = NotSaved])
<1> DEFINE c == Close(s)
           q == Control(c, "Disconnect", c.connectionAddress, 0)
<1>1. s \in NodeState /\ 0 \in SeqNo /\ NotSaved \in 0 .. SeqMod
  BY TransportAssumption DEF NodeInv, SeqNo, NotSaved
<1>2. c \in NodeState /\ Calm(s, c) /\ c.currentState = "Closed"
        /\ c.connectionAddress \in Node \cup {NoAddress}
  <2>1. c \in NodeState /\ c.currentState = "Closed" /\ c.connectionAddress \in Node \cup {NoAddress}
    BY <1>1 DEF Close, NodeState, StateType
  <2>2. /\ c.tx = s.tx /\ c.sent = s.sent /\ c.delivered = s.delivered /\ c.conn = s.conn
        /\ c.connectionAddress = s.connectionAddress
    BY <1>1 DEF Close, NodeState
  <2> HIDE DEF c
  <2>3. Calm(s, c)
    BY <1>1, <2>1, <2>2, CalmFields DEF Open
  <2>4. QED
    BY <2>1, <2>3
<1> HIDE DEF c
<1>3. Calm(c, q)
  BY <1>1, <1>2, CalmControl
<1>4. q \in NodeState /\ q.currentState = "Closed"
  BY <1>2, <1>3 DEF Calm
<1> HIDE DEF q
<1>5. ASSUME NEW p \in {c, q}
      PROVE  Calm(s, A5(p)) /\ Calm(s, A15(p)) /\ Calm(s, [A5(p) EXCEPT !.savedConnecting = NotSaved])
  <2>1. p \in NodeState /\ p.currentState = "Closed" /\ Calm(s, p)
    BY <1>2, <1>3, <1>4, CalmTrans
  <2>2. ASSUME NEW r \in NodeState, r.currentState = "Closed", r.tx = p.tx, r.sent = p.sent,
               r.delivered = p.delivered, r.conn = p.conn, r.connectionAddress = p.connectionAddress
        PROVE  Calm(s, r)
    <3>1. Calm(p, r)
      BY <2>1, <2>2, CalmFields DEF Open
    <3>2. QED
      BY <2>1, <3>1, CalmTrans
  <2> DEFINE a == A5(p)
  <2>3. /\ a \in NodeState /\ a.currentState = "Closed" /\ a.tx = p.tx /\ a.sent = p.sent
        /\ a.delivered = p.delivered /\ a.conn = p.conn /\ a.connectionAddress = p.connectionAddress
    BY <2>1 DEF A5, DisableTimeouts, NodeState
  <2> HIDE DEF a
  <2> DEFINE b == [a EXCEPT !.savedConnecting = NotSaved]
  <2>4. /\ b \in NodeState /\ b.currentState = "Closed" /\ b.tx = p.tx /\ b.sent = p.sent
        /\ b.delivered = p.delivered /\ b.conn = p.conn /\ b.connectionAddress = p.connectionAddress
    BY <1>1, <2>3 DEF NodeState
  <2> HIDE DEF b
  <2>5. Calm(s, a) /\ Calm(s, b)
    BY <2>2, <2>3, <2>4
  <2>6. A15(p) = A5(p)
    BY DEF A5, A15
  <2>7. QED
    BY <2>6, <2>5 DEF a, b
<1>6. /\ A5(Close(s)) = A5(c) /\ A6(Close(s)) = A5(q) /\ A14(Close(s)) = A15(q)
  BY DEF A6, A14, c, q
<1>7. QED
  BY <1>5, <1>6

\* A refusal while connecting (E6, E20)
LEMMA CalmConnecting ==
    ASSUME NEW s, NodeInv(s), s.currentState = "Connecting"
    PROVE  Calm(s, A5(s)) /\ Calm(s, A6(s))
<1> DEFINE q == Control(s, "Disconnect", s.connectionAddress, 0)
<1>1. s \in NodeState /\ 0 \in SeqNo /\ s.connectionAddress \in Node \cup {NoAddress}
  BY TransportAssumption DEF NodeInv, SeqNo, NodeState
<1>2. Calm(s, q)
  BY <1>1, CalmControl
<1>3. Calm(s, s)
  BY <1>1, CalmFields, NumbersStay
<1>4. OnlyQueued(s, q)
  BY <1>1, DisconnectOnly
<1>5. ASSUME NEW p \in {s, q}
      PROVE  Calm(s, A5(p))
  <2> HIDE DEF q
  <2>1. p \in NodeState /\ p.currentState = "Connecting" /\ Calm(s, p)
    BY <1>1, <1>2, <1>3, <1>4 DEF OnlyQueued
  <2> DEFINE r == A5(p)
  <2>2. /\ r \in NodeState /\ r.currentState = "Connecting" /\ r.tx = p.tx /\ r.sent = p.sent
        /\ r.delivered = p.delivered /\ r.conn = p.conn /\ r.connectionAddress = p.connectionAddress
        /\ r.seqNoSend = p.seqNoSend
    BY <2>1 DEF A5, DisableTimeouts, NodeState
  <2> HIDE DEF r
  <2>3. Calm(p, r)
    BY <2>1, <2>2, CalmFields, NumbersStay DEF Open
  <2>4. QED
    BY <2>1, <2>3, CalmTrans DEF r
<1>6. A6(s) = A5(q)
  BY DEF A6
<1>7. QED
  BY <1>5, <1>6

\* The timers
LEMMA CalmTimers ==
    ASSUME NEW s \in NodeState
    PROVE  /\ Calm(s, s) /\ Calm(s, EnableConnectionTimeout(s)) /\ Calm(s, EnableTimeouts(s))
           /\ \A k \in Nat : Calm(s, EnableTimeouts([s EXCEPT !.repCount = k]))
<1> DEFINE Same(r) ==
               /\ r \in NodeState /\ r.currentState = s.currentState /\ r.tx = s.tx
               /\ r.sent = s.sent /\ r.delivered = s.delivered /\ r.conn = s.conn
               /\ r.connectionAddress = s.connectionAddress /\ r.savedFrame = s.savedFrame
               /\ r.seqNoRecv = s.seqNoRecv /\ r.seqNoSend = s.seqNoSend
<1>1. ASSUME NEW r, Same(r) PROVE Calm(s, r)
  BY <1>1, CalmFields, NumbersStay
<1>2. /\ Same(s) /\ Same(EnableConnectionTimeout(s)) /\ Same(EnableTimeouts(s))
      /\ \A k \in Nat : Same(EnableTimeouts([s EXCEPT !.repCount = k]))
  BY DEF EnableConnectionTimeout, EnableTimeouts, NodeState
<1> HIDE DEF Same
<1>3. QED
  BY <1>1, <1>2

\* The answers to a repeated or unexpected telegram (A3, A4, A10)
LEMMA CalmAnswers ==
    ASSUME NEW s \in NodeState, NEW m \in Node, NEW seq \in SeqNo
    PROVE  Calm(s, A3(s, seq)) /\ Calm(s, A4(s, seq)) /\ Calm(s, A10(s, m))
<1>1. s.connectionAddress \in Node \cup {NoAddress} /\ 0 \in SeqNo
  BY TransportAssumption DEF NodeState, SeqNo
<1>2. ASSUME NEW type \in {"Ack", "Nack"}
      PROVE  Calm(s, EnableConnectionTimeout(Control(s, type, s.connectionAddress, seq)))
  <2> DEFINE q == Control(s, type, s.connectionAddress, seq)
  <2>1. Calm(s, q)
    BY <1>1, CalmControl
  <2> HIDE DEF q
  <2>2. Calm(q, EnableConnectionTimeout(q))
    BY <2>1, CalmTimers DEF Calm
  <2>3. QED
    BY <2>1, <2>2, CalmTrans DEF q
<1>3. Calm(s, A10(s, m))
  BY <1>1, CalmControl DEF A10
<1>4. QED
  BY <1>2, <1>3 DEF A3, A4

\* The awaited acknowledgement (A8)
LEMMA CalmA8 ==
    ASSUME NEW s, NodeInv(s), s.currentState = "OpenWait"
    PROVE  Calm(s, A8([s EXCEPT !.currentState = "OpenIdle"]))
<1> DEFINE r == A8([s EXCEPT !.currentState = "OpenIdle"])
<1>1. s \in NodeState
  BY DEF NodeInv
<1>2. IncSeqNr(s.seqNoSend) \in SeqNo
  BY <1>1, IncSeqNrType DEF NodeState
<1>3. /\ r \in NodeState /\ r.currentState = "OpenIdle" /\ r.tx = s.tx /\ r.sent = s.sent
      /\ r.delivered = s.delivered /\ r.conn = s.conn
      /\ r.connectionAddress = s.connectionAddress /\ r.seqNoRecv = s.seqNoRecv
      /\ r.seqNoSend = IncSeqNr(s.seqNoSend)
  BY <1>1, <1>2 DEF A8, EnableConnectionTimeout, NodeState, StateType
<1> HIDE DEF r
<1>4. SameNumbers(s, r)
  <2>1. s.seqNoSend \in SeqNo /\ s.sent \in Nat /\ Due(s) = s.sent /\ Due(r) = s.sent + 1
    BY <1>1, <1>3 DEF NodeState, Due, Waits
  <2>2. QED
    BY <1>3, <2>1, AlignedNext DEF SameNumbers
<1>5. Calm(s, r)
  BY <1>1, <1>3, <1>4, CalmFields
<1>6. QED
  BY <1>5 DEF r

\* A power cycle
LEMMA CalmPowerCycle ==
    ASSUME NEW s \in NodeState
    PROVE  Calm(s, [InitNode EXCEPT !.sent = s.sent, !.delivered = s.delivered])
<1> DEFINE r == [InitNode EXCEPT !.sent = s.sent, !.delivered = s.delivered]
<1>1. r \in NodeState
  BY PowerCycleInv DEF NodeInv
<1>2. /\ r.currentState = "Closed" /\ r.tx = <<>> /\ r.sent = s.sent
      /\ r.delivered = s.delivered /\ r.conn = 0
  BY DEF InitNode
<1> HIDE DEF r
<1>3. Sub(r.tx, s.tx)
  <2>1. \A i \in 1 .. Len(r.tx) : FALSE
    BY <1>2
  <2>2. QED
    BY <2>1 DEF Sub
<1>4. Calm(s, r)
  BY <1>1, <1>2, <1>3 DEF Calm, Waits, Open
<1>5. QED
  BY <1>4 DEF r

\* A disconnection while closed (E26), a saved request (A11)
LEMMA CalmClosed ==
    ASSUME NEW s, NodeInv(s), s.currentState = "Closed"
    PROVE  Calm(s, A15(s))
<1> DEFINE r == A15(s)
<1>1. /\ s \in NodeState /\ r \in NodeState /\ r.currentState = "Closed" /\ r.tx = s.tx
      /\ r.sent = s.sent /\ r.delivered = s.delivered /\ r.conn = s.conn
      /\ r.connectionAddress = s.connectionAddress
  BY DEF NodeInv, A15, DisableTimeouts, NodeState
<1> HIDE DEF r
<1>2. Calm(s, r)
  BY <1>1, CalmFields DEF Open
<1>3. QED
  BY <1>2 DEF r

LEMMA CalmSaved ==
    ASSUME NEW s \in NodeState, NEW tpci \in 0 .. SeqMod
    PROVE  Calm(s, A11(s, tpci))
<1> DEFINE r == A11(s, tpci)
<1>1. /\ r \in NodeState /\ r.currentState = s.currentState /\ r.tx = s.tx
      /\ r.sent = s.sent /\ r.delivered = s.delivered /\ r.conn = s.conn
      /\ r.connectionAddress = s.connectionAddress /\ r.savedFrame = s.savedFrame
      /\ r.seqNoRecv = s.seqNoRecv /\ r.seqNoSend = s.seqNoSend
  BY DEF A11, NodeState
<1> HIDE DEF r
<1>2. Calm(s, r)
  BY <1>1, CalmFields, NumbersStay
<1>3. QED
  BY <1>2 DEF r

\* The confirmation of a T_Connect (E19, E20)
LEMMA CalmConfirm ==
    ASSUME NEW s, NodeInv(s), NEW status \in BOOLEAN
    PROVE  Calm(s, ConnectConfirm(s, status))
<1>1. s \in NodeState
  BY DEF NodeInv
<1>2. CASE s.currentState = "Connecting" /\ status
  <2> DEFINE r == A13([s EXCEPT !.currentState = "OpenIdle"])
  <2>1. /\ r \in NodeState /\ r.currentState = "OpenIdle" /\ r.tx = s.tx
        /\ r.sent = s.sent /\ r.delivered = s.delivered /\ r.conn = s.conn
        /\ r.connectionAddress = s.connectionAddress /\ r.seqNoSend = s.seqNoSend
    BY <1>1 DEF A13, NodeState, StateType
  <2> HIDE DEF r
  <2>2. Calm(s, r)
    BY <1>1, <1>2, <2>1, CalmFields, NumbersStay
  <2>3. ConnectConfirm(s, status) = r
    BY <1>2 DEF ConnectConfirm, r
  <2>4. QED
    BY <2>2, <2>3
<1>3. CASE s.currentState = "Connecting" /\ ~status
  <2>1. ConnectConfirm(s, status) = A5(s)
    BY <1>3 DEF ConnectConfirm
  <2>2. QED
    BY <1>3, <2>1, CalmConnecting
<1>4. CASE s.currentState # "Connecting"
  <2>1. ConnectConfirm(s, status) = s
    BY <1>4 DEF ConnectConfirm
  <2>2. QED
    BY <1>1, <2>1, CalmTimers
<1>5. QED
  BY <1>2, <1>3, <1>4

LEMMA CalmUnconfirmed ==
    ASSUME NEW s \in NodeState, NEW k \in Nat
    PROVE  Calm(s, [s EXCEPT !.unconfirmed = k])
<1> DEFINE r == [s EXCEPT !.unconfirmed = k]
<1>1. /\ r \in NodeState /\ r.currentState = s.currentState /\ r.tx = s.tx
      /\ r.sent = s.sent /\ r.delivered = s.delivered /\ r.conn = s.conn
      /\ r.connectionAddress = s.connectionAddress /\ r.savedFrame = s.savedFrame
      /\ r.seqNoRecv = s.seqNoRecv /\ r.seqNoSend = s.seqNoSend
  BY DEF NodeState
<1> HIDE DEF r
<1>2. Calm(s, r)
  BY <1>1, CalmFields, NumbersStay
<1>3. QED
  BY <1>2 DEF r

\* What a step of n alone keeps, whatever the other devices do
Keeps(n, s, r) ==
    \A f \in [Node -> NodeState] : \A c : f[n] = s /\ Order(f, c) =>
        /\ Order([f EXCEPT ![n] = r], c)
        /\ Rounds(f, c) => Rounds([f EXCEPT ![n] = r], c)

LEMMA CalmKeeps ==
    ASSUME NEW n \in Node, NEW s, NEW r, Calm(s, r)
    PROVE  Keeps(n, s, r)
BY CalmStep, CalmRounds DEF Keeps, Rounds

LEMMA KeepsTrans ==
    ASSUME NEW n \in Node, NEW s, NEW q \in NodeState, NEW r, Keeps(n, s, q), Keeps(n, q, r)
    PROVE  Keeps(n, s, r)
<1>1. ASSUME NEW f \in [Node -> NodeState], NEW c, f[n] = s, Order(f, c)
      PROVE  /\ Order([f EXCEPT ![n] = r], c)
             /\ Rounds(f, c) => Rounds([f EXCEPT ![n] = r], c)
  <2> DEFINE g == [f EXCEPT ![n] = q]
  <2>1. Order(g, c) /\ (Rounds(f, c) => Rounds(g, c))
    BY <1>1 DEF Keeps
  <2>2. g \in [Node -> NodeState] /\ g[n] = q /\ [g EXCEPT ![n] = r] = [f EXCEPT ![n] = r]
    OBVIOUS
  <2> HIDE DEF g
  <2>3. /\ Order([g EXCEPT ![n] = r], c)
        /\ Rounds(g, c) => Rounds([g EXCEPT ![n] = r], c)
    BY <2>1, <2>2 DEF Keeps
  <2>4. QED
    BY <2>1, <2>2, <2>3
<1>2. QED
  BY <1>1 DEF Keeps

\* _savedFrame is sent to the peer, or finds the transmit queue full.
LEMMA SendSavedKeeps ==
    ASSUME NEW n \in Node, NEW s, s \in NodeState, Waits(s), s.savedFrame.id = s.sent,
           s.savedFrame.seq = s.seqNoSend
    PROVE  Keeps(n, s, SendSaved(s))
<1> DEFINE t == [type |-> "DataConnected", dst |-> s.connectionAddress, seq |-> s.savedFrame.seq,
                 tpci |-> s.savedFrame.tpci, conn |-> s.conn, id |-> s.savedFrame.id]
           r == SendSaved(s)
<1>1. t \in Telegram
  BY DEF Telegram, TpduType, NodeState, SavedFrame
<1>2. r = Queue(s, t)
  BY DEF SendSaved
<1>3. OnlyQueued(s, r)
  BY SendSavedOnly
<1>4. t.type = "DataConnected" /\ t.id = s.sent /\ t.seq = s.savedFrame.seq /\ t.conn = s.conn
  OBVIOUS
<1> HIDE DEF t, r
<1>5. CASE r = s
  BY <1>5, CalmTimers, CalmKeeps DEF r
<1>6. CASE r.tx = Append(s.tx, t)
  <2>1. Sends(s, r, t)
    BY <1>1, <1>3, <1>4, <1>6 DEF Sends, OnlyQueued
  <2>2. ASSUME NEW f \in [Node -> NodeState], NEW c, f[n] = s, Order(f, c)
        PROVE  /\ Order([f EXCEPT ![n] = r], c)
               /\ Rounds(f, c) => Rounds([f EXCEPT ![n] = r], c)
    <3>1. Sends(f[n], r, t)
      BY <2>1, <2>2
    <3>2. ASSUME NEW h \in Numbering, NEW b \in Numbering, RoundsOf(f, c, h, b)
          PROVE  RoundsOf([f EXCEPT ![n] = r], c, h, b)
      BY <2>2, <3>1, <3>2, SendRounds
    <3>3. QED
      BY <2>2, <3>1, <3>2, SendStep DEF Rounds
  <2>3. QED
    BY <2>2 DEF Keeps, r
<1>7. r = s \/ r.tx = Append(s.tx, t)
  BY <1>2 DEF Queue, NodeState
<1>8. QED
  BY <1>5, <1>6, <1>7

\* How many telegrams a step numbers; it indicates none.
Counts(s, r) == r.delivered = s.delivered /\ r.sent \in {s.sent, s.sent + 1}

\* A data request on an idle connection (A7): numbered, then sent
LEMMA NumberedKeeps ==
    ASSUME NEW n \in Node, NEW s, NodeInv(s), s.currentState = "OpenIdle", NEW tpci \in SeqNo
    PROVE  /\ Keeps(n, s, A7([s EXCEPT !.currentState = "OpenWait"], tpci))
           /\ Counts(s, A7([s EXCEPT !.currentState = "OpenWait"], tpci))
<1> DEFINE w == [s EXCEPT !.currentState = "OpenWait"]
           q == Numbered(w, tpci)
           p == SendSaved(q)
           r == A7(w, tpci)
<1>1. /\ s \in NodeState /\ w \in NodeState /\ w.currentState = "OpenWait"
      /\ w.tx = s.tx /\ w.delivered = s.delivered /\ w.sent = s.sent /\ w.conn = s.conn
      /\ w.seqNoRecv = s.seqNoRecv /\ w.connectionAddress = s.connectionAddress
      /\ w.seqNoSend = s.seqNoSend
  BY DEF NodeInv, NodeState, StateType
<1>2. r = EnableTimeouts([p EXCEPT !.repCount = 0])
  BY DEF A7
<1> HIDE DEF w, r
<1>3. /\ q \in NodeState /\ q.currentState = "OpenWait" /\ q.savedFrame.id = q.sent
      /\ q.connectionAddress = w.connectionAddress /\ q.savedFrame.seq = q.seqNoSend
  BY <1>1, NumberedType
<1>4. /\ q.tx = w.tx /\ q.delivered = w.delivered /\ q.sent = w.sent + 1 /\ q.conn = w.conn
      /\ q.seqNoRecv = w.seqNoRecv /\ q.seqNoSend = w.seqNoSend
  BY <1>1 DEF Numbered, NodeState
<1> HIDE DEF q
<1>5. Numbers(s, q)
  BY <1>1, <1>3, <1>4 DEF Numbers, SameTelegrams, Open
<1>6. Keeps(n, s, q)
  BY <1>5, NumberStep, NumberRounds DEF Keeps, Rounds
<1>7. Keeps(n, q, p)
  BY <1>3, SendSavedKeeps DEF Waits
<1>8. OnlyQueued(q, p)
  BY <1>3, SendSavedOnly
<1> HIDE DEF p
<1>9. Calm(p, r)
  BY <1>2, <1>8, CalmTimers DEF OnlyQueued
<1>10. p \in NodeState /\ Keeps(n, q, r)
  BY <1>3, <1>7, <1>8, <1>9, CalmKeeps, KeepsTrans DEF OnlyQueued
<1>11. Keeps(n, s, r)
  BY <1>3, <1>6, <1>10, KeepsTrans
<1>12. Counts(s, r)
  BY <1>1, <1>4, <1>8, <1>9 DEF Counts, OnlyQueued, Calm
<1>13. QED
  BY <1>11, <1>12 DEF r, w

LEMMA RequestKeeps ==
    ASSUME NEW n \in Node, NEW s, NodeInv(s), NEW tpci \in SeqNo
    PROVE  /\ Keeps(n, s, DataConnectedRequest(s, tpci))
           /\ Counts(s, DataConnectedRequest(s, tpci))
<1>1. s \in NodeState /\ tpci \in 0 .. SeqMod
  BY TransportAssumption DEF NodeInv, SeqNo
<1>2. ASSUME NEW r, Calm(s, r) PROVE Keeps(n, s, r) /\ Counts(s, r)
  BY <1>2, CalmKeeps DEF Calm, Counts
<1>3. CASE s.currentState = "OpenIdle"
  <2>1. DataConnectedRequest(s, tpci) = A7([s EXCEPT !.currentState = "OpenWait"], tpci)
    BY <1>3 DEF DataConnectedRequest
  <2>2. QED
    BY <1>3, <2>1, NumberedKeeps
<1>4. CASE s.currentState = "Closed"
  <2>1. DataConnectedRequest(s, tpci) = s
    BY <1>4 DEF DataConnectedRequest
  <2>2. QED
    BY <1>1, <1>2, <2>1, CalmTimers
<1>5. CASE s.currentState \notin {"Closed", "OpenIdle"}
  <2>1. DataConnectedRequest(s, tpci) = A11(s, tpci)
    BY <1>5 DEF DataConnectedRequest
  <2>2. QED
    BY <1>1, <1>2, <2>1, CalmSaved
<1>6. QED
  BY <1>3, <1>4, <1>5

\* A repetition (A9)
LEMMA RepeatKeeps ==
    ASSUME NEW n \in Node, NEW s, NodeInv(s), s.currentState = "OpenWait"
    PROVE  Keeps(n, s, A9(s)) /\ A9(s).delivered = s.delivered /\ A9(s).sent = s.sent
<1> DEFINE q == SendSaved(s)
           r == A9(s)
<1>1. /\ s \in NodeState /\ Waits(s) /\ s.savedFrame.id = s.sent /\ s.repCount \in Nat
      /\ s.savedFrame.seq = s.seqNoSend
  BY DEF NodeInv, Waits, NodeState
<1>2. Keeps(n, s, q)
  BY <1>1, SendSavedKeeps
<1>3. OnlyQueued(s, q)
  BY <1>1, SendSavedOnly
<1>4. r = EnableTimeouts([q EXCEPT !.repCount = @ + 1])
  BY DEF A9
<1> HIDE DEF q, r
<1>5. q \in NodeState /\ q.repCount + 1 \in Nat
  BY <1>1, <1>3 DEF OnlyQueued
<1>6. [q EXCEPT !.repCount = @ + 1] = [q EXCEPT !.repCount = q.repCount + 1]
  BY <1>5 DEF NodeState
<1>7. Calm(q, r)
  BY <1>4, <1>5, <1>6, CalmTimers
<1>8. Keeps(n, s, r)
  BY <1>2, <1>5, <1>7, CalmKeeps, KeepsTrans
<1>9. QED
  BY <1>3, <1>7, <1>8 DEF OnlyQueued, Calm, r

\* A connection is accepted (E0, E1).
LEMMA AcceptKeeps ==
    ASSUME Inv, Order(tl, connects), NEW m \in Node, NEW n \in Node, Arrives(m, n, "Connect"),
           tl[n].currentState = "Closed",
           NEW r, r = A1([tl[n] EXCEPT !.currentState = "OpenIdle"], m, HeadOf(m).conn)
    PROVE  /\ Accepts(tl[n], r, m, HeadOf(m).conn) /\ HeadOf(m).conn \in Nat
           /\ Order([tl EXCEPT ![n] = r], connects)
           /\ r.delivered = tl[n].delivered /\ r.sent = tl[n].sent
<1> DEFINE s == tl[n]
           conn == HeadOf(m).conn
<1>1. /\ NodeInv(s) /\ conn \in Nat
      /\ tl[m].tx # <<>> /\ Head(tl[m].tx).type = "Connect" /\ Head(tl[m].tx).dst = n
      /\ conn = Head(tl[m].tx).conn
  BY ArrivedType DEF Arrives, HeadOf
<1> HIDE DEF conn
<1>2. r = A1([s EXCEPT !.currentState = "OpenIdle"], m, conn)
  BY DEF conn
<1>3. r \in NodeState
  BY <1>1, <1>2, AcceptA1 DEF NodeInv
<1>4. /\ r.tx = s.tx /\ r.sent = s.sent /\ r.delivered = s.delivered
      /\ r.currentState = "OpenIdle" /\ r.connectionAddress = m /\ r.conn = conn /\ r.seqNoSend = 0
  BY <1>1, <1>2 DEF A1, EnableConnectionTimeout, NodeInv, NodeState
<1>5. Accepts(s, r, m, conn)
  BY <1>3, <1>4 DEF Accepts
<1>6. Order([tl EXCEPT ![n] = r], connects)
  BY <1>1, <1>5, AcceptStep
<1>7. QED
  BY <1>1, <1>4, <1>5, <1>6 DEF conn

\* A connection is requested (E25, A12), whatever the data link layer makes of it.
LEMMA ConnectKeeps ==
    ASSUME Inv, Order(tl, connects), NEW n \in Connector, NEW destination \in Node,
           destination # n, tl[n].currentState = "Closed", NEW con \in {"now", "later", "refused"}
    PROVE  LET r == A12([tl[n] EXCEPT !.currentState = "Connecting"], destination, connects + 1, con)
           IN  /\ Order([tl EXCEPT ![n] = r], connects + 1)
               /\ Rounds(tl, connects) => Rounds([tl EXCEPT ![n] = r], connects + 1)
               /\ r.delivered = tl[n].delivered /\ r.sent = tl[n].sent
<1> DEFINE s   == tl[n]
           b   == connects + 1
           c   == [s EXCEPT !.currentState = "Connecting"]
           adr == [c EXCEPT !.connectionAddress = destination, !.conn = b]
           que == Control(adr, "Connect", destination, 0)
           req == CASE con = "refused" -> ConnectConfirm(adr, FALSE)
                    [] con = "now"     -> ConnectConfirm(que, TRUE)
                    [] con = "later"   -> [que EXCEPT !.unconfirmed = @ + 1]
           r   == A12(c, destination, b, con)
           t   == [type |-> "Connect", dst |-> destination, seq |-> 0, tpci |-> 0,
                   conn |-> adr.conn, id |-> 0]
<1>1. /\ n \in Node /\ n \notin Server /\ s \in NodeState /\ NodeInv(s) /\ tl \in [Node -> NodeState]
      /\ b \in Nat /\ 0 \in SeqNo /\ "Connect" \in TpduType /\ ~s.ackTimeoutEnabled
      /\ s.connectedTsap = NoTsap
  BY TransportAssumption DEF Inv, NodeInv, NodeState, Open, SeqNo, TpduType, Server
<1> HIDE DEF b
<1>2. /\ NodeInv(adr) /\ adr \in NodeState /\ adr.currentState = "Connecting" /\ adr.conn = b
      /\ adr.tx = s.tx /\ adr.sent = s.sent /\ adr.delivered = s.delivered
  BY <1>1 DEF NodeInv, NodeState, StateType, Open
<1>3. r = EnableConnectionTimeout([req EXCEPT !.seqNoRecv = 0, !.seqNoSend = 0])
  BY DEF A12
<1> HIDE DEF c, adr, r
<1>4. OnlyQueued(adr, que)
  BY <1>1, <1>2, ControlOnly
<1>5. t \in Telegram /\ t.type = "Connect" /\ t.dst = destination /\ t.conn = b
  BY <1>1, <1>2 DEF Telegram
<1>6. que = Queue(adr, t)
  BY DEF Control
<1> HIDE DEF t
<1>7. que.tx = adr.tx \/ que.tx = Append(adr.tx, t)
  BY <1>2, <1>6 DEF Queue, NodeState
<1> HIDE DEF que
<1>8. /\ NodeInv(que) /\ que \in NodeState /\ que.currentState = "Connecting"
      /\ que.unconfirmed + 1 \in Nat
  <2>1. NodeInv(que) /\ que \in NodeState /\ que.currentState = "Connecting"
    BY <1>2, <1>4, OnlyQueuedInv DEF OnlyQueued
  <2>2. que.unconfirmed \in Nat
    BY <2>1 DEF NodeState
  <2>3. QED
    BY <2>1, <2>2
<1>9. Requests(s, adr, destination, b)
  BY <1>1, <1>2 DEF Requests
<1>10. Requests(s, que, destination, b)
  <2>1. que.conn = b /\ que.sent = s.sent /\ que.delivered = s.delivered
    BY <1>2, <1>4 DEF OnlyQueued
  <2>2. s.tx \in Seq(Telegram)
    BY <1>1 DEF NodeState
  <2>3. que.tx = s.tx \/ Puts(s, que, t)
    BY <1>2, <1>5, <1>7, <2>2 DEF Puts
  <2>4. QED
    BY <1>1, <1>5, <1>8, <2>1, <2>3 DEF Requests
<1>11. ASSUME NEW q \in {adr, que}, Calm(q, req)
       PROVE  /\ Order([tl EXCEPT ![n] = r], b)
              /\ Rounds(tl, connects) => Rounds([tl EXCEPT ![n] = r], b)
              /\ r.delivered = s.delivered /\ r.sent = s.sent
  <2> DEFINE p == [q EXCEPT !.seqNoRecv = 0, !.seqNoSend = 0]
  <2>1. Requests(s, q, destination, b) /\ q \in NodeState /\ q.currentState = "Connecting"
    BY <1>2, <1>8, <1>9, <1>10, <1>11
  <2>2. /\ p \in NodeState /\ p.currentState = "Connecting" /\ p.tx = q.tx /\ p.sent = q.sent
        /\ p.delivered = q.delivered /\ p.conn = q.conn /\ p.seqNoSend = 0
    BY <1>1, <2>1 DEF NodeState
  <2> HIDE DEF p
  <2>3. Requests(s, p, destination, b)
    BY <2>1, <2>2 DEF Requests, Puts
  <2>4. /\ Order([tl EXCEPT ![n] = p], b)
        /\ Rounds(tl, connects) => Rounds([tl EXCEPT ![n] = p], b)
    BY <1>1, <2>2, <2>3, ConnectStep, ConnectRounds DEF b, Rounds
  <2>5. req \in NodeState
    BY <1>11 DEF Calm
  <2> HIDE DEF req
  <2>6. /\ r \in NodeState /\ r.currentState = req.currentState /\ r.tx = req.tx
        /\ r.sent = req.sent /\ r.delivered = req.delivered /\ r.conn = req.conn
        /\ r.connectionAddress = req.connectionAddress /\ r.savedFrame = req.savedFrame
        /\ r.seqNoSend = 0
    BY <1>1, <1>3, <2>5 DEF EnableConnectionTimeout, NodeState
  <2>7. r.currentState # "OpenWait" /\ r.sent = p.sent
    BY <1>11, <2>1, <2>2, <2>6 DEF Calm, Waits
  <2>8. SameNumbers(p, r)
    BY <2>2, <2>6, <2>7, NumbersStay
  <2>9. Calm(p, r)
    BY <1>11, <2>1, <2>2, <2>6, <2>7, <2>8 DEF Calm, Waits, Open
  <2>10. Keeps(n, p, r)
    BY <1>1, <2>9, CalmKeeps
  <2> DEFINE g == [tl EXCEPT ![n] = p]
  <2>11. g \in [Node -> NodeState] /\ g[n] = p /\ [g EXCEPT ![n] = r] = [tl EXCEPT ![n] = r]
    BY <1>1, <2>2
  <2>12. Order(g, b) /\ (Rounds(tl, connects) => Rounds(g, b))
    BY <2>4
  <2> HIDE DEF g
  <2>13. /\ Order([g EXCEPT ![n] = r], b)
         /\ Rounds(g, b) => Rounds([g EXCEPT ![n] = r], b)
    BY <2>10, <2>11, <2>12 DEF Keeps
  <2>14. r.delivered = s.delivered /\ r.sent = s.sent
    BY <2>1, <2>2, <2>9 DEF Calm, Requests
  <2>15. QED
    BY <2>11, <2>12, <2>13, <2>14
<1>12. \E q \in {adr, que} : Calm(q, req)
  <2>1. CASE con = "refused"
    <3>1. req = ConnectConfirm(adr, FALSE)
      BY <2>1
    <3>2. QED
      BY <1>2, <3>1, CalmConfirm
  <2>2. CASE con = "now"
    <3>1. req = ConnectConfirm(que, TRUE)
      BY <2>2
    <3>2. QED
      BY <1>8, <3>1, CalmConfirm
  <2>3. CASE con = "later"
    <3>1. req = [que EXCEPT !.unconfirmed = que.unconfirmed + 1]
      BY <1>8, <2>3 DEF NodeState
    <3>2. QED
      BY <1>8, <3>1, CalmUnconfirmed
  <2>4. QED
    BY <2>1, <2>2, <2>3
<1>13. QED
  BY <1>11, <1>12 DEF r, b, c

\* The expected telegram is indicated (E4, A2); the application may answer at once.
LEMMA IndicateKeeps ==
    ASSUME Inv, Order(tl, connects), NEW m \in Node, NEW n \in Node, Arrives(m, n, "DataConnected"),
           FromPeer(m, n), HeadOf(m).seq = tl[n].seqNoRecv, tl[n].currentState \in Open,
           NEW answer \in BOOLEAN
    PROVE  LET r == A2(tl[n], m, HeadOf(m), answer)
               d == [id |-> HeadOf(m).id, sentIn |-> HeadOf(m).conn, gotIn |-> tl[n].conn]
           IN  /\ Order([tl EXCEPT ![n] = r], connects)
               /\ Rounds(tl, connects) => Rounds([tl EXCEPT ![n] = r], connects)
               /\ r.delivered = [tl[n].delivered EXCEPT ![m] = Append(@, d)]
               /\ r.sent \in {tl[n].sent, tl[n].sent + 1}
<1> DEFINE s   == tl[n]
           t   == HeadOf(m)
           d   == [id |-> t.id, sentIn |-> t.conn, gotIn |-> s.conn]
           ack == Control(s, "Ack", s.connectionAddress, s.seqNoRecv)
           ind == [ack EXCEPT !.seqNoRecv = IncSeqNr(@), !.delivered[m] = Append(@, d)]
           req == IF answer THEN DataConnectedRequest(ind, s.seqNoSend) ELSE ind
           r   == A2(s, m, t, answer)
<1>1. /\ tl \in [Node -> NodeState] /\ m # n /\ tl[m].tx # <<>> /\ t = Head(tl[m].tx)
      /\ t \in Telegram /\ t.type = "DataConnected" /\ NodeInv(s) /\ s \in NodeState
  BY ArrivedType DEF Inv, Arrives, HeadOf
<1>2. /\ s.seqNoRecv \in SeqNo /\ s.seqNoSend \in SeqNo /\ s.connectionAddress = m
      /\ s.connectionAddress \in Node \cup {NoAddress} /\ s.conn \in Nat
  BY <1>1 DEF NodeState, FromPeer
<1>3. r = EnableConnectionTimeout(req)
  BY DEF A2
<1> HIDE DEF t
<1>4. d \in Delivery
  BY <1>1, <1>2 DEF Delivery, Telegram
<1>5. Calm(s, ack)
  BY <1>1, <1>2, CalmControl
<1>6. OnlyQueued(s, ack)
  BY <1>1, <1>2, ControlOnly DEF TpduType
<1> DEFINE f == [tl EXCEPT ![n] = ack]
<1>7. Order(f, connects) /\ (Rounds(tl, connects) => Rounds(f, connects))
  BY <1>5, CalmStep, CalmRounds DEF Rounds
<1> HIDE DEF d, ack, r
<1>8. NodeInv(ack) /\ ack \in NodeState /\ ack.currentState \in Open
  BY <1>1, <1>6, OnlyQueuedInv DEF OnlyQueued
<1>9. f \in [Node -> NodeState] /\ f[n] = ack /\ f[m] = tl[m]
  BY <1>1, <1>8
<1> DEFINE q == IncSeqNr(ack.seqNoRecv)
           e == [ack.delivered EXCEPT ![m] = Append(@, d)]
<1>10. q \in SeqNo /\ e \in [Node -> Seq(Delivery)]
  <2>1. ack.seqNoRecv \in SeqNo /\ ack.delivered \in [Node -> Seq(Delivery)]
    BY <1>8 DEF NodeState
  <2>2. Append(ack.delivered[m], d) \in Seq(Delivery)
    BY <2>1, <1>4
  <2>3. QED
    BY <2>1, <2>2, IncSeqNrType
<1>11. ind = [ack EXCEPT !.seqNoRecv = q, !.delivered = e]
  BY <1>8 DEF NodeState
<1>12. e = [s.delivered EXCEPT ![m] = Append(@, d)] /\ q = IncSeqNr(s.seqNoRecv)
  BY <1>6 DEF OnlyQueued
<1>13. t.seq = s.seqNoRecv
  BY DEF t
<1>14. ack.seqNoRecv = s.seqNoRecv /\ ack.delivered = s.delivered /\ ack.conn = s.conn
       /\ ack.connectionAddress = m /\ ack.sent = s.sent /\ d.gotIn = s.conn
  BY <1>2, <1>6 DEF OnlyQueued, d
<1>15. /\ ind \in NodeState /\ ind.currentState = ack.currentState /\ ind.tx = ack.tx
       /\ ind.sent = ack.sent /\ ind.conn = ack.conn /\ ind.savedFrame = ack.savedFrame
       /\ ind.connectionAddress = ack.connectionAddress
       /\ ind.seqNoRecv = q /\ ind.delivered = e
       /\ NodeInv(ind)
  <2> HIDE DEF q, e, ind, f
  <2>1. [ack EXCEPT !.seqNoRecv = q, !.delivered = e] \in NodeState
    BY <1>8, <1>10 DEF NodeState
  <2>2. NodeInv([ack EXCEPT !.seqNoRecv = q, !.delivered = e])
    BY <1>8, <1>10 DEF NodeInv, NodeState
  <2>3. QED
    BY <1>8, <1>11, <2>1, <2>2 DEF NodeState
<1>16. Indicates(ack, ind, m, t)
  <2>1. e = [ack.delivered EXCEPT ![m] =
                Append(@, [id |-> t.id, sentIn |-> t.conn, gotIn |-> ack.conn])]
    BY <1>14 DEF d
  <2>2. q = IncSeqNr(ack.seqNoRecv)
    OBVIOUS
  <2>3. ind.seqNoSend = ack.seqNoSend
    BY <1>8, <1>10, <1>11 DEF NodeState
  <2> HIDE DEF e, ind, f, q
  <2>4. ind.delivered = [ack.delivered EXCEPT ![m] =
                Append(@, [id |-> t.id, sentIn |-> t.conn, gotIn |-> ack.conn])]
    BY <1>15, <2>1
  <2>5. QED
    BY <1>1, <1>8, <1>13, <1>14, <1>15, <2>2, <2>3, <2>4 DEF Indicates
<1> HIDE DEF e, q, ind, f
<1>17. /\ Order([f EXCEPT ![n] = ind], connects)
       /\ Rounds(f, connects) => Rounds([f EXCEPT ![n] = ind], connects)
  BY <1>1, <1>7, <1>9, <1>16, IndicateStep, IndicateRounds DEF Rounds
<1>18. Keeps(n, ind, req) /\ Counts(ind, req) /\ req \in NodeState
  <2>1. CASE answer
    <3>1. NodeInv(DataConnectedRequest(ind, s.seqNoSend))
      BY <1>2, <1>15, RequestInv
    <3>2. QED
      BY <1>2, <1>15, <2>1, <3>1, RequestKeeps DEF NodeInv
  <2>2. CASE ~answer
    BY <1>15, <2>2, CalmTimers, CalmKeeps DEF Counts
  <2>3. QED
    BY <2>1, <2>2
<1> HIDE DEF req
<1>19. Calm(req, r)
  BY <1>3, <1>18, CalmTimers
<1>20. Keeps(n, ind, r)
  BY <1>18, <1>19, CalmKeeps, KeepsTrans
<1>21. /\ [f EXCEPT ![n] = ind] \in [Node -> NodeState] /\ [f EXCEPT ![n] = ind][n] = ind
       /\ [[f EXCEPT ![n] = ind] EXCEPT ![n] = r] = [tl EXCEPT ![n] = r]
  BY <1>9, <1>15 DEF f
<1>22. /\ Order([tl EXCEPT ![n] = r], connects)
       /\ Rounds(tl, connects) => Rounds([tl EXCEPT ![n] = r], connects)
  <2> DEFINE g == [f EXCEPT ![n] = ind]
  <2>1. /\ g \in [Node -> NodeState] /\ g[n] = ind /\ [g EXCEPT ![n] = r] = [tl EXCEPT ![n] = r]
        /\ Order(g, connects) /\ (Rounds(tl, connects) => Rounds(g, connects))
    BY <1>7, <1>17, <1>21
  <2> HIDE DEF g
  <2>2. /\ Order([g EXCEPT ![n] = r], connects)
        /\ Rounds(g, connects) => Rounds([g EXCEPT ![n] = r], connects)
    BY <1>20, <2>1 DEF Keeps
  <2>3. QED
    BY <2>1, <2>2
<1>23. r.delivered = [s.delivered EXCEPT ![m] = Append(@, d)] /\ r.sent \in {s.sent, s.sent + 1}
  BY <1>12, <1>14, <1>15, <1>18, <1>19 DEF Calm, Counts
<1>24. QED
  BY <1>22, <1>23 DEF r, d, t

-----------------------------------------------------------------------------
(* Every step keeps the order and, unless the bus repeats a T_Connect, the rounds; *)
(* it numbers or indicates at most one telegram.                                   *)

Ordering == Order(tl, connects)

\* What device n may do in one step
Does(f, n, r) ==
    /\ r.sent \in {f[n].sent, f[n].sent + 1}
    /\ \/ r.delivered = f[n].delivered
       \/ \E m \in Node, d \in Delivery :
             /\ r.delivered = [f[n].delivered EXCEPT ![m] = Append(@, d)]
             /\ d.id > 0 /\ d.id <= f[m].sent
             /\ n \in Server => \A e \in Got(f[n], m) : e.id < d.id

\* A step from f to g: device n does that, and the others nothing the observer sees.
Outcome(f, g) ==
    \E n \in Node :
       /\ Does(f, n, g[n])
       /\ \A p \in Node : p # n => g[p].sent = f[p].sent /\ g[p].delivered = f[p].delivered

\* Such a state of device n, and the rest as it was, is in order.
InPlace(n, r) == Order([tl EXCEPT ![n] = r], connects) /\ Does(tl, n, r)

Fits(n, r) == InPlace(n, r) /\ (Rounds(tl, connects) => Rounds([tl EXCEPT ![n] = r], connects))

Kept ==
    /\ Order(tl', connects') /\ Outcome(tl, tl')
    /\ "Connect" \notin Repeatable /\ Rounds(tl, connects) => Rounds(tl', connects')

LEMMA CalmFits ==
    ASSUME Ordering, NEW n \in Node, NEW r, Calm(tl[n], r)
    PROVE  Fits(n, r)
<1>1. Keeps(n, tl[n], r)
  BY CalmKeeps
<1>2. QED
  BY <1>1 DEF Ordering, Order, Keeps, Calm, Fits, InPlace, Does

LEMMA KeepsFits ==
    ASSUME Ordering, NEW n \in Node, NEW r, Keeps(n, tl[n], r), Counts(tl[n], r)
    PROVE  Fits(n, r)
BY DEF Ordering, Order, Keeps, Counts, Fits, InPlace, Does

\* A step of one device
LEMMA BecomesKept ==
    ASSUME Ordering, NEW n \in Node, NEW r, Order([tl EXCEPT ![n] = r], connects'), Does(tl, n, r),
           Rounds(tl, connects) => Rounds([tl EXCEPT ![n] = r], connects'),
           Becomes(n, r)
    PROVE  Kept
<1>1. tl' = [tl EXCEPT ![n] = r] /\ tl \in [Node -> NodeState]
  BY DEF Becomes, Ordering, Order
<1>2. tl'[n] = r /\ \A p \in Node : p # n => tl'[p] = tl[p]
  BY <1>1
<1>3. Order(tl', connects')
  BY <1>1
<1>4. Outcome(tl, tl')
  BY <1>2 DEF Outcome
<1>5. Rounds(tl, connects) => Rounds(tl', connects')
  BY <1>1
<1>6. QED
  BY <1>3, <1>4, <1>5 DEF Kept

\* A telegram of m is handled; the bus may repeat it.
LEMMA HandledInPlace ==
    ASSUME Ordering, NEW m \in Node, NEW n \in Node, m # n, tl[m].tx # <<>>,
           NEW r \in NodeState, InPlace(n, r), Handled(m, n, r)
    PROVE  Order(tl', connects') /\ Outcome(tl, tl')
<1> DEFINE u == [tl[m] EXCEPT !.tx = Tail(@)]
           g == [tl EXCEPT ![n] = r]
<1>1. /\ tl \in [Node -> NodeState] /\ tl[m] \in NodeState /\ connects' = connects
      /\ Order(g, connects) /\ Does(tl, n, r)
  BY DEF Ordering, Order, Handled, InPlace
<1>2. g \in [Node -> NodeState] /\ g[n] = r /\ \A p \in Node : p # n => g[p] = tl[p]
  BY <1>1
<1>3. CASE tl' = [tl EXCEPT ![m].tx = Tail(@), ![n] = r]
  <2>1. Calm(tl[m], u)
    BY <1>1, CalmTaken
  <2>2. u \in NodeState /\ u.sent = tl[m].sent /\ u.delivered = tl[m].delivered
    BY <2>1 DEF Calm
  <2>3. tl' = [tl EXCEPT ![m] = u, ![n] = r]
    BY <1>1, <1>3
  <2> HIDE DEF u
  <2>4. tl' = [g EXCEPT ![m] = u]
    BY <1>1, <2>3
  <2>5. /\ tl'[n] = r /\ tl'[m] = u
        /\ \A p \in Node : p # n /\ p # m => tl'[p] = tl[p]
    BY <1>1, <2>3
  <2> HIDE DEF g
  <2>6. Order([g EXCEPT ![m] = u], connects)
    BY <1>1, <1>2, <2>1, CalmStep
  <2>7. Order(tl', connects')
    BY <1>1, <2>4, <2>6
  <2>8. \A p \in Node : p # n => tl'[p].sent = tl[p].sent /\ tl'[p].delivered = tl[p].delivered
    BY <2>2, <2>5
  <2>9. Outcome(tl, tl')
    BY <1>1, <2>5, <2>8 DEF Outcome
  <2>10. QED
    BY <2>7, <2>9
<1>4. CASE tl' = g
  <2>1. Order(tl', connects')
    BY <1>1, <1>4
  <2>2. tl'[n] = r /\ \A p \in Node : p # n => tl'[p] = tl[p]
    BY <1>2, <1>4
  <2>3. Outcome(tl, tl')
    BY <1>1, <2>2 DEF Outcome
  <2>4. QED
    BY <2>1, <2>3
<1>5. QED
  BY <1>3, <1>4 DEF Handled

LEMMA HandledKept ==
    ASSUME Ordering, NEW m \in Node, NEW n \in Node, m # n, tl[m].tx # <<>>,
           NEW r \in NodeState, Fits(n, r), Handled(m, n, r)
    PROVE  Kept
<1> DEFINE u == [tl[m] EXCEPT !.tx = Tail(@)]
           g == [tl EXCEPT ![n] = r]
<1>1. Order(tl', connects') /\ Outcome(tl, tl')
  BY HandledInPlace DEF Fits
<1>2. /\ tl \in [Node -> NodeState] /\ tl[m] \in NodeState /\ connects' = connects
      /\ Order(g, connects) /\ (Rounds(tl, connects) => Rounds(g, connects)) /\ g[m] = tl[m]
  BY DEF Ordering, Order, Handled, Fits, InPlace
<1>3. CASE tl' = [tl EXCEPT ![m].tx = Tail(@), ![n] = r]
  <2>1. Calm(tl[m], u)
    BY <1>2, CalmTaken
  <2>2. tl' = [tl EXCEPT ![m] = u, ![n] = r]
    BY <1>2, <1>3
  <2> HIDE DEF u
  <2>3. tl' = [g EXCEPT ![m] = u]
    BY <1>2, <2>2
  <2> HIDE DEF g
  <2>4. Rounds(g, connects) => Rounds([g EXCEPT ![m] = u], connects)
    BY <1>2, <2>1, CalmRounds DEF Rounds
  <2>5. QED
    BY <1>1, <1>2, <2>3, <2>4 DEF Kept
<1>4. CASE tl' = g
  BY <1>1, <1>2, <1>4 DEF Kept
<1>5. QED
  BY <1>3, <1>4 DEF Handled

\* An indication that is taken
LEMMA IndicateFits ==
    ASSUME Inv, Ordering, NEW m \in Node, NEW n \in Node, Arrives(m, n, "DataConnected"),
           FromPeer(m, n), HeadOf(m).seq = tl[n].seqNoRecv, tl[n].currentState \in Open,
           NEW answer \in BOOLEAN
    PROVE  Fits(n, A2(tl[n], m, HeadOf(m), answer))
<1> DEFINE r == A2(tl[n], m, HeadOf(m), answer)
           d == [id |-> HeadOf(m).id, sentIn |-> HeadOf(m).conn, gotIn |-> tl[n].conn]
           t == HeadOf(m)
<1>1. /\ Order([tl EXCEPT ![n] = r], connects)
      /\ Rounds(tl, connects) => Rounds([tl EXCEPT ![n] = r], connects)
      /\ r.delivered = [tl[n].delivered EXCEPT ![m] = Append(@, d)]
      /\ r.sent \in {tl[n].sent, tl[n].sent + 1}
  BY IndicateKeeps DEF Ordering
<1>2. /\ t.id > 0 /\ t.id <= tl[m].sent
      /\ n \in Server => \A e \in Got(tl[n], m) : e.id < t.id
  <2>1. tl[m].tx # <<>> /\ t = Head(tl[m].tx) /\ t.type = "DataConnected"
    BY DEF Arrives, HeadOf
  <2>2. tl[n].connectionAddress = m
    BY DEF FromPeer
  <2> HIDE DEF t
  <2>3. t.seq = tl[n].seqNoRecv
    BY DEF t
  <2>4. QED
    BY <2>1, <2>2, <2>3, HeadIsNew DEF Ordering
<1>3. d \in Delivery /\ d.id = t.id
  <2>1. t \in Telegram /\ tl[n] \in NodeState
    BY ArrivedType
  <2>2. QED
    BY <2>1 DEF Telegram, NodeState, Delivery
<1> HIDE DEF r, d, t
<1>4. Does(tl, n, r)
  BY <1>1, <1>2, <1>3 DEF Does
<1>5. QED
  BY <1>1, <1>4 DEF Fits, InPlace, r

\* A T_Connect that is accepted: without repetition, no other of its connection is left.
LEMMA AcceptKept ==
    ASSUME Inv, Ordering, NEW m \in Node, NEW n \in Node, Arrives(m, n, "Connect"),
           tl[n].currentState = "Closed",
           Handled(m, n, A1([tl[n] EXCEPT !.currentState = "OpenIdle"], m, HeadOf(m).conn))
    PROVE  Kept
<1> DEFINE r == A1([tl[n] EXCEPT !.currentState = "OpenIdle"], m, HeadOf(m).conn)
           k == HeadOf(m).conn
           u == [tl[m] EXCEPT !.tx = Tail(@)]
           g == [tl EXCEPT ![m] = u]
<1>1. /\ Accepts(tl[n], r, m, k) /\ k \in Nat /\ Order([tl EXCEPT ![n] = r], connects)
      /\ r.delivered = tl[n].delivered /\ r.sent = tl[n].sent
  BY AcceptKeeps DEF Ordering
<1>2. Handled(m, n, r)
  OBVIOUS
<1> HIDE DEF r
<1>3. InPlace(n, r) /\ r \in NodeState
  BY <1>1 DEF InPlace, Does, Accepts
<1>4. /\ tl \in [Node -> NodeState] /\ tl[m] \in NodeState /\ connects' = connects
      /\ m # n /\ tl[m].tx # <<>> /\ HeadOf(m).type = "Connect" /\ HeadOf(m).dst = n
      /\ tl[m].tx \in Seq(Telegram) /\ HeadOf(m) = tl[m].tx[1] /\ 1 \in 1 .. Len(tl[m].tx)
  <2>1. /\ tl \in [Node -> NodeState] /\ tl[m] \in NodeState /\ connects' = connects
        /\ m # n /\ tl[m].tx # <<>> /\ HeadOf(m).type = "Connect" /\ HeadOf(m).dst = n
    BY <1>2 DEF Ordering, Order, Handled, Arrives
  <2>2. tl[m].tx \in Seq(Telegram)
    BY <2>1, NodeTypes
  <2>3. QED
    BY <2>1, <2>2 DEF HeadOf
<1>5. Order(tl', connects') /\ Outcome(tl, tl')
  BY <1>2, <1>3, <1>4, HandledInPlace
<1>6. ASSUME "Connect" \notin Repeatable, Rounds(tl, connects)
      PROVE  Rounds(tl', connects')
  <2>1. PICK h, b \in Numbering : RoundsOf(tl, connects, h, b)
    BY <1>6 DEF Rounds
  <2>2. Calm(tl[m], u) /\ u.tx = Tail(tl[m].tx)
    BY <1>4, CalmTaken DEF NodeState
  <2>3. tl' = [tl EXCEPT ![m] = u, ![n] = r]
    BY <1>2, <1>4, <1>6 DEF Handled
  <2> HIDE DEF u
  <2>4. /\ tl' = [g EXCEPT ![n] = r] /\ g[n] = tl[n] /\ g[m] = u
        /\ \A p \in Node : p # m => g[p] = tl[p]
    BY <1>4, <2>3
  <2>5. Order(g, connects) /\ RoundsOf(g, connects, h, b)
    BY <2>1, <2>2, CalmStep, CalmRounds DEF Ordering
  <2> HIDE DEF g, k
  <2>6. 1 \in ConnectsOf(tl[m]) /\ tl[m].tx[1].conn = k /\ tl[m].tx[1].dst = n
    BY <1>4 DEF ConnectsOf, k
  <2>7. ASSUME NEW p \in Node, NEW i \in ConnectsOf(g[p])
        PROVE  g[p].tx[i].conn # k
    <3>1. CASE p = m
      <4>1. i \in 1 .. Len(u.tx) /\ u.tx[i].type = "Connect"
        BY <2>4, <2>7, <3>1 DEF ConnectsOf
      <4>2. i + 1 \in 1 .. Len(tl[m].tx) /\ u.tx[i] = tl[m].tx[i + 1] /\ i + 1 # 1
        BY <1>4, <2>2, <4>1
      <4>3. i + 1 \in ConnectsOf(tl[m])
        BY <4>1, <4>2 DEF ConnectsOf
      <4>4. tl[m].tx[i + 1].conn # k
        BY <2>1, <2>6, <4>2, <4>3 DEF RoundsOf, OneConnect
      <4>5. QED
        BY <2>4, <3>1, <4>2, <4>4
    <3>2. CASE p # m
      BY <2>1, <2>4, <2>6, <2>7, <3>2 DEF RoundsOf, OneConnect
    <3>3. QED
      BY <3>1, <3>2
  <2>8. \A a \in 1 .. tl[n].sent : h[n][a] # k
    BY <2>1, <2>6 DEF RoundsOf, Pending
  <2>9. \A p \in Node : \A e \in Got(tl[n], p) : ~(InConnection(e) /\ e.gotIn = k)
    BY <2>6 DEF Ordering, Order, NotAgain
  <2>10. Fresh(g, n, h, k)
    BY <2>4, <2>7, <2>8, <2>9 DEF Fresh
  <2>11. Accepts(g[n], r, m, k)
    BY <1>1, <2>4 DEF k
  <2>12. Rounds([g EXCEPT ![n] = r], connects)
    BY <1>1, <2>5, <2>10, <2>11, AcceptRounds DEF k
  <2>13. QED
    BY <1>4, <2>4, <2>12
<1>7. QED
  BY <1>5, <1>6 DEF Kept

LEMMA RepeatFits ==
    ASSUME Inv, Ordering, NEW n \in Node, tl[n].currentState = "OpenWait"
    PROVE  Fits(n, A9(tl[n]))
<1>1. NodeInv(tl[n])
  BY DEF Inv
<1>2. QED
  BY <1>1, RepeatKeeps, KeepsFits DEF Counts

LEMMA IndicationKept ==
    ASSUME Inv, Ordering, NEW m \in Node, NEW n \in Node, Indication(m, n)
    PROVE  Kept
<1> DEFINE s == tl[n]
           t == HeadOf(m)
<1>0. \E type : Arrives(m, n, type)
  BY DEF Indication, E0, E1, E2, E3, E4, E5, E6, E7E10E14, E8, E9, E11, E12, E13
<1>t. /\ m # n /\ tl[m].tx # <<>> /\ t \in Telegram
      /\ t.seq \in SeqNo /\ t.conn \in Nat /\ NodeInv(s) /\ s \in NodeState
  BY <1>0, ArrivedType
<1>a. ASSUME NEW r \in NodeState, Fits(n, r), Handled(m, n, r)
      PROVE  Kept
  BY <1>t, <1>a, HandledKept
<1>c. ASSUME NEW r, Calm(s, r), Handled(m, n, r)
      PROVE  Kept
  BY <1>a, <1>c, CalmFits DEF Calm
<1>s. Calm(s, s) /\ Calm(s, A5(Close(s))) /\ Calm(s, A6(Close(s)))
  BY <1>t, CalmTimers, CalmClose
<1>n. Calm(s, A3(s, t.seq)) /\ Calm(s, A4(s, t.seq)) /\ Calm(s, A10(s, m))
  BY <1>t, CalmAnswers
<1> HIDE DEF Kept
<1>1. CASE E0(m, n) \/ E1(m, n)
  <2>1. CASE Handled(m, n, s)
    BY <1>c, <1>s, <2>1
  <2>2. CASE Handled(m, n, A10(s, m))
    BY <1>c, <1>n, <2>2
  <2>3. CASE /\ Arrives(m, n, "Connect") /\ s.currentState = "Closed"
             /\ Handled(m, n, A1([s EXCEPT !.currentState = "OpenIdle"], m, t.conn))
    BY <2>3, AcceptKept
  <2>4. QED
    BY <1>1, <2>1, <2>2, <2>3 DEF E0, E1
<1>2. CASE E2(m, n) \/ E3(m, n)
  BY <1>2, <1>c, <1>s DEF E2, E3
<1>3. CASE E4(m, n)
  <2>1. CASE Handled(m, n, s) \/ Handled(m, n, A6(Close(s)))
    BY <1>c, <1>s, <2>1
  <2>2. ASSUME NEW answer \in BOOLEAN, s.currentState \in Open,
               Handled(m, n, A2(s, m, t, answer))
        PROVE  Kept
    <3>1. Arrives(m, n, "DataConnected") /\ FromPeer(m, n) /\ t.seq = s.seqNoRecv
      BY <1>3 DEF E4
    <3>2. Fits(n, A2(s, m, t, answer))
      BY <2>2, <3>1, IndicateFits
    <3>3. A2(s, m, t, answer) \in NodeState
      BY <1>t, <2>2, IndicatedA2 DEF NodeInv
    <3>4. QED
      BY <1>a, <2>2, <3>2, <3>3
  <2>3. QED
    BY <1>3, <2>1, <2>2 DEF E4
<1>4. CASE E5(m, n)
  BY <1>4, <1>c, <1>s, <1>n DEF E5
<1>5. CASE E6(m, n)
  <2>1. CASE Handled(m, n, s) \/ Handled(m, n, A4(s, t.seq))
    BY <1>c, <1>s, <1>n, <2>1
  <2>2. CASE s.currentState = "Connecting" /\ Handled(m, n, A6(s))
    BY <1>t, <1>c, <2>2, CalmConnecting
  <2>3. QED
    BY <1>5, <2>1, <2>2 DEF E6
<1>6. CASE E7E10E14(m, n)
  BY <1>6, <1>c, <1>s, <1>n DEF E7E10E14
<1>7. CASE E8(m, n)
  <2>1. CASE Handled(m, n, s) \/ Handled(m, n, A6(Close(s)))
    BY <1>c, <1>s, <2>1
  <2>2. CASE s.currentState = "OpenWait" /\ Handled(m, n, A8([s EXCEPT !.currentState = "OpenIdle"]))
    BY <1>t, <1>c, <2>2, CalmA8
  <2>3. QED
    BY <1>7, <2>1, <2>2 DEF E8
<1>8. CASE E9(m, n) \/ E11(m, n) \/ E13(m, n)
  BY <1>8, <1>c, <1>s DEF E9, E11, E13
<1>9. CASE E12(m, n)
  <2>1. CASE Handled(m, n, s) \/ Handled(m, n, A6(Close(s)))
    BY <1>c, <1>s, <2>1
  <2>2. CASE s.currentState = "OpenWait" /\ s.repCount < MaxRepCount /\ Handled(m, n, A9(s))
    <3>1. A9(s) \in NodeState
      BY <1>t, <2>2, RepeatedA9 DEF NodeInv
    <3>2. QED
      BY <1>a, <2>2, <3>1, RepeatFits
  <2>3. QED
    BY <1>9, <2>1, <2>2 DEF E12
<1>10. QED
  BY <1>1, <1>2, <1>3, <1>4, <1>5, <1>6, <1>7, <1>8, <1>9 DEF Indication

LEMMA DevicesKept ==
    ASSUME Inv, Ordering, NEW n \in Node,
           \/ E19E20(n) \/ E15(n) \/ E26(n) \/ Loop(n) \/ PowerCycle(n) \/ LoseTelegram(n)
    PROVE  Kept
<1> DEFINE s == tl[n]
<1>1. s \in NodeState /\ NodeInv(s) /\ s.seqNoSend \in SeqNo
  BY DEF Inv, NodeState
<1>2. connects' = connects
  BY DEF E19E20, E15, E26, Loop, LoopConnectionTimeout, LoopAckTimeout, LoopSavedRequest,
         PowerCycle, LoseTelegram
<1>f. ASSUME NEW r, Fits(n, r), Becomes(n, r)
      PROVE  Kept
  BY <1>2, <1>f, BecomesKept DEF Fits, InPlace
<1>c. ASSUME NEW r, Calm(s, r), Becomes(n, r)
      PROVE  Kept
  BY <1>f, <1>c, CalmFits
<1>k. ASSUME NEW r, Keeps(n, s, r), Counts(s, r), Becomes(n, r)
      PROVE  Kept
  BY <1>f, <1>k, KeepsFits
<1> HIDE DEF Kept
<1>3. CASE E19E20(n)
  <2>1. PICK status \in BOOLEAN :
           Becomes(n, [ConnectConfirm(s, status) EXCEPT !.unconfirmed = @ - 1])
    BY <1>3 DEF E19E20
  <2> DEFINE r == ConnectConfirm(s, status)
  <2>2. Calm(s, r)
    BY <1>1, CalmConfirm
  <2>3. r.unconfirmed = s.unconfirmed /\ s.unconfirmed > 0 /\ s.unconfirmed \in Nat
    BY <1>1, <1>3 DEF ConnectConfirm, A13, A5, DisableTimeouts, NodeState, E19E20
  <2> HIDE DEF r
  <2>4. r \in NodeState /\ r.unconfirmed - 1 \in Nat
    BY <2>2, <2>3 DEF Calm
  <2>5. [r EXCEPT !.unconfirmed = @ - 1] = [r EXCEPT !.unconfirmed = r.unconfirmed - 1]
    BY <2>4 DEF NodeState
  <2>6. Calm(r, [r EXCEPT !.unconfirmed = @ - 1])
    BY <2>4, <2>5, CalmUnconfirmed
  <2>7. Calm(s, [r EXCEPT !.unconfirmed = @ - 1])
    BY <2>2, <2>6, CalmTrans
  <2>8. QED
    BY <1>c, <2>1, <2>7 DEF r
<1>4. CASE E15(n)
  BY <1>4, <1>1, <1>k, RequestKeeps DEF E15
<1>5. CASE E26(n)
  BY <1>5, <1>1, <1>c, CalmClosed, CalmClose DEF E26
<1>6. CASE PowerCycle(n)
  BY <1>6, <1>1, <1>c, CalmPowerCycle DEF PowerCycle
<1>7. CASE LoseTelegram(n)
  BY <1>7, <1>1, <1>c, CalmTaken DEF LoseTelegram
<1>8. CASE LoopConnectionTimeout(n)
  BY <1>8, <1>1, <1>c, CalmClose DEF LoopConnectionTimeout
<1>9. CASE LoopAckTimeout(n)
  <2>1. CASE s.currentState = "OpenWait" /\ Becomes(n, A9(s))
    BY <1>f, <2>1, RepeatFits
  <2>2. CASE Becomes(n, [A6(Close(s)) EXCEPT !.savedConnecting = NotSaved])
    BY <1>1, <1>c, <2>2, CalmClose
  <2>3. QED
    BY <1>9, <2>1, <2>2 DEF LoopAckTimeout
<1>10. CASE LoopSavedRequest(n)
  <2> DEFINE q == [s EXCEPT !.savedConnecting = NotSaved]
             r == DataConnectedRequest(q, s.savedConnecting)
  <2>1. NotSaved \in 0 .. SeqMod /\ s.savedConnecting \in 0 .. SeqMod /\ s.savedConnecting # SeqMod
    BY <1>1, <1>10, TransportAssumption DEF NotSaved, NodeState, LoopSavedRequest
  <2>2. s.savedConnecting \in SeqNo
    BY <2>1, TransportAssumption DEF SeqNo
  <2>3. NodeInv(q) /\ q \in NodeState
    BY <1>1, <2>1 DEF NodeInv, NodeState
  <2>4. q = A11(s, NotSaved)
    BY DEF A11
  <2>5. Calm(s, q)
    BY <1>1, <2>1, <2>4, CalmSaved
  <2> HIDE DEF q
  <2>6. Keeps(n, q, r) /\ Counts(q, r)
    BY <2>2, <2>3, RequestKeeps
  <2>7. Keeps(n, s, r) /\ Counts(s, r)
    BY <2>3, <2>5, <2>6, CalmKeeps, KeepsTrans DEF Counts, Calm
  <2>8. QED
    BY <1>10, <1>k, <2>7 DEF LoopSavedRequest, q
<1>11. QED
  BY <1>3, <1>4, <1>5, <1>6, <1>7, <1>8, <1>9, <1>10 DEF Loop

LEMMA ConnectKept ==
    ASSUME Inv, Ordering, NEW n \in Connector, NEW destination \in Node, E25(n, destination)
    PROVE  Kept
<1> DEFINE s == tl[n]
<1>1. n \in Node /\ NodeInv(s) /\ destination # n
  BY TransportAssumption DEF Inv, E25
<1>2. CASE s.currentState = "Closed"
  <2>1. PICK con \in {"now", "later", "refused"} :
           Becomes(n, A12([s EXCEPT !.currentState = "Connecting"], destination, connects', con))
    BY <1>2 DEF E25
  <2>2. connects' = connects + 1
    BY <1>2 DEF E25
  <2> DEFINE r == A12([s EXCEPT !.currentState = "Connecting"], destination, connects + 1, con)
  <2>3. /\ Order([tl EXCEPT ![n] = r], connects + 1) /\ r.delivered = s.delivered /\ r.sent = s.sent
        /\ Rounds(tl, connects) => Rounds([tl EXCEPT ![n] = r], connects + 1)
    BY <1>1, <1>2, ConnectKeeps DEF Ordering
  <2>4. Becomes(n, r)
    BY <2>1, <2>2
  <2> HIDE DEF r
  <2>5. Does(tl, n, r)
    BY <2>3 DEF Does
  <2>6. QED
    BY <1>1, <2>2, <2>3, <2>4, <2>5, BecomesKept
<1>3. CASE s.currentState # "Closed"
  <2>1. Becomes(n, A6(Close(s))) /\ connects' = connects
    BY <1>3 DEF E25
  <2>2. Fits(n, A6(Close(s)))
    BY <1>1, CalmClose, CalmFits
  <2>3. QED
    BY <1>1, <2>1, <2>2, BecomesKept DEF Fits, InPlace
<1>4. QED
  BY <1>2, <1>3

LEMMA NextKept ==
    ASSUME Inv, Ordering, Next
    PROVE  Kept
<1>1. Connector \subseteq Node
  BY TransportAssumption
<1>2. QED
  BY <1>1, IndicationKept, DevicesKept, ConnectKept DEF Next

\* Nothing is queued or delivered, and there is no connection.
LEMMA InitOrder == Init => Ordering
<1> SUFFICES ASSUME Init PROVE Ordering
  OBVIOUS
<1>1. tl = [n \in Node |-> InitNode] /\ connects = 0 /\ tl \in [Node -> NodeState]
  BY InitInv DEF Init, Inv
<1>2. \A n \in Node : tl[n] = InitNode
  BY <1>1
<1>3. /\ InitNode.currentState = "Closed" /\ InitNode.conn = 0 /\ InitNode.tx = <<>>
      /\ InitNode.delivered = [m \in Node |-> <<>>] /\ InitNode.sent = 0
  BY DEF InitNode
<1>4. DataOf(InitNode) = {} /\ ConnectsOf(InitNode) = {} /\ \A m \in Node : Got(InitNode, m) = {}
  BY <1>3 DEF DataOf, ConnectsOf, Got
<1>5. Senders(tl, 0)
  BY <1>2, <1>3, <1>4 DEF Senders, SenderInv, SenderConns, Waits
<1>6. Pairs(tl, 0) /\ Servers(tl)
  BY <1>2, <1>3, <1>4 DEF Pairs, Servers, FifoInv, ConnInv, ServerInv, Server
<1>7. Ends(tl, 0)
  <2> DEFINE x == [k \in 1 .. 0 |-> 0]
  <2>1. 1 .. 0 = {}
    OBVIOUS
  <2>2. x \in [1 .. 0 -> Node]
    BY <2>1
  <2>3. \A p \in Node : Belongs(tl[p], p, x, x)
    BY <1>2, <1>3, <1>4 DEF Belongs
  <2> HIDE DEF x
  <2>4. QED
    BY <2>1, <2>2, <2>3 DEF Ends, EndsOf
<1>8. NotAgain(tl) /\ Deliveries(tl)
  <2>1. NotAgain(tl)
    BY <1>2, <1>4 DEF NotAgain
  <2>2. InOrder(<<>>)
    BY DEF InOrder
  <2>3. QED
    BY <1>2, <1>3, <2>1, <2>2 DEF Deliveries
<1>9. QED
  BY <1>1, <1>5, <1>6, <1>7, <1>8 DEF Ordering, Order

LEMMA NextOrder == Inv /\ Ordering /\ [Next]_vars => Ordering'
<1> SUFFICES ASSUME Inv, Ordering, [Next]_vars PROVE Order(tl', connects')
  BY DEF Ordering
<1>1. CASE Next
  BY <1>1, NextKept DEF Kept
<1>2. CASE UNCHANGED vars
  BY <1>2 DEF vars, Ordering
<1>3. QED
  BY <1>1, <1>2

\* The order of telegrams: what is queued at a sender, what it waits for, what a
\* receiver expects and what its application got always fit together.
THEOREM OrderAlways == Spec => []Ordering
BY InitOrder, NextOrder, InvAlways, PTL DEF Spec

\* No application gets a telegram twice or after a later one, whatever is lost,
\* repeated, refused, reconnected or switched off and on (E4 to E6, A1, A2, A7, A9).
THEOREM DeliveredAlwaysOnceInOrder == Spec => []DeliveredOnceInOrder
<1>1. Ordering => DeliveredOnceInOrder
  BY DEF Ordering, Order, Deliveries, InOrder, DeliveredOnceInOrder
<1>2. QED
  BY <1>1, OrderAlways, PTL

\* No telegram has been numbered, and there is no connection.
LEMMA InitRounds == Init => Rounds(tl, connects)
<1> SUFFICES ASSUME Init PROVE Rounds(tl, connects)
  OBVIOUS
<1> DEFINE z == [p \in Node |-> [i \in Nat |-> 0]]
<1>1. z \in Numbering
  BY DEF Numbering
<1> HIDE DEF z
<1>2. /\ \A n \in Node : tl[n] = InitNode
      /\ InitNode.currentState = "Closed" /\ InitNode.tx = <<>> /\ InitNode.sent = 0
      /\ \A m \in Node : InitNode.delivered[m] = <<>>
  BY DEF Init, InitNode
<1>3. DataOf(InitNode) = {} /\ ConnectsOf(InitNode) = {} /\ ~Waits(InitNode)
  BY <1>2 DEF DataOf, ConnectsOf, Waits
<1>4. 1 .. 0 = {} /\ \A m \in Node : Len(InitNode.delivered[m]) = 0
  BY <1>2
<1>5. \A m \in Node : Writes(InitNode, z[m], z[m], connects)
  BY <1>2, <1>3, <1>4 DEF Writes
<1>6. \A m \in Node : Reads(InitNode, InitNode.delivered[m], z[m], z[m])
  BY <1>4 DEF Reads, Records, InRounds, Continues
<1>7. Pending(tl, z) /\ OneConnect(tl)
  BY <1>2, <1>3 DEF Pending, OneConnect
<1>8. RoundsOf(tl, connects, z, z)
  BY <1>2, <1>5, <1>6, <1>7 DEF RoundsOf
<1>9. QED
  BY <1>1, <1>8 DEF Rounds

\* The invariant behind NoneSkipped: there are rounds, unless the bus repeats T_Connects.
Rounding == "Connect" \notin Repeatable => Rounds(tl, connects)

\* Every step keeps the rounds.
LEMMA NextRounds == Inv /\ Ordering /\ Rounding /\ [Next]_vars => Rounding'
<1> SUFFICES ASSUME Inv, Ordering, Rounding, [Next]_vars, "Connect" \notin Repeatable
             PROVE  Rounds(tl', connects')
  BY DEF Rounding
<1>1. CASE Next
  BY <1>1, NextKept DEF Kept, Rounding
<1>2. CASE UNCHANGED vars
  BY <1>2 DEF vars, Rounding
<1>3. QED
  BY <1>1, <1>2

LEMMA RoundingAlways == Spec => []Rounding
<1>1. Init => Rounding
  BY InitRounds DEF Rounding
<1>2. QED
  BY <1>1, NextRounds, InvAlways, OrderAlways, PTL DEF Spec

\* What is missing between two telegrams that follow each other in a connection is whole
\* rounds of sequence numbers: a receiver compares nothing but the number modulo SeqMod.
SkipsAreRounds ==
    "Connect" \notin Repeatable => \A m, n \in Node : InRounds(tl[n].delivered[m])

\* However long the transmit queue is and whatever is lost, repeated or switched off and on,
\* a telegram is never skipped alone within a connection (E4, A2, A7 to A9, A12): only as many
\* as the sequence number can count can be missed.
THEOREM SkipsAlwaysRounds == Spec => []SkipsAreRounds
<1>1. Rounding => SkipsAreRounds
  BY DEF Rounding, Rounds, RoundsOf, Reads, Records, SkipsAreRounds
<1>2. QED
  BY <1>1, RoundingAlways, PTL

\* No device has numbered more telegrams than a round and the one after it.
OneRound == \A n \in Node : tl[n].sent <= SeqMod + 1

\* Two numbers in the same round that are equal modulo SeqMod are equal.
LEMMA RoundsExact ==
    ASSUME Ordering, Rounding, OneRound, "Connect" \notin Repeatable
    PROVE  NoneSkipped
<1>1. ASSUME NEW m \in Node, NEW n \in Node, NEW d, d = tl[n].delivered[m],
             NEW i \in 1 .. Len(d), NEW j \in 1 .. Len(d), i < j, InConnection(d[i]), InConnection(d[j]),
             d[i].gotIn = d[j].gotIn, \A k \in i + 1 .. j - 1 : ~InConnection(d[k])
      PROVE  d[j].id = d[i].id + 1
  <2>1. d[j].id % SeqMod = (d[i].id + 1) % SeqMod
    BY <1>1 DEF Rounding, Rounds, RoundsOf, Reads, Records, InRounds
  <2>2. d[i].id < d[j].id
    BY <1>1 DEF Ordering, Order, Deliveries, InOrder
  <2>3. d[i] \in Got(tl[n], m) /\ d[j] \in Got(tl[n], m)
    BY <1>1 DEF Got
  <2>4. /\ d[i].id \in Nat /\ d[j].id \in Nat /\ tl[m].sent \in Nat
    BY <2>3, NodeTypes DEF Ordering, Order
  <2>5. d[j].id <= tl[m].sent /\ tl[m].sent <= SeqMod + 1
    BY <2>3 DEF Ordering, Order, Pairs, FifoInv, OneRound
  <2>6. d[i].id > 0
    BY <1>1 DEF Rounding, Rounds, RoundsOf, Reads, Records
  <2> DEFINE x == d[i].id + 1
             y == d[j].id
  <2>7. x % SeqMod = y % SeqMod
    BY ONLY <2>1
  <2>8. x \in Nat /\ y \in Nat /\ x <= y /\ y < x + SeqMod
    <3>1. SeqMod \in Nat
      BY TransportAssumption
    <3> QED
      BY ONLY <2>2, <2>4, <2>5, <2>6, <3>1, SMTT(60)
  <2> HIDE DEF x, y
  <2>9. x = y
    BY <2>7, <2>8, SameRound
  <2>10. QED
    BY <2>9 DEF x, y
<1>2. QED
  BY <1>1, SMTT(60) DEF NoneSkipped

\* Within one round no telegram of a connection is skipped at all: the receiver takes only the
\* sequence number it expects (E4, A2), and a device uses it again only a round later (A7, A8).
THEOREM NoneSkippedInARound ==
    Spec => []("Connect" \notin Repeatable /\ OneRound => NoneSkipped)
<1>1. Ordering /\ Rounding => ("Connect" \notin Repeatable /\ OneRound => NoneSkipped)
  BY RoundsExact
<1>2. QED
  BY <1>1, OrderAlways, RoundingAlways, PTL

-----------------------------------------------------------------------------
(* The transport layers implement OrderedDelivery. *)

Ids(d) == [i \in 1 .. Len(d) |-> d[i].id]

\* The variables of OrderedDelivery when the devices are in the states f
SentOf(f) == [m \in Connector |-> f[m].sent]
GotOf(f)  == [n \in Server |-> [m \in Connector |-> Ids(f[n].delivered[m])]]

LEMMA InitRefines == Init => Ordered!Init
<1> SUFFICES ASSUME Init PROVE Ordered!Init
  OBVIOUS
<1>1. Connector \subseteq Node /\ Server \subseteq Node
  BY TransportAssumption DEF Server
<1>2. \A n \in Node : tl[n].sent = 0 /\ \A m \in Node : tl[n].delivered[m] = <<>>
  BY DEF Init, InitNode
<1>3. [m \in Connector |-> tl[m].sent] = [m \in Connector |-> 0]
  BY <1>1, <1>2
<1>4. \A n \in Server, m \in Connector :
         [i \in 1 .. Len(tl[n].delivered[m]) |-> tl[n].delivered[m][i].id] = <<>>
  <2>1. ASSUME NEW n \in Server, NEW m \in Connector
        PROVE  [i \in 1 .. Len(tl[n].delivered[m]) |-> tl[n].delivered[m][i].id] = <<>>
    <3>1. tl[n].delivered[m] = <<>>
      BY <1>1, <1>2, <2>1
    <3>2. 1 .. Len(tl[n].delivered[m]) = {}
      BY <3>1
    <3>3. QED
      BY <3>2
  <2>2. QED
    BY <2>1
<1>5. QED
  BY <1>3, <1>4 DEF Ordered!Init

\* A telegram more at the end
LEMMA IdsAppend ==
    ASSUME NEW q \in Seq(Delivery), NEW d \in Delivery
    PROVE  Ids(Append(q, d)) = Append(Ids(q), d.id)
<1> DEFINE p == Append(q, d)
<1>1. /\ Len(p) = Len(q) + 1 /\ Len(q) \in Nat /\ p[Len(q) + 1] = d
      /\ \A i \in 1 .. Len(q) : p[i] = q[i] /\ q[i] \in Delivery
  OBVIOUS
<1> HIDE DEF p
<1>2. \A e \in Delivery : e.id \in Nat
  BY DEF Delivery
<1>3. Ids(q) \in Seq(Nat) /\ Len(Ids(q)) = Len(q) /\ \A i \in 1 .. Len(q) : Ids(q)[i] = q[i].id
  BY <1>1, <1>2 DEF Ids
<1>4. Ids(p) \in Seq(Nat) /\ Len(Ids(p)) = Len(p) /\ \A i \in 1 .. Len(p) : Ids(p)[i] = p[i].id
  <2>1. \A i \in 1 .. Len(p) : p[i].id \in Nat
    BY <1>1, <1>2
  <2>2. QED
    BY <1>1, <2>1 DEF Ids
<1> HIDE DEF Ids
<1> DEFINE r == Append(Ids(q), d.id)
<1>5. /\ r \in Seq(Nat) /\ Len(r) = Len(q) + 1 /\ r[Len(q) + 1] = d.id
      /\ \A i \in 1 .. Len(q) : r[i] = Ids(q)[i]
  BY <1>1, <1>2, <1>3
<1> HIDE DEF r
<1>6. \A i \in 1 .. Len(q) + 1 : Ids(p)[i] = r[i]
  <2>1. \A i \in 1 .. Len(q) + 1 : i \in 1 .. Len(p) /\ (i = Len(q) + 1 \/ i \in 1 .. Len(q))
    BY <1>1
  <2>2. ASSUME NEW i \in 1 .. Len(q) PROVE Ids(p)[i] = r[i]
    <3>1. i \in 1 .. Len(p)
      BY <1>1
    <3>2. Ids(p)[i] = p[i].id
      BY <1>4, <3>1
    <3>3. r[i] = q[i].id /\ p[i] = q[i]
      BY <1>1, <1>3, <1>5
    <3>4. QED
      BY <3>2, <3>3
  <2>3. Ids(p)[Len(q) + 1] = r[Len(q) + 1]
    BY <1>1, <1>4, <1>5, <2>1
  <2>4. QED
    BY <2>1, <2>2, <2>3
<1>7. Ids(p) = r
  BY <1>1, <1>4, <1>5, <1>6
<1>8. QED
  BY <1>7 DEF p, r

\* What such a step is in terms of OrderedDelivery
Shown(f, g) ==
    \/ SentOf(g) = SentOf(f) /\ GotOf(g) = GotOf(f)
    \/ \E n \in Connector : SentOf(g) = [SentOf(f) EXCEPT ![n] = @ + 1] /\ GotOf(g) = GotOf(f)
    \/ \E m \in Connector, n \in Server :
          /\ \E id \in Ordered!Last(GotOf(f)[n][m]) + 1 .. SentOf(f)[m] :
                GotOf(g) = [GotOf(f) EXCEPT ![n][m] = Append(@, id)]
          /\ SentOf(g) = SentOf(f)

LEMMA OutcomeShown ==
    ASSUME NEW f \in [Node -> NodeState], NEW g \in [Node -> NodeState], Outcome(f, g)
    PROVE  Shown(f, g)
<1>1. PICK n \in Node :
         /\ Does(f, n, g[n])
         /\ \A p \in Node : p # n => g[p].sent = f[p].sent /\ g[p].delivered = f[p].delivered
  BY DEF Outcome
<1>2. Connector \subseteq Node /\ Server = Node \ Connector
  BY TransportAssumption DEF Server
<1>3. CASE n \in Connector
  <2>1. \A p \in Server : g[p].delivered = f[p].delivered
    BY <1>1, <1>2, <1>3
  <2>2. GotOf(g) = GotOf(f)
    BY <2>1 DEF GotOf
  <2>3. CASE g[n].sent = f[n].sent
    <3>1. \A p \in Connector : g[p].sent = f[p].sent
      BY <1>1, <1>2, <2>3
    <3>2. SentOf(g) = SentOf(f)
      BY <3>1 DEF SentOf
    <3>3. QED
      BY <2>2, <3>2 DEF Shown
  <2>4. CASE g[n].sent = f[n].sent + 1
    <3>1. \A p \in Connector : p # n => g[p].sent = f[p].sent
      BY <1>1, <1>2
    <3>2. SentOf(g) = [SentOf(f) EXCEPT ![n] = @ + 1]
      BY <1>3, <2>4, <3>1 DEF SentOf
    <3>3. QED
      BY <1>3, <2>2, <3>2 DEF Shown
  <2>5. QED
    BY <1>1, <2>3, <2>4 DEF Does
<1>4. CASE n \in Server
  <2>1. \A p \in Connector : g[p].sent = f[p].sent
    BY <1>1, <1>2, <1>4
  <2>2. SentOf(g) = SentOf(f)
    BY <2>1 DEF SentOf
  <2>3. \A p \in Server : p # n => g[p].delivered = f[p].delivered
    BY <1>1, <1>2
  <2>4. CASE \A m \in Connector : g[n].delivered[m] = f[n].delivered[m]
    <3>1. \A p \in Server, m \in Connector : g[p].delivered[m] = f[p].delivered[m]
      BY <2>3, <2>4
    <3>2. GotOf(g) = GotOf(f)
      BY <3>1 DEF GotOf
    <3>3. QED
      BY <2>2, <3>2 DEF Shown
  <2>5. ASSUME NEW m \in Connector, NEW d \in Delivery,
               g[n].delivered = [f[n].delivered EXCEPT ![m] = Append(@, d)],
               d.id > 0, d.id <= f[m].sent, \A e \in Got(f[n], m) : e.id < d.id
        PROVE  Shown(f, g)
    <3> DEFINE q == f[n].delivered[m]
    <3>1. /\ q \in Seq(Delivery) /\ f[n].delivered \in [Node -> Seq(Delivery)]
          /\ d.id \in Nat /\ f[m].sent \in Nat
      BY <1>2 DEF NodeState, Delivery
    <3>2. /\ g[n].delivered[m] = Append(q, d)
          /\ \A p \in Connector : p # m => g[n].delivered[p] = f[n].delivered[p]
      BY <1>2, <2>5, <3>1
    <3>3. Ids(Append(q, d)) = Append(Ids(q), d.id)
      BY <3>1, IdsAppend
    <3>4. GotOf(f)[n][m] = Ids(q) /\ SentOf(f)[m] = f[m].sent
      BY <1>4 DEF GotOf, SentOf
    <3>5. \A p \in Server, k \in Connector :
              Ids(g[p].delivered[k]) =
                 IF p = n /\ k = m THEN Append(Ids(q), d.id) ELSE Ids(f[p].delivered[k])
      BY <2>3, <3>2, <3>3
    <3> DEFINE G == GotOf(f)
               row == [G[n] EXCEPT ![m] = Append(Ids(q), d.id)]
    <3>6. GotOf(g) = [GotOf(f) EXCEPT ![n][m] = Append(@, d.id)]
      <4>1. \A p \in Server : p # n => GotOf(g)[p] = G[p]
        BY <3>5 DEF GotOf
      <4>2. GotOf(g)[n] = row
        BY <1>4, <3>5 DEF GotOf
      <4>3. GotOf(g) = [p \in Server |-> GotOf(g)[p]] /\ G = [p \in Server |-> G[p]]
        BY DEF GotOf
      <4>4. [G EXCEPT ![n][m] = Append(@, d.id)] = [G EXCEPT ![n] = row]
        BY <3>4
      <4> HIDE DEF G, row
      <4>5. GotOf(g) = [G EXCEPT ![n] = row]
        BY <1>4, <4>1, <4>2, <4>3
      <4>6. QED
        BY <4>4, <4>5 DEF G
    <3>7. Ordered!Last(Ids(q)) \in Nat /\ Ordered!Last(Ids(q)) < d.id
      <4>1. CASE Ids(q) = <<>>
        BY <2>5, <3>1, <4>1 DEF Ordered!Last
      <4>2. CASE Ids(q) # <<>>
        <5>1. Len(q) \in Nat /\ Len(Ids(q)) = Len(q) /\ \A i \in 1 .. Len(q) : Ids(q)[i] = q[i].id
          BY <3>1 DEF Ids
        <5>2. Len(q) # 0
          <6>1. Len(q) = 0 => 1 .. Len(q) = {}
            BY <5>1
          <6>2. Len(q) = 0 => Ids(q) = <<>>
            BY <6>1 DEF Ids
          <6>3. QED
            BY <4>2, <6>2
        <5>3. Len(q) \in 1 .. Len(q)
          BY <5>1, <5>2
        <5>4. q[Len(q)] \in Got(f[n], m) /\ q[Len(q)] \in Delivery
          BY <3>1, <5>3 DEF Got
        <5>5. Ordered!Last(Ids(q)) = q[Len(q)].id
          BY <4>2, <5>1, <5>3 DEF Ordered!Last
        <5>6. QED
          BY <2>5, <5>4, <5>5 DEF Delivery
      <4>3. QED
        BY <4>1, <4>2
    <3>8. d.id \in Ordered!Last(GotOf(f)[n][m]) + 1 .. SentOf(f)[m]
      BY <2>5, <3>1, <3>4, <3>7
    <3> HIDE DEF q
    <3>9. QED
      BY <1>4, <2>2, <3>6, <3>8 DEF Shown
  <2>6. f[n].delivered \in [Node -> Seq(Delivery)]
    BY SMTT(60) DEF NodeState
  <2>7. QED
    BY <1>1, <1>2, <1>4, <2>4, <2>5, <2>6 DEF Does
<1>5. QED
  BY <1>2, <1>3, <1>4

LEMMA NextRefines == Inv /\ Inv' /\ Ordering /\ [Next]_vars =>
    [Ordered!Next]_<<SentOf(tl), GotOf(tl)>>
<1> SUFFICES ASSUME Inv, Inv', Ordering, [Next]_vars
             PROVE  [Ordered!Next]_<<SentOf(tl), GotOf(tl)>>
  OBVIOUS
<1>1. Shown(tl, tl')
  <2>1. CASE Next
    BY <2>1, NextKept, OutcomeShown DEF Kept, Inv
  <2>2. CASE UNCHANGED vars
    BY <2>2 DEF vars, Shown
  <2>3. QED
    BY <2>1, <2>2
<1>2. SentOf(tl)' = SentOf(tl') /\ GotOf(tl)' = GotOf(tl')
  BY DEF SentOf, GotOf, Ids
<1>3. QED
  BY <1>1, <1>2 DEF Shown, Ordered!Next, Ordered!Send, Ordered!Indicate, SentOf, GotOf, Ids

\* The transport layers promise what OrderedDelivery promises: to a server, each telegram
\* of a client at most once and in order, none before it was sent (E4 to E6, A1, A2, A7).
THEOREM TransportDeliversInOrder == Spec => ImplementsOrderedDelivery
<1>1. Init => Ordered!Init
  BY InitRefines
<1>2. Inv /\ Inv' /\ Ordering /\ [Next]_vars => [Ordered!Next]_<<SentOf(tl), GotOf(tl)>>
  BY NextRefines
<1>3. Ordered!Spec <=> Ordered!Init /\ [][Ordered!Next]_<<SentOf(tl), GotOf(tl)>>
  BY DEF Ordered!Spec, SentOf, GotOf, Ids
<1>4. QED
  BY <1>1, <1>2, <1>3, InvAlways, OrderAlways, PTL DEF Spec, ImplementsOrderedDelivery

=============================================================================
