--------------------------- MODULE TransportLayer ---------------------------
(***************************************************************************)
(* The connection-oriented half of the KNX transport layer,                *)
(* src/src/knx/transport_layer.cpp, for a set of devices that all run it   *)
(* and talk over a bus that loses and repeats telegrams and tells a sender *)
(* of a T_Connect, at any later time, whether the telegram went out.       *)
(*                                                                         *)
(* tl[n] holds the private members of device n's TransportLayer object     *)
(* under their names in the source, the application layer's _connectedTsap *)
(* (written only by the callbacks of this layer) and the transmit queue of *)
(* the data link layer.  The operators A1..A15 are the source's actions,   *)
(* functions from the state of one device to its next state; the actions   *)
(* of the specification are its events E0..E26.                            *)
(*                                                                         *)
(* Timers are booleans (armed or not): an armed timer may expire at any    *)
(* call of loop(), so every relation between the 3 s and the 6 s timeout   *)
(* and the speed of the bus is allowed.                                    *)
(***************************************************************************)
EXTENDS Naturals, Sequences, FiniteSets

CONSTANTS
    Node,          \* the devices (individual addresses)
    Connector,     \* those whose application connects and disconnects
    SeqMod,        \* sequence numbers are taken modulo this: 16 in the source
    MaxRepCount,   \* _maxRepCount: 3 in the source
    TxCapacity,    \* room in the data link layer's transmit queue
    MaxSend,       \* bound: data telegrams a device numbers (ghost "sent")
    MaxConnect,    \* bound: connections requested in a behaviour
    MaxRepeat,     \* bound: telegrams the bus repeats in a behaviour
    Repeatable,    \* the types of telegram the bus may repeat
    MaxCrash       \* bound: power cycles in a behaviour

ASSUME TransportAssumption ==
    /\ Connector \subseteq Node
    /\ SeqMod \in Nat /\ SeqMod > 2
    /\ MaxRepCount \in Nat
    /\ TxCapacity \in Nat \ {0}
    /\ MaxSend \in Nat /\ MaxConnect \in Nat /\ MaxRepeat \in Nat /\ MaxCrash \in Nat

NoAddress == "none"     \* _connectionAddress before the first connection
NoTsap    == "-1"       \* _connectedTsap of an application that is not connected
OwnTsap   == "0"        \* the tsap connectConfirm hands to the connecting side
ASSUME AddressAssumption == {NoAddress, NoTsap, OwnTsap} \cap Node = {}

NotSaved == SeqMod      \* _savedConnectingValid is false

VARIABLES
    tl,         \* tl[n]: the transport layer of device n
    connects,   \* connections requested so far; numbers them (ghost)
    repeats,    \* telegrams repeated by the bus so far
    crashes     \* power cycles so far

vars == <<tl, connects, repeats, crashes>>

StateType == {"Closed", "OpenIdle", "OpenWait", "Connecting"}
Open      == {"OpenIdle", "OpenWait"}
SeqNo     == 0 .. SeqMod - 1
TpduType  == {"DataConnected", "Connect", "Disconnect", "Ack", "Nack"}

\* tpci is the sequence number under the authentication code of a secured
\* APDU; conn (the connection the sender believes in) and id (the number of
\* the data telegram at its sender) are ghosts.
Telegram == [type: TpduType, dst: Node \cup {NoAddress}, seq: SeqNo,
             tpci: SeqNo, conn: Nat, id: Nat]

\* What the application got: the telegram's id, the connection it was sent in
\* and the connection the receiver was in (all ghosts).
Delivery == [id: Nat, sentIn: Nat, gotIn: Nat]

SavedFrame == [seq: SeqNo, tpci: SeqNo, id: Nat]

NodeState ==
    [currentState: StateType,
     connectionAddress: Node \cup {NoAddress},
     seqNoSend: SeqNo, seqNoRecv: SeqNo,
     connectionTimeoutEnabled: BOOLEAN, ackTimeoutEnabled: BOOLEAN,
     repCount: Nat,
     savedFrame: SavedFrame,
     savedConnecting: 0 .. SeqMod,
     connectedTsap: Node \cup {NoTsap, OwnTsap},
     tx: Seq(Telegram),
     unconfirmed: Nat,
     conn: Nat, sent: Nat, delivered: [Node -> Seq(Delivery)]]

InitNode ==
    [currentState |-> "Closed", connectionAddress |-> NoAddress,
     seqNoSend |-> 0, seqNoRecv |-> 0,
     connectionTimeoutEnabled |-> FALSE, ackTimeoutEnabled |-> FALSE,
     repCount |-> 0, savedFrame |-> [seq |-> 0, tpci |-> 0, id |-> 0],
     savedConnecting |-> NotSaved, connectedTsap |-> NoTsap,
     tx |-> <<>>, unconfirmed |-> 0,
     conn |-> 0, sent |-> 0, delivered |-> [m \in Node |-> <<>>]]

-----------------------------------------------------------------------------
(* Helpers of the source, on the state s of one device. *)

IncSeqNr(q)  == (q + 1) % SeqMod
PrevSeqNr(q) == (q + SeqMod - 1) % SeqMod

\* A telegram that finds the transmit queue full is discarded with a message.
Queue(s, t) == IF Len(s.tx) < TxCapacity THEN [s EXCEPT !.tx = Append(@, t)] ELSE s

Control(s, type, dst, seq) ==
    Queue(s, [type |-> type, dst |-> dst, seq |-> seq, tpci |-> 0, conn |-> s.conn, id |-> 0])

DisableTimeouts(s) ==
    [s EXCEPT !.connectionTimeoutEnabled = FALSE, !.ackTimeoutEnabled = FALSE]

EnableConnectionTimeout(s) == [s EXCEPT !.connectionTimeoutEnabled = TRUE]

\* seeded fault: a data request arms no timer
EnableNoTimeouts(s) == s

EnableTimeouts(s) ==
    [s EXCEPT !.connectionTimeoutEnabled = TRUE, !.ackTimeoutEnabled = TRUE]

\* _savedFrame, sent or sent again
SendSaved(s) ==
    Queue(s, [type |-> "DataConnected", dst |-> s.connectionAddress,
              seq |-> s.savedFrame.seq, tpci |-> s.savedFrame.tpci,
              conn |-> s.conn, id |-> s.savedFrame.id])

A1(s, source, conn) ==
    EnableConnectionTimeout(
        [s EXCEPT !.connectionAddress = source, !.connectedTsap = source,
                  !.seqNoSend = 0, !.seqNoRecv = 0, !.conn = conn])

\* tpci: the number getTpciSeqNum returned when the request was secured
Numbered(s, tpci) ==
    [s EXCEPT !.savedFrame = [seq |-> s.seqNoSend, tpci |-> tpci, id |-> s.sent + 1],
              !.sent = @ + 1]

A7(s, tpci) == EnableTimeouts([SendSaved(Numbered(s, tpci)) EXCEPT !.repCount = 0])

A11(s, tpci) == [s EXCEPT !.savedConnecting = tpci]

\* The application's handler may answer from within the indication.
DataConnectedRequest(s, tpci) ==
    CASE s.currentState = "Closed" -> s
      [] s.currentState = "OpenIdle" -> A7([s EXCEPT !.currentState = "OpenWait"], tpci)
      [] OTHER -> A11(s, tpci)

\* seeded fault: the expected sequence number is not advanced
A2NoAdvance(s, source, t, answer) ==
    EnableConnectionTimeout(
        [Control(s, "Ack", s.connectionAddress, s.seqNoRecv) EXCEPT
            !.delivered[source] = Append(@, [id |-> t.id, sentIn |-> t.conn, gotIn |-> s.conn])])

A2(s, source, t, answer) ==
    LET indicated == [Control(s, "Ack", s.connectionAddress, s.seqNoRecv) EXCEPT
                          !.seqNoRecv = IncSeqNr(@),
                          !.delivered[source] = Append(@, [id |-> t.id, sentIn |-> t.conn, gotIn |-> s.conn])]
    IN  EnableConnectionTimeout(
            IF answer THEN DataConnectedRequest(indicated, s.seqNoSend) ELSE indicated)

A3(s, seq) == EnableConnectionTimeout(Control(s, "Ack", s.connectionAddress, seq))

A4(s, seq) == EnableConnectionTimeout(Control(s, "Nack", s.connectionAddress, seq))

A5(s) == DisableTimeouts([s EXCEPT !.connectedTsap = NoTsap])

A6(s) == A5(Control(s, "Disconnect", s.connectionAddress, 0))

\* seeded fault: the acknowledge timer is left running
A8KeepsTimer(s) ==
    EnableConnectionTimeout([s EXCEPT !.seqNoSend = IncSeqNr(@)])

A8(s) ==
    EnableConnectionTimeout(
        [s EXCEPT !.ackTimeoutEnabled = FALSE, !.seqNoSend = IncSeqNr(@)])

A9(s) == EnableTimeouts([SendSaved(s) EXCEPT !.repCount = @ + 1])

A10(s, source) == Control(s, "Disconnect", source, 0)

A13(s) == [s EXCEPT !.connectedTsap = OwnTsap]

\* dataIndividualConfirm for a T_Connect: E19 and E20
ConnectConfirm(s, status) ==
    CASE s.currentState = "Connecting" /\ status  -> A13([s EXCEPT !.currentState = "OpenIdle"])
      [] s.currentState = "Connecting" /\ ~status -> A5(s)
      [] OTHER -> s

\* con: the data link layer confirms within the request ("now"), refuses within
\* it ("refused", nothing is queued) or confirms "later".
A12(s, destination, conn, con) ==
    LET addressed == [s EXCEPT !.connectionAddress = destination, !.conn = conn]
        queued    == Control(addressed, "Connect", destination, 0)
        requested == CASE con = "refused" -> ConnectConfirm(addressed, FALSE)
                       [] con = "now"     -> ConnectConfirm(queued, TRUE)
                       [] con = "later"   -> [queued EXCEPT !.unconfirmed = @ + 1]
    IN  EnableConnectionTimeout([requested EXCEPT !.seqNoRecv = 0, !.seqNoSend = 0])

A15(s) == DisableTimeouts([s EXCEPT !.connectedTsap = NoTsap])

A14(s) == A15(Control(s, "Disconnect", s.connectionAddress, 0))

Close(s) == [s EXCEPT !.currentState = "Closed"]

-----------------------------------------------------------------------------
(* The bus: telegrams leave a device's queue in order. *)

HeadOf(m) == Head(tl[m].tx)

Arrives(m, n, type) ==
    /\ m # n
    /\ tl[m].tx # <<>>
    /\ HeadOf(m).dst = n
    /\ HeadOf(m).type = type

FromPeer(m, n) == m = tl[n].connectionAddress

\* Device n handles the telegram with result s; the bus may repeat it.
Handled(m, n, s) ==
    /\ \/ /\ tl' = [tl EXCEPT ![m].tx = Tail(@), ![n] = s]
          /\ UNCHANGED repeats
       \/ /\ repeats < MaxRepeat /\ HeadOf(m).type \in Repeatable
          /\ repeats' = repeats + 1
          /\ tl' = [tl EXCEPT ![n] = s]
    /\ UNCHANGED <<connects, crashes>>

\* A step of device n alone.
Becomes(n, s) == tl' = [tl EXCEPT ![n] = s]

LoseTelegram(m) ==
    /\ tl[m].tx # <<>>
    /\ Becomes(m, [tl[m] EXCEPT !.tx = Tail(@)])
    /\ UNCHANGED <<connects, repeats, crashes>>

-----------------------------------------------------------------------------
(* dataIndividualIndication: T_Connect *)

E0(m, n) ==
    /\ Arrives(m, n, "Connect") /\ FromPeer(m, n)
    /\ \/ /\ tl[n].currentState = "Closed"
          /\ Handled(m, n, A1([tl[n] EXCEPT !.currentState = "OpenIdle"], m, HeadOf(m).conn))
       \/ /\ tl[n].currentState # "Closed"
          /\ Handled(m, n, tl[n])

E1(m, n) ==
    /\ Arrives(m, n, "Connect") /\ ~FromPeer(m, n)
    /\ \/ /\ tl[n].currentState = "Closed"
          /\ Handled(m, n, A1([tl[n] EXCEPT !.currentState = "OpenIdle"], m, HeadOf(m).conn))
       \/ /\ tl[n].currentState # "Closed"
          /\ Handled(m, n, A10(tl[n], m))

(* T_Disconnect *)

E2(m, n) ==
    /\ Arrives(m, n, "Disconnect") /\ FromPeer(m, n)
    /\ \/ /\ tl[n].currentState = "Closed"
          /\ Handled(m, n, tl[n])
       \/ /\ tl[n].currentState # "Closed"
          /\ Handled(m, n, A5(Close(tl[n])))

E3(m, n) ==
    /\ Arrives(m, n, "Disconnect") /\ ~FromPeer(m, n)
    /\ Handled(m, n, tl[n])

(* T_Data_Connected *)

E4(m, n) ==
    /\ Arrives(m, n, "DataConnected") /\ FromPeer(m, n)
    /\ HeadOf(m).seq = tl[n].seqNoRecv
    /\ \/ /\ tl[n].currentState = "Closed"
          /\ Handled(m, n, tl[n])
       \/ /\ tl[n].currentState \in Open
          /\ \E answer \in BOOLEAN :
                /\ answer => tl[n].connectedTsap = m /\ tl[n].sent < MaxSend
                /\ Handled(m, n, A2(tl[n], m, HeadOf(m), answer))
       \/ /\ tl[n].currentState = "Connecting"
          /\ Handled(m, n, A6(Close(tl[n])))

\* seeded fault: a repeated telegram is indicated again
E5Indicates(m, n) ==
    /\ Arrives(m, n, "DataConnected") /\ FromPeer(m, n)
    /\ HeadOf(m).seq = PrevSeqNr(tl[n].seqNoRecv)
    /\ Handled(m, n, IF tl[n].currentState = "Closed" THEN tl[n]
                     ELSE A2(tl[n], m, HeadOf(m), FALSE))

E5(m, n) ==
    /\ Arrives(m, n, "DataConnected") /\ FromPeer(m, n)
    /\ HeadOf(m).seq = PrevSeqNr(tl[n].seqNoRecv)
    /\ \/ /\ tl[n].currentState = "Closed"
          /\ Handled(m, n, tl[n])
       \/ /\ tl[n].currentState # "Closed"
          /\ Handled(m, n, A3(tl[n], HeadOf(m).seq))

E6(m, n) ==
    /\ Arrives(m, n, "DataConnected") /\ FromPeer(m, n)
    /\ HeadOf(m).seq \notin {tl[n].seqNoRecv, PrevSeqNr(tl[n].seqNoRecv)}
    /\ \/ /\ tl[n].currentState = "Closed"
          /\ Handled(m, n, tl[n])
       \/ /\ tl[n].currentState \in Open
          /\ Handled(m, n, A4(tl[n], HeadOf(m).seq))
       \/ /\ tl[n].currentState = "Connecting"      \* and stays Connecting
          /\ Handled(m, n, A6(tl[n]))

\* E7, E10 and E14: from a device other than the peer
E7E10E14(m, n) ==
    /\ \E type \in {"DataConnected", "Ack", "Nack"} : Arrives(m, n, type)
    /\ ~FromPeer(m, n)
    /\ \/ /\ tl[n].currentState = "Connecting"
          /\ Handled(m, n, A10(tl[n], m))
       \/ /\ tl[n].currentState # "Connecting"
          /\ Handled(m, n, tl[n])

(* T_ACK *)

\* seeded fault: the sequence number of a T_ACK is not compared
E8AnyAck(m, n) ==
    /\ Arrives(m, n, "Ack") /\ FromPeer(m, n)
    /\ tl[n].currentState = "OpenWait"
    /\ Handled(m, n, A8([tl[n] EXCEPT !.currentState = "OpenIdle"]))

E8(m, n) ==
    /\ Arrives(m, n, "Ack") /\ FromPeer(m, n)
    /\ HeadOf(m).seq = tl[n].seqNoSend
    /\ \/ /\ tl[n].currentState \in {"Closed", "OpenIdle"}
          /\ Handled(m, n, tl[n])
       \/ /\ tl[n].currentState = "OpenWait"
          /\ Handled(m, n, A8([tl[n] EXCEPT !.currentState = "OpenIdle"]))
       \/ /\ tl[n].currentState = "Connecting"
          /\ Handled(m, n, A6(Close(tl[n])))

E9(m, n) ==
    /\ Arrives(m, n, "Ack") /\ FromPeer(m, n)
    /\ HeadOf(m).seq # tl[n].seqNoSend
    /\ \/ /\ tl[n].currentState \in {"Closed", "OpenIdle"}
          /\ Handled(m, n, tl[n])
       \/ /\ tl[n].currentState \in {"OpenWait", "Connecting"}
          /\ Handled(m, n, A6(Close(tl[n])))

(* T_NACK *)

E11(m, n) ==
    /\ Arrives(m, n, "Nack") /\ FromPeer(m, n)
    /\ HeadOf(m).seq # tl[n].seqNoSend
    /\ \/ /\ tl[n].currentState # "Connecting"
          /\ Handled(m, n, tl[n])
       \/ /\ tl[n].currentState = "Connecting"
          /\ Handled(m, n, A6(Close(tl[n])))

E12(m, n) ==
    /\ Arrives(m, n, "Nack") /\ FromPeer(m, n)
    /\ HeadOf(m).seq = tl[n].seqNoSend /\ tl[n].repCount < MaxRepCount
    /\ \/ /\ tl[n].currentState = "Closed"
          /\ Handled(m, n, tl[n])
       \/ /\ tl[n].currentState \in {"OpenIdle", "Connecting"}
          /\ Handled(m, n, A6(Close(tl[n])))
       \/ /\ tl[n].currentState = "OpenWait"
          /\ Handled(m, n, A9(tl[n]))

E13(m, n) ==
    /\ Arrives(m, n, "Nack") /\ FromPeer(m, n)
    /\ HeadOf(m).seq = tl[n].seqNoSend /\ tl[n].repCount >= MaxRepCount
    /\ \/ /\ tl[n].currentState = "Closed"
          /\ Handled(m, n, tl[n])
       \/ /\ tl[n].currentState # "Closed"
          /\ Handled(m, n, A6(Close(tl[n])))

-----------------------------------------------------------------------------
(* dataIndividualConfirm for a T_Connect, later than the request *)

E19E20(n) ==
    /\ tl[n].unconfirmed > 0
    /\ \E status \in BOOLEAN :
          Becomes(n, [ConnectConfirm(tl[n], status) EXCEPT !.unconfirmed = @ - 1])
    /\ UNCHANGED <<connects, repeats, crashes>>

(* Requests of the application layer *)

\* E25, connectRequest
E25(n, destination) ==
    /\ destination # n
    /\ \/ /\ tl[n].currentState = "Closed"
          /\ connects < MaxConnect
          /\ connects' = connects + 1
          /\ \E con \in {"now", "later", "refused"} :
                /\ Len(tl[n].tx) >= TxCapacity => con = "refused"
                /\ Becomes(n, A12([tl[n] EXCEPT !.currentState = "Connecting"],
                                  destination, connects', con))
       \/ /\ tl[n].currentState # "Closed"
          /\ Becomes(n, A6(Close(tl[n])))
          /\ UNCHANGED connects
    /\ UNCHANGED <<repeats, crashes>>

\* E26, disconnectRequest
E26(n) ==
    /\ \/ tl[n].currentState = "Closed" /\ Becomes(n, A15(tl[n]))
       \/ tl[n].currentState # "Closed" /\ Becomes(n, A14(Close(tl[n])))
    /\ UNCHANGED <<connects, repeats, crashes>>

\* E15, dataConnectedRequest: individualSend comes here only while connected.
\* A secured APDU is encoded with the number getTpciSeqNum returns now.
E15(n) ==
    /\ tl[n].connectedTsap # NoTsap
    /\ tl[n].sent < MaxSend
    /\ Becomes(n, DataConnectedRequest(tl[n], tl[n].seqNoSend))
    /\ UNCHANGED <<connects, repeats, crashes>>

-----------------------------------------------------------------------------
(* loop(): the connection timeout, then the acknowledge timeout, then the
   saved request, in one call.  A device that has just closed drops the saved
   request; one still waiting saves it again. *)

\* seeded fault: an idle connection is not timed out
LoopConnectionTimeoutBusy(n) ==
    /\ tl[n].connectionTimeoutEnabled
    /\ tl[n].currentState \in {"OpenWait", "Connecting"}
    /\ Becomes(n, [A6(Close(tl[n])) EXCEPT !.savedConnecting = NotSaved])
    /\ UNCHANGED <<connects, repeats, crashes>>

LoopConnectionTimeout(n) ==          \* E16
    /\ tl[n].connectionTimeoutEnabled
    /\ tl[n].currentState # "Closed"
    /\ Becomes(n, [A6(Close(tl[n])) EXCEPT !.savedConnecting = NotSaved])
    /\ UNCHANGED <<connects, repeats, crashes>>

\* seeded fault: after the last repetition the request is given up, the
\* connection is kept
LoopAckTimeoutGivesUp(n) ==
    /\ tl[n].ackTimeoutEnabled /\ tl[n].currentState = "OpenWait"
    /\ \/ tl[n].repCount < MaxRepCount /\ Becomes(n, A9(tl[n]))
       \/ /\ tl[n].repCount >= MaxRepCount
          /\ Becomes(n, [tl[n] EXCEPT !.currentState = "OpenIdle", !.ackTimeoutEnabled = FALSE])
    /\ UNCHANGED <<connects, repeats, crashes>>

LoopAckTimeout(n) ==                 \* E17 and E18
    /\ tl[n].ackTimeoutEnabled
    /\ tl[n].currentState = "OpenWait"
    /\ \/ /\ tl[n].repCount < MaxRepCount
          /\ Becomes(n, A9(tl[n]))
       \/ /\ tl[n].repCount >= MaxRepCount
          /\ Becomes(n, [A6(Close(tl[n])) EXCEPT !.savedConnecting = NotSaved])
    /\ UNCHANGED <<connects, repeats, crashes>>

LoopSavedRequest(n) ==
    /\ tl[n].savedConnecting # NotSaved
    /\ tl[n].currentState = "OpenIdle" => tl[n].sent < MaxSend
    /\ Becomes(n, DataConnectedRequest([tl[n] EXCEPT !.savedConnecting = NotSaved],
                                       tl[n].savedConnecting))
    /\ UNCHANGED <<connects, repeats, crashes>>

\* A power cycle: only what the observer counts survives.
PowerCycle(n) ==
    /\ crashes < MaxCrash
    /\ crashes' = crashes + 1
    /\ Becomes(n, [InitNode EXCEPT !.sent = tl[n].sent, !.delivered = tl[n].delivered])
    /\ UNCHANGED <<connects, repeats>>

-----------------------------------------------------------------------------
Init ==
    /\ tl = [n \in Node |-> InitNode]
    /\ connects = 0 /\ repeats = 0 /\ crashes = 0

Indication(m, n) ==
    \/ E0(m, n) \/ E1(m, n) \/ E2(m, n) \/ E3(m, n)
    \/ E4(m, n) \/ E5(m, n) \/ E6(m, n) \/ E7E10E14(m, n)
    \/ E8(m, n) \/ E9(m, n) \/ E11(m, n) \/ E12(m, n) \/ E13(m, n)

Loop(n) == LoopConnectionTimeout(n) \/ LoopAckTimeout(n) \/ LoopSavedRequest(n)

Next ==
    \/ \E m, n \in Node : Indication(m, n)
    \/ \E m \in Node : LoseTelegram(m)
    \/ \E n \in Node : E19E20(n) \/ E15(n) \/ Loop(n) \/ PowerCycle(n)
    \/ \E n \in Connector : E26(n) \/ \E destination \in Node : E25(n, destination)

Spec == Init /\ [][Next]_vars

\* The main loop of every device keeps running, so an armed timer expires.
FairSpec ==
    /\ Spec
    /\ \A n \in Node : WF_vars(LoopConnectionTimeout(n)) /\ WF_vars(LoopAckTimeout(n))

-----------------------------------------------------------------------------
TypeOK ==
    /\ tl \in [Node -> NodeState]
    /\ connects \in Nat /\ repeats \in Nat /\ crashes \in Nat

\* The acknowledge timer runs exactly while a telegram waits for its T_ACK, and
\* then the connection timer runs too; a closed connection has no timer.
\* (Every path of the state machine that leaves OpenWait must disarm it.)
TimersFollowState ==
    \A n \in Node :
        /\ tl[n].ackTimeoutEnabled <=> tl[n].currentState = "OpenWait"
        /\ tl[n].currentState = "OpenWait" => tl[n].connectionTimeoutEnabled
        /\ tl[n].currentState = "Closed" => ~tl[n].connectionTimeoutEnabled

\* The application layer believes it is connected (ApplicationLayer::isConnected,
\* on which restartRequest relies) exactly while the connection is open, and a
\* server's tsap is the address the transport layer accepts telegrams from.
ApplicationFollowsState ==
    \A n \in Node :
        /\ tl[n].connectedTsap # NoTsap <=> tl[n].currentState \in Open
        /\ tl[n].connectedTsap \in {NoTsap, OwnTsap, tl[n].connectionAddress}

\* The telegram that A9 repeats is the one whose acknowledgement is awaited: a
\* T_ACK or T_NACK is compared with _seqNoSend, never with the saved telegram.
AwaitsSavedFrame ==
    \A n \in Node : tl[n].currentState = "OpenWait" =>
        /\ tl[n].savedFrame.seq = tl[n].seqNoSend
        /\ tl[n].savedFrame.id = tl[n].sent
        /\ tl[n].repCount <= MaxRepCount

\* The three together: timers, application and the telegram to repeat belong to the
\* state the connection is in.
ConnectionConsistent == TimersFollowState /\ ApplicationFollowsState /\ AwaitsSavedFrame

\* Sender and receiver were in the same connection.
InConnection(d) == d.sentIn = d.gotIn

\* No telegram is handed to an application twice or out of order, whatever the
\* bus loses or repeats, across reconnections and power cycles.  (Telegrams of a
\* connection that only the sender is still in are left out: nothing in a
\* telegram tells them apart, and a receiver that has opened a new connection to
\* the sender takes them.)
DeliveredOnceInOrder ==
    \A m, n \in Node :
        LET d == tl[n].delivered[m]
        IN  \A i, j \in 1 .. Len(d) :
                i < j /\ InConnection(d[i]) /\ InConnection(d[j]) => d[i].id < d[j].id

\* Within a connection no telegram is skipped: a sender goes on only when its
\* telegram was acknowledged, and the receiver acknowledges only what it has.
\* (The bus must not repeat a T_Connect: repeated after the server has timed out,
\* it opens the same connection again at sequence number 0.)
NoneSkipped ==
    \A m, n \in Node :
        LET d == tl[n].delivered[m]
        IN  \A i, j \in 1 .. Len(d) :
                /\ i < j /\ InConnection(d[i]) /\ InConnection(d[j]) /\ d[i].gotIn = d[j].gotIn
                /\ \A k \in i + 1 .. j - 1 : ~InConnection(d[k])
                => d[j].id = d[i].id + 1

DeliveredIds(m, n) == {tl[n].delivered[m][i].id : i \in 1 .. Len(tl[n].delivered[m])}

\* A T_ACK that a server sent within the very connection its client is in is
\* never taken for a telegram that the server's application did not get.  (A
\* server still in an older connection ignores the T_Connect, E0, and may
\* acknowledge as a repetition what it never had.)
AckMeansDelivered ==
    [][\A n \in Connector :
          LET peer == tl[n].connectionAddress
          IN  ( /\ tl[n].currentState = "OpenWait" /\ tl'[n].currentState = "OpenIdle"
                /\ peer \notin Connector
                /\ HeadOf(peer).conn = tl[n].conn )
              => tl[n].savedFrame.id \in DeliveredIds(n, peer)]_vars

\* Every data request is settled: acknowledged, or the connection is closed
\* after the repetitions, even if the peer never answers.
RequestSettled ==
    \A n \in Node : \A k \in 1 .. MaxSend :
        (tl[n].currentState = "OpenWait" /\ tl[n].sent = k)
            ~> ~(tl[n].currentState = "OpenWait" /\ tl[n].sent = k)

\* A connection whose timer is armed does not stay open for ever: a peer that
\* vanished (power cycle, lost T_Disconnect) is given up.
ArmedConnectionReleased ==
    \A n \in Node :
        (tl[n].currentState \in Open /\ tl[n].connectionTimeoutEnabled)
            ~> tl[n].currentState = "Closed"

\* The comment on getTpciSeqNum: it returns the sequence number that would be
\* used for sending the next frame.  So a secured request goes out under the
\* number that was authenticated.
TpciSeqNumIsUsed ==
    \A n \in Node : \A i \in 1 .. Len(tl[n].tx) :
        tl[n].tx[i].type = "DataConnected" => tl[n].tx[i].tpci = tl[n].tx[i].seq

=============================================================================
