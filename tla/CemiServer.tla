------------------------------ MODULE CemiServer ------------------------------
(***************************************************************************)
(* A device whose USB interface gives a client (a tool on a computer) a    *)
(* share of its bus connection: cemi_server.cpp, the data link layer       *)
(* (data_link_layer.cpp) and its twisted pair medium                       *)
(* (tpuart_data_link_layer.cpp).  The device and the client send through   *)
(* one transmit queue under two individual addresses; what the bus makes   *)
(* of a frame comes back later and belongs to the one that sent it.        *)
(* An address is two octets, here of two values each.                      *)
(***************************************************************************)
EXTENDS Integers, Sequences, FiniteSets

CONSTANTS
    MaxQueue,   \* frames the transmit queue of the TP-UART holds
    MaxFrame,   \* bound: frames sent
    MaxChange   \* bound: changes of an address, saves, restarts, connections

VARIABLES
    own,        \* _deviceObject.individualAddress()
    stored,     \* the same in the memory that survives a restart
    client,     \* _clientAddress
    progMode,
    connected,  \* the TP-UART answers
    tx,         \* its transmit queue
    asked,      \* frames asked to be sent, by the local stack and by the client
    confirmed,  \* confirmations the local stack has got, for either's frames
    indicated,  \* whose frames the client has got as indications
    answer,     \* the last answer to a management request of the client
    duplicate,  \* individualAddressDuplication
    calm,       \* both have used their own addresses, see Unsettled
    changes     \* for the bound

vars == <<own, stored, client, progMode, connected, tx, asked, confirmed,
          indicated, answer, duplicate, calm, changes>>
addresses == <<own, stored, client, progMode>>
traffic == <<tx, asked, confirmed, indicated, duplicate>>

Octet == 0..1
Address == 0..3
High(a) == a \div 2
Low(a) == a % 2
Unset == 3                             \* 0xFFFF
HandedOut(address) == (address + 1) % 4

Sender == {"stack", "client"}
Nothing == [from \in Sender |-> 0]
Frames(from) == Cardinality({i \in DOMAIN tx : tx[i].from = from})

(* The cEMI server is built before the memory is restored: the client gets *)
(* the address behind the one of a device that has none.                   *)
Init ==
    /\ own = Unset /\ stored = Unset /\ client = HandedOut(Unset)
    /\ progMode = FALSE /\ connected = TRUE
    /\ tx = <<>> /\ asked = Nothing /\ confirmed = Nothing /\ indicated = {}
    /\ answer = "none" /\ duplicate = FALSE /\ calm = TRUE /\ changes = 0

-----------------------------------------------------------------------------
(* dataConReceived(): a confirmation for the client's address stops here.  *)
(* seeded fault: the client's address is taken to be the one behind the own *)
ToStackByOwn(frame) == frame.source # HandedOut(own)

ToStack(frame) == frame.source # client
Confirm(frame) ==
    confirmed' = IF ToStack(frame) THEN [confirmed EXCEPT ![frame.from] = @ + 1] ELSE confirmed

(* TpUartDataLinkLayer::sendFrame(): what is not queued is refused, and    *)
(* the refusal is confirmed at once.                                       *)
Accepted == connected /\ Len(tx) < MaxQueue

SendFrame(frame) ==
    /\ asked[frame.from] < MaxFrame
    /\ tx' = IF Accepted THEN Append(tx, frame) ELSE tx
    /\ IF Accepted THEN UNCHANGED confirmed ELSE Confirm(frame)
    /\ asked' = [asked EXCEPT ![frame.from] = @ + 1]
    /\ calm' = (calm /\ own # client
                     /\ frame.source = (IF frame.from = "stack" THEN own ELSE client))

(* frameReceived(): a frame not from the client's address goes to the      *)
(* client, one from the own address shows that another device has it.      *)
FrameReceived(from, source) ==
    /\ indicated' = IF source # client THEN indicated \cup {from} ELSE indicated
    /\ duplicate' = (duplicate \/ source = own)

(* sendTelegram(): in a device the frame is not shown to the client.       *)
StackSends ==
    /\ SendFrame([from |-> "stack", source |-> own])
    /\ UNCHANGED <<addresses, connected, indicated, answer, duplicate, changes>>

(* handleLData() and dataRequestFromTunnel(): the client is told at once   *)
(* that its frame has been sent, the local stack gets it as if it came     *)
(* from the bus, then it is sent.                                          *)
ClientSends ==
    /\ \E given \in Address :
          LET source == IF given = 0 THEN client ELSE given
          IN /\ SendFrame([from |-> "client", source |-> source])
             /\ FrameReceived("client", source)
    /\ UNCHANGED <<addresses, connected, answer, changes>>

(* The TP-UART reports the result of the oldest frame.                     *)
BusResult ==
    /\ tx # <<>>
    /\ tx' = Tail(tx)
    /\ Confirm(Head(tx))
    /\ UNCHANGED <<addresses, connected, asked, indicated, answer, duplicate, calm, changes>>

(* processRxFrame(): a frame of another device.                            *)
BusFrame ==
    /\ \E source \in Address : FrameReceived("bus", source)
    /\ UNCHANGED <<addresses, connected, tx, asked, confirmed, answer, calm, changes>>

-----------------------------------------------------------------------------
Change == changes < MaxChange /\ changes' = changes + 1

(* When an address changes while frames are under way, their confirmations *)
(* are told apart by addresses that nobody has any more.                   *)
Readdress(newOwn, newClient) ==
    /\ own' = newOwn /\ client' = newClient
    /\ calm' = (calm /\ (tx = <<>> \/ (newOwn = own /\ newClient = client)))

(* An individual address written over the bus, in programming mode.        *)
OwnAddressWrite ==
    /\ Change /\ progMode
    /\ \E a \in Address : Readdress(a, client)
    /\ UNCHANGED <<stored, progMode, connected, traffic, answer>>

Button ==
    /\ Change
    /\ progMode' = ~progMode
    /\ UNCHANGED <<own, stored, client, connected, traffic, answer, calm>>

(* M_PropWrite.req of an octet of the address, or without any data to ask  *)
(* whether it could be written.                                            *)
Candidates == {2 * High(client) + o : o \in Octet} \cup {2 * o + Low(client) : o \in Octet}

PropWriteProbe ==
    /\ answer' = "written"
    /\ UNCHANGED <<addresses, connected, traffic, calm, changes>>

PropWriteAddress ==
    /\ Change
    /\ \E candidate \in Candidates :
          IF progMode /\ candidate # own
          THEN Readdress(own, candidate) /\ answer' = "written"
          ELSE /\ answer' = IF progMode THEN "out of range" ELSE "not writeable"
               /\ UNCHANGED <<own, client, calm>>
    /\ UNCHANGED <<stored, progMode, connected, traffic>>

(* M_PropRead.req of an octet: the client's address, not the device's.     *)
PropReadAddress ==
    /\ \E octet \in {High(client), Low(client)} :
          answer' = IF octet = 0 THEN "octet 0" ELSE "octet 1"
    /\ UNCHANGED <<addresses, connected, traffic, calm, changes>>

(* M_Reset.req saves everything, in programming mode.  The frame of the    *)
(* answer is built on an octet that has never been written: unless it      *)
(* happens to be the code of a service, the answer has no octet at all.    *)
Reset ==
    /\ Change /\ progMode
    /\ stored' = own
    /\ \E code \in {"reset", "empty"} : answer' = code
    /\ UNCHANGED <<own, client, progMode, connected, traffic, calm>>

(* The power fails; the frames under way are forgotten.                    *)
Restart ==
    /\ Change
    /\ own' = stored /\ client' = HandedOut(Unset) /\ progMode' = FALSE
    /\ tx' = <<>> /\ asked' = Nothing /\ confirmed' = Nothing /\ indicated' = {}
    /\ answer' = "none" /\ duplicate' = FALSE /\ calm' = TRUE
    /\ UNCHANGED <<stored, connected>>

BusConnection ==
    /\ Change
    /\ connected' = ~connected
    /\ UNCHANGED <<addresses, traffic, answer, calm>>

Next == \/ StackSends \/ ClientSends \/ BusResult \/ BusFrame
        \/ OwnAddressWrite \/ Button \/ PropWriteProbe \/ PropWriteAddress
        \/ PropReadAddress \/ Reset \/ Restart \/ BusConnection

Spec == Init /\ [][Next]_vars

-----------------------------------------------------------------------------
(* While both use their own addresses, and keep them as long as frames are *)
(* under way, the local stack gets one confirmation for each of its frames *)
(* (also for a refused one) and none for the client's, and the client does *)
(* not get its own frames as indications.  For dataConReceived(), which    *)
(* withholds a confirmation that "was caused by a tunnel request", and     *)
(* frameReceived().                                                        *)
EachToItsOwner ==
    calm => /\ confirmed = [from \in Sender |->
                   IF from = "stack" THEN asked[from] - Frames(from) ELSE 0]
            /\ "client" \notin indicated
=============================================================================
