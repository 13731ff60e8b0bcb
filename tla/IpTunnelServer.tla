--------------------------- MODULE IpTunnelServer ---------------------------
(***************************************************************************)
(* The KNXnet/IP tunnelling server, src/src/knx/ip_tunnel_server.cpp: how  *)
(* connections are given slots, individual addresses and channels, how     *)
(* they are kept alive and closed, and their sequence counters.            *)
(*                                                                         *)
(* A client is an IP endpoint; datagrams reach the server from anywhere    *)
(* and in any order, so any request may come at any time.  Connections are *)
(* plain UDP (no KNX IP Secure session).  Requests of an unknown type or   *)
(* layer, and malformed ones, are answered or dropped without effect on    *)
(* this state and are not modelled.                                        *)
(***************************************************************************)
EXTENDS Naturals, FiniteSets

CONSTANTS
    Client,         \* IP endpoints
    Mortal,         \* those that may fall silent for good
    NTunnel, NMgmt, \* KNX_TUNNELING, KNX_TUNNELING_DEVMGMT
    MaxChannel,     \* 255 in the source
    SeqMod,         \* 256 in the source
    Configurations, \* the values ETS may give PID_ADDITIONAL_INDIVIDUAL_ADDRESSES
    Reservations    \* and the two PID_CUSTOM_RESERVED_TUNNELS properties

TunnelSlot == 1 .. NTunnel
MgmtSlot   == NTunnel + 1 .. NTunnel + NMgmt
Slot       == TunnelSlot \cup MgmtSlot

Nobody == "nobody"

\* reservation[i]: for whom tunnel i is reserved, and what to do when it is in use
Option      == {"decline", "close", "useUnreserved"}
Reservation == [client: Client \cup {Nobody}, option: Option]

ASSUME TunnelAssumption ==
    /\ Nobody \notin Client /\ Mortal \subseteq Client
    /\ NTunnel \in Nat \ {0} /\ NMgmt \in Nat
    /\ SeqMod \in Nat /\ SeqMod > 1
    /\ MaxChannel \in Nat /\ NTunnel + NMgmt < MaxChannel
    /\ Configurations \subseteq [TunnelSlot -> Nat]
    /\ Reservations \subseteq [TunnelSlot -> Reservation]

VARIABLES
    tunnels,        \* tunnels[i]: the connection in slot i
    lastChannelId,  \* _lastChannelId
    addresses,      \* PID_ADDITIONAL_INDIVIDUAL_ADDRESSES
    reservation,    \* the reserved tunnels
    silent          \* clients that will send nothing any more

vars == <<tunnels, lastChannelId, addresses, reservation, silent>>

\* sent and received: SequenceCounter_S and _R; fresh: the last heartbeat is not
\* older than 120 seconds
Connection == [channel: 0 .. MaxChannel, address: Nat, client: Client \cup {Nobody},
               sent: 0 .. SeqMod - 1, received: 0 .. SeqMod - 1, fresh: BOOLEAN]

Unconnected == [channel |-> 0, address |-> 0, client |-> Nobody,
                sent |-> 0, received |-> SeqMod - 1, fresh |-> FALSE]

Reset(t) == Unconnected

Occupied(ts) == {i \in Slot : ts[i].channel # 0}

\* The slot a search from the lowest index finds, if any
Lowest(slots) == {i \in slots : \A j \in slots : i <= j}

-----------------------------------------------------------------------------
(* HandleConnectRequest *)

ReservedFor(c) == {i \in TunnelSlot : reservation[i].client = c}

\* seeded fault: reserved tunnels are given away
FreeUnreservedAny == {i \in TunnelSlot : tunnels[i].channel = 0}

FreeUnreserved == {i \in ReservedFor(Nobody) : tunnels[i].channel = 0}

FreeReserved(c) == {i \in ReservedFor(c) : tunnels[i].channel = 0}

\* When all the tunnels reserved for c are in use, the first one's option decides:
\* its connection is closed,
Evicted(c) == {i \in Lowest(ReservedFor(c)) :
                  FreeReserved(c) = {} /\ reservation[i].option = "close"}

AfterEviction(c) ==
    [i \in Slot |-> IF i \in Evicted(c) THEN Reset(tunnels[i]) ELSE tunnels[i]]

\* or c gets another tunnel, or none.
MayUseUnreserved(c) ==
    \A i \in Lowest(ReservedFor(c)) : reservation[i].option = "useUnreserved"

\* The slot (none, or a set of one) for a request that asks for no address
Assigned(c) ==
    IF FreeReserved(c) # {} THEN Lowest(FreeReserved(c))
    ELSE IF Evicted(c) # {} THEN Evicted(c)
    ELSE IF MayUseUnreserved(c) THEN Lowest(FreeUnreserved) ELSE {}

\* A request with an extended CRI asks for an address and takes no other.
Requested(ts, a) == Lowest({i \in TunnelSlot : addresses[i] = a /\ ts[i].channel = 0})

FreeMgmt == {i \in MgmtSlot : tunnels[i].channel = 0}

\* seeded fault: the addresses in use are not looked at
AddressInUseNever(ts, a) == FALSE

AddressInUse(ts, a) == \E j \in TunnelSlot : ts[j].address = a

\* Channel identifiers are tried in a cycle from the last one; Nth(n) is the n-th try.
Nth(n) == ((lastChannelId + n) % MaxChannel) + 1

Used(ts) == {ts[i].channel : i \in Slot}

IsNextChannel(ts, n) == Nth(n) \notin Used(ts) /\ \A m \in 0 .. n - 1 : Nth(m) \in Used(ts)

\* The sequence counters stay as the last connection left them.
Connected(t, ch, c, a) == [channel |-> ch, address |-> a, client |-> c,
                           sent |-> t.sent, received |-> t.received, fresh |-> TRUE]

\* The connection takes slot i of ts.
Open(ts, i, c, a) ==
    \E n \in 0 .. MaxChannel - 1 :
        /\ IsNextChannel(ts, n)
        /\ lastChannelId' = Nth(n) % MaxChannel
        /\ tunnels' = [ts EXCEPT ![i] = Connected(ts[i], Nth(n), c, a)]

Decline(ts) == tunnels' = ts /\ UNCHANGED lastChannelId

\* The slot for a request of c for a tunnel; a = 0: no particular address
Chosen(c, a) == IF a = 0 THEN Assigned(c) ELSE Requested(AfterEviction(c), a)

ConnectTunnel(c, a) ==
    /\ c \notin silent
    /\ \/ \E i \in Chosen(c, a) :
              /\ ~AddressInUse(AfterEviction(c), addresses[i])
              /\ Open(AfterEviction(c), i, c, addresses[i])
       \/ /\ \A i \in Chosen(c, a) : AddressInUse(AfterEviction(c), addresses[i])
          /\ Decline(AfterEviction(c))
    /\ UNCHANGED <<addresses, reservation, silent>>

ConnectMgmt(c) ==
    /\ c \notin silent
    /\ \/ \E i \in Lowest(FreeMgmt) : Open(tunnels, i, c, 0)
       \/ FreeMgmt = {} /\ Decline(tunnels)
    /\ UNCHANGED <<addresses, reservation, silent>>

-----------------------------------------------------------------------------
(* Requests on channel ch from c.  The channel names the slot; the slot's client
   must be the sender. *)

Change(i, t) ==
    /\ tunnels' = [tunnels EXCEPT ![i] = t]
    /\ UNCHANGED <<lastChannelId, addresses, reservation, silent>>

IsFrom(i, ch, c) ==
    c \notin silent /\ tunnels[i].channel = ch /\ tunnels[i].client = c

HandleConnectionStateRequest(i, ch, c) ==
    /\ IsFrom(i, ch, c)
    /\ Change(i, [tunnels[i] EXCEPT !.fresh = TRUE])

HandleDisconnectRequest(i, ch, c) ==
    /\ IsFrom(i, ch, c)
    /\ Change(i, Reset(tunnels[i]))

IsExpected(i, seq) == seq = (tunnels[i].received + 1) % SeqMod

\* sendFrameToTunnel to each of the slots
Sent(ts, slots) ==
    [i \in Slot |-> IF i \in slots THEN [ts[i] EXCEPT !.sent = (@ + 1) % SeqMod] ELSE ts[i]]

\* dataConfirmationToTunnel and dataIndicationToTunnel: where a frame that came
\* through tunnel i for address dest (0: a group) is confirmed and indicated.
Confirmed(i, dest) == IF dest = tunnels[i].address THEN {} ELSE {i}

Indicated(source, dest) ==
    {j \in TunnelSlot : tunnels[j].channel # 0 /\ tunnels[j].address # source
                        /\ (dest = 0 \/ tunnels[j].address = dest)}

\* A frame with the expected number is confirmed and indicated, unless it is not a
\* valid L_Data.req; the one received last is acknowledged again, others refused.
HandleTunnelingRequest(i, ch, c, seq, dest) ==
    /\ i \in TunnelSlot /\ IsFrom(i, ch, c) /\ IsExpected(i, seq)
    /\ \E targets \in {{}, Confirmed(i, dest) \cup Indicated(tunnels[i].address, dest)} :
          tunnels' = Sent([tunnels EXCEPT ![i].received = seq], targets)
    /\ UNCHANGED <<lastChannelId, addresses, reservation, silent>>

\* The answer, if there is one, goes to the channel itself.
HandleDeviceConfigurationRequest(i, ch, c, seq) ==
    /\ i \in MgmtSlot /\ IsFrom(i, ch, c) /\ IsExpected(i, seq)
    /\ \E answers \in {{}, {i}} :
          tunnels' = Sent([tunnels EXCEPT ![i].received = seq, ![i].fresh = TRUE], answers)
    /\ UNCHANGED <<lastChannelId, addresses, reservation, silent>>

\* An acknowledgement counts as a heartbeat if it is for the last frame sent.
HandleTunnelAcknowledgement(i, ch, c, seq) ==
    /\ IsFrom(i, ch, c)
    /\ (seq + 1) % SeqMod = tunnels[i].sent
    /\ Change(i, [tunnels[i] EXCEPT !.fresh = TRUE])

\* A frame from the bus
DataIndication(source, dest) ==
    /\ tunnels' = Sent(tunnels, Indicated(source, dest))
    /\ UNCHANGED <<lastChannelId, addresses, reservation, silent>>

Expired == {i \in Occupied(tunnels) : ~tunnels[i].fresh}

\* seeded fault: the last slot is not watched
LoopShort ==
    /\ Expired # {}
    /\ tunnels' = [i \in Slot |->
          IF i \in Expired /\ i + 1 \in Slot THEN Reset(tunnels[i]) ELSE tunnels[i]]
    /\ UNCHANGED <<lastChannelId, addresses, reservation, silent>>

\* loop(): connections without a heartbeat are closed
Loop ==
    /\ Expired # {}
    /\ tunnels' = [i \in Slot |-> IF i \in Expired THEN Reset(tunnels[i]) ELSE tunnels[i]]
    /\ UNCHANGED <<lastChannelId, addresses, reservation, silent>>

-----------------------------------------------------------------------------
\* 120 seconds pass since the last heartbeat of slot i.
Elapse(i) ==
    /\ tunnels[i].channel # 0 /\ tunnels[i].fresh
    /\ Change(i, [tunnels[i] EXCEPT !.fresh = FALSE])

\* ETS writes the addresses or the reservations, connections being open.
Configure ==
    /\ addresses' \in Configurations /\ reservation' \in Reservations
    /\ UNCHANGED <<tunnels, lastChannelId, silent>>

FallSilent(c) ==
    /\ c \in Mortal
    /\ silent' = silent \cup {c}
    /\ UNCHANGED <<tunnels, lastChannelId, addresses, reservation>>

Init ==
    /\ tunnels = [i \in Slot |-> Unconnected]
    /\ lastChannelId = 0
    /\ addresses \in Configurations /\ reservation \in Reservations
    /\ silent = {}

Address == UNION {{a[i] : i \in TunnelSlot} : a \in Configurations}

Receive(c) ==
    \/ \E a \in Address \cup {0} : ConnectTunnel(c, a)
    \/ ConnectMgmt(c)
    \/ \E i \in Slot, ch \in 0 .. MaxChannel :
          \/ HandleConnectionStateRequest(i, ch, c)
          \/ HandleDisconnectRequest(i, ch, c)
          \/ \E seq \in 0 .. SeqMod - 1 :
                \/ HandleDeviceConfigurationRequest(i, ch, c, seq)
                \/ HandleTunnelAcknowledgement(i, ch, c, seq)
                \/ \E dest \in Address \cup {0} : HandleTunnelingRequest(i, ch, c, seq, dest)

Next ==
    \/ \E c \in Client : Receive(c) \/ FallSilent(c)
    \/ \E dest \in Address \cup {0} : DataIndication(0, dest)
    \/ \E i \in Slot : Elapse(i)
    \/ Loop \/ Configure

Spec == Init /\ [][Next]_vars

\* The main loop runs on, and time passes.
FairSpec == Spec /\ WF_vars(Loop) /\ \A i \in Slot : WF_vars(Elapse(i))

-----------------------------------------------------------------------------
TypeOK ==
    /\ tunnels \in [Slot -> Connection]
    /\ lastChannelId \in 0 .. MaxChannel - 1
    /\ addresses \in [TunnelSlot -> Nat]
    /\ reservation \in [TunnelSlot -> Reservation]
    /\ silent \subseteq Client

\* "the channel ID shall be unique on this tunnel server": across tunnels and
\* management connections, and when the identifiers wrap.
ChannelsUnique ==
    \A i, j \in Occupied(tunnels) : i # j => tunnels[i].channel # tunnels[j].channel

\* Two open tunnels never share an individual address, and none has 0.0.0, even
\* when ETS gives one address twice or rewrites addresses that are in use.
AddressesExclusive ==
    \A i \in TunnelSlot \cap Occupied(tunnels) :
        /\ tunnels[i].address # 0
        /\ \A j \in TunnelSlot : tunnels[j].address = tunnels[i].address => i = j

\* A slot that is not in use has nothing left of its last connection, so the next
\* one starts with the sequence counters its client expects.
FreeSlotsClean ==
    \A i \in Slot \ Occupied(tunnels) : tunnels[i] = Unconnected

\* The three together: what every open connection may rely on, and every next one.
ConnectionsDistinct == ChannelsUnique /\ AddressesExclusive /\ FreeSlotsClean

\* A request without an address gives nobody a tunnel that is reserved for another.
ReservationsKept ==
    [][\A c \in Client : ConnectTunnel(c, 0) =>
          \A i \in TunnelSlot :
              tunnels'[i].channel \notin {0, tunnels[i].channel} =>
                  reservation[i].client \in {c, Nobody}]_vars

\* A connection whose client fell silent gives its slot back.
SilentReleased ==
    \A c \in Client :
        c \in silent ~> \A i \in Slot : tunnels[i].client # c

=============================================================================
