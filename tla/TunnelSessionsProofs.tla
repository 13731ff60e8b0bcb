------------------------ MODULE TunnelSessionsProofs ------------------------
(***************************************************************************)
(* For any number of clients, tunnels and management connections: no two   *)
(* connections of the tunnelling server have one channel or one individual *)
(* address, and a slot that is given back is as new.                       *)
(***************************************************************************)
EXTENDS MCTunnelSessions, Integers, Sequences, TLAPS

\* What holds of the slots, and of them while a request is half done
Good(ts) ==
    /\ ts \in [Slot -> Connection]
    /\ \A i, j \in Slot : ts[i].channel # 0 /\ i # j => ts[j].channel # ts[i].channel
    /\ \A i \in TunnelSlot :
          ts[i].channel # 0 =>
             /\ ts[i].address # 0
             /\ \A j \in TunnelSlot : ts[j].address = ts[i].address => i = j
    /\ \A i \in Slot : ts[i].channel = 0 => ts[i] = Unconnected

Inv ==
    /\ Good(tunnels)
    /\ lastChannelId \in 0 .. MaxChannel - 1
    /\ addresses \in [TunnelSlot -> Nat]
    /\ reservation \in [TunnelSlot -> Reservation]
    /\ silent \subseteq Client

-----------------------------------------------------------------------------
\* The kinds of slots, and the counters' range
LEMMA SlotFacts ==
    ASSUME TunnelAssumption
    PROVE  /\ TunnelSlot \subseteq Slot /\ MgmtSlot \subseteq Slot
           /\ Unconnected \in Connection
           /\ SeqMod - 1 \in 0 .. SeqMod - 1 /\ 0 \in 0 .. SeqMod - 1
           /\ \A s \in Nat : (s + 1) % SeqMod \in 0 .. SeqMod - 1
<1>1. SeqMod \in Nat /\ SeqMod > 1 /\ MaxChannel \in Nat
    BY DEF TunnelAssumption
<1>2. \A s \in Nat : (s + 1) % SeqMod \in 0 .. SeqMod - 1
    BY <1>1
<1>3. Unconnected \in Connection
    BY <1>1 DEF Unconnected, Connection
<1> QED
    BY <1>1, <1>2, <1>3 DEF Slot

\* Sequence counters and heartbeats do not matter.
LEMMA Keeping ==
    ASSUME TunnelAssumption,
           NEW ts, Good(ts), NEW us \in [Slot -> Connection],
           \A i \in Slot : /\ us[i].channel = ts[i].channel
                           /\ us[i].address = ts[i].address
                           /\ ts[i].channel = 0 => us[i] = ts[i]
    PROVE  Good(us)
<1> TunnelSlot \subseteq Slot
    BY DEF Slot
<1>1. \A i, j \in Slot : us[i].channel # 0 /\ i # j => us[j].channel # us[i].channel
    BY DEF Good
<1>2. \A i \in TunnelSlot :
          us[i].channel # 0 =>
             /\ us[i].address # 0
             /\ \A j \in TunnelSlot : us[j].address = us[i].address => i = j
    BY DEF Good
<1>3. \A i \in Slot : us[i].channel = 0 => us[i] = Unconnected
    BY DEF Good
<1> QED
    BY <1>1, <1>2, <1>3 DEF Good

\* Any connections may be closed.
LEMMA Closing ==
    ASSUME TunnelAssumption, NEW ts, Good(ts), NEW S
    PROVE  Good([i \in Slot |-> IF i \in S THEN Reset(ts[i]) ELSE ts[i]])
<1> DEFINE us == [i \in Slot |-> IF i \in S THEN Reset(ts[i]) ELSE ts[i]]
<1>1. us \in [Slot -> Connection]
    BY SlotFacts DEF Good, Reset
<1>2. \A i \in Slot : us[i] = Unconnected \/ us[i] = ts[i]
    BY DEF Reset
<1>3. Unconnected.channel = 0 /\ Unconnected.address = 0
    BY DEF Unconnected
<1> TunnelSlot \subseteq Slot
    BY DEF Slot
<1> HIDE DEF us
<1>4. \A i, j \in Slot : us[i].channel # 0 /\ i # j => us[j].channel # us[i].channel
    BY <1>2, <1>3 DEF Good
<1>5. ASSUME NEW i \in TunnelSlot, us[i].channel # 0
      PROVE  /\ us[i].address # 0
             /\ \A j \in TunnelSlot : us[j].address = us[i].address => i = j
    <2>1. us[i] = ts[i] /\ us[i].address # 0
        BY <1>2, <1>3, <1>5 DEF Good
    <2>2. ASSUME NEW j \in TunnelSlot, us[j].address = us[i].address
          PROVE  i = j
        BY <1>2, <1>3, <1>5, <2>1, <2>2 DEF Good
    <2> QED
        BY <2>1, <2>2
<1>6. \A i \in Slot : us[i].channel = 0 => us[i] = Unconnected
    BY <1>2 DEF Good
<1>7. Good(us)
    BY <1>1, <1>4, <1>5, <1>6 DEF Good
<1> QED
    BY <1>7 DEF us

\* A free slot is taken, a tunnel with an address that is not in use.
LEMMA Opening ==
    ASSUME TunnelAssumption, lastChannelId \in 0 .. MaxChannel - 1,
           NEW ts, Good(ts), NEW i \in Slot, ts[i].channel = 0,
           NEW c \in Client, NEW a \in Nat,
           i \in TunnelSlot => ~AddressInUse(ts, a),
           Open(ts, i, c, a)
    PROVE  Good(tunnels') /\ lastChannelId' \in 0 .. MaxChannel - 1
<1> TunnelSlot \subseteq Slot
    BY DEF Slot
<1>1. PICK n \in 0 .. MaxChannel - 1 :
          /\ IsNextChannel(ts, n)
          /\ lastChannelId' = Nth(n) % MaxChannel
          /\ tunnels' = [ts EXCEPT ![i] = Connected(ts[i], Nth(n), c, a)]
    BY DEF Open
<1>2. MaxChannel \in Nat \ {0}
    BY <1>1 DEF TunnelAssumption
<1>3. Nth(n) \in 1 .. MaxChannel /\ Nth(n) \in Nat
    <2>1. lastChannelId + n \in Nat
        BY <1>2
    <2>2. (lastChannelId + n) % MaxChannel \in 0 .. MaxChannel - 1
        BY <1>2, <2>1
    <2> QED
        BY <1>2, <2>2 DEF Nth
<1>4. lastChannelId' \in 0 .. MaxChannel - 1
    BY <1>1, <1>2, <1>3
<1>5. \A j \in Slot : ts[j].channel # Nth(n)
    BY <1>1 DEF IsNextChannel, Used
<1> DEFINE us == tunnels'
           conn == Connected(ts[i], Nth(n), c, a)
<1>6. ts[i] \in Connection /\ ts \in [Slot -> Connection]
    BY DEF Good
<1>7. conn \in Connection
    <2>1. Nth(n) \in 0 .. MaxChannel /\ a \in Nat /\ c \in Client \cup {Nobody}
        BY <1>2, <1>3
    <2>2. ts[i].sent \in 0 .. SeqMod - 1 /\ ts[i].received \in 0 .. SeqMod - 1
        BY <1>6 DEF Connection
    <2> QED
        BY <2>1, <2>2 DEF Connection, Connected
<1>8. conn.channel = Nth(n) /\ conn.address = a
    BY DEF Connected
<1>9. us = [ts EXCEPT ![i] = conn]
    BY <1>1
<1> HIDE DEF us, conn
<1>10. us \in [Slot -> Connection]
    BY <1>6, <1>7, <1>9
<1>11. us[i] = conn /\ \A j \in Slot : j # i => us[j] = ts[j]
    BY <1>6, <1>9
<1>12. \A k, j \in Slot : us[k].channel # 0 /\ k # j => us[j].channel # us[k].channel
    BY <1>3, <1>5, <1>8, <1>11 DEF Good
<1>13. \A k \in Slot : us[k].channel = 0 => us[k] = Unconnected
    BY <1>3, <1>8, <1>11 DEF Good
<1>14. ASSUME NEW k \in TunnelSlot, us[k].channel # 0
       PROVE  /\ us[k].address # 0
              /\ \A j \in TunnelSlot : us[j].address = us[k].address => k = j
    <2>1. CASE k = i
        <3>1. \A j \in TunnelSlot : ts[j].address # a
            BY <2>1 DEF AddressInUse
        <3>2. a # 0
            BY <2>1, <3>1 DEF Good, Unconnected
        <3> QED
            BY <1>8, <1>11, <2>1, <3>1, <3>2
    <2>2. CASE k # i /\ i \in TunnelSlot
        <3>1. \A j \in TunnelSlot : ts[j].address # a
            BY <2>2 DEF AddressInUse
        <3>2. us[k] = ts[k]
            BY <1>11, <2>2
        <3>3. ts[k].address # 0 /\ \A j \in TunnelSlot : ts[j].address = ts[k].address => k = j
            BY <1>14, <3>2 DEF Good
        <3> QED
            BY <1>8, <1>11, <2>2, <3>1, <3>2, <3>3
    <2>3. CASE i \notin TunnelSlot
        <3>1. \A j \in TunnelSlot : us[j] = ts[j]
            BY <1>11, <2>3
        <3> QED
            BY <1>14, <3>1 DEF Good
    <2> QED
        BY <2>1, <2>2, <2>3
<1>15. Good(us)
    BY <1>10, <1>12, <1>13, <1>14 DEF Good
<1> QED
    BY <1>4, <1>15 DEF us
-----------------------------------------------------------------------------
\* A sender that is a client of an open connection
LEMMA Sender ==
    ASSUME TunnelAssumption, Inv, NEW i \in Slot, NEW ch, NEW c \in Client, IsFrom(i, ch, c)
    PROVE  tunnels[i].channel # 0
<1>1. Unconnected.client = Nobody
    BY DEF Unconnected
<1> QED
    BY <1>1 DEF Inv, Good, IsFrom, TunnelAssumption

\* sendFrameToTunnel changes counters only.
LEMMA Sending ==
    ASSUME TunnelAssumption, NEW ts, Good(ts), NEW slots,
           \A i \in Slot : i \in slots => ts[i].channel # 0
    PROVE  Good(Sent(ts, slots))
<1> DEFINE us == Sent(ts, slots)
<1>1. ASSUME NEW i \in Slot
      PROVE  /\ us[i] \in Connection
             /\ us[i].channel = ts[i].channel
             /\ us[i].address = ts[i].address
             /\ ts[i].channel = 0 => us[i] = ts[i]
    <2> ts[i] \in Connection
        BY DEF Good
    <2>1. CASE i \notin slots
        BY <2>1 DEF Sent
    <2>2. CASE i \in slots
        <3>1. us[i] = [ts[i] EXCEPT !.sent = (@ + 1) % SeqMod]
            BY <2>2 DEF Sent
        <3>2. (ts[i].sent + 1) % SeqMod \in 0 .. SeqMod - 1
            BY SlotFacts DEF Connection, TunnelAssumption
        <3> QED
            BY <2>2, <3>1, <3>2 DEF Connection
    <2> QED
        BY <2>1, <2>2
<1>2. us \in [Slot -> Connection]
    BY <1>1 DEF Sent
<1> HIDE DEF us
<1>3. Good(us)
    BY <1>1, <1>2, Keeping
<1> QED
    BY <1>3 DEF us

\* A change of one open connection that keeps its channel and address
LEMMA Receiving ==
    ASSUME TunnelAssumption, Inv, NEW i \in Slot, tunnels[i].channel # 0,
           NEW t \in Connection, t.channel = tunnels[i].channel, t.address = tunnels[i].address
    PROVE  Good([tunnels EXCEPT ![i] = t])
<1> DEFINE us == [tunnels EXCEPT ![i] = t]
<1>1. tunnels \in [Slot -> Connection] /\ Good(tunnels)
    BY DEF Inv, Good
<1>2. us \in [Slot -> Connection] /\ us[i] = t /\ \A j \in Slot : j # i => us[j] = tunnels[j]
    BY <1>1
<1> HIDE DEF us
<1>3. Good(us)
    BY <1>1, <1>2, Keeping
<1> QED
    BY <1>3 DEF us

-----------------------------------------------------------------------------
\* Every request, timeout and configuration keeps Inv.
LEMMA Inductive ==
    ASSUME TunnelAssumption, Inv, [Next]_vars
    PROVE  Inv'
<1>0. Good(tunnels) /\ tunnels \in [Slot -> Connection]
    BY DEF Inv, Good
<1> USE DEF Inv
<1>1. ASSUME NEW c \in Client, NEW a \in Address \cup {0}, ConnectTunnel(c, a)
      PROVE  Inv'
    <2> DEFINE ts == AfterEviction(c)
    <2>1. Good(ts)
        BY <1>0, Closing DEF AfterEviction
    <2>2. ts \in [Slot -> Connection]
        BY <2>1 DEF Good
    <2> HIDE DEF ts
    <2>3. ASSUME NEW i \in Chosen(c, a)
          PROVE  i \in TunnelSlot /\ i \in Slot /\ ts[i].channel = 0
        <3>1. i \in TunnelSlot
            BY DEF Chosen, Assigned, Requested, Lowest, FreeReserved, ReservedFor, Evicted,
                   FreeUnreserved
        <3>2. i \in Slot
            BY <3>1, SlotFacts
        <3>3. ts[i] = IF i \in Evicted(c) THEN Unconnected ELSE tunnels[i]
            BY <3>2 DEF ts, AfterEviction, Reset
        <3>4. CASE i \in Evicted(c)
            BY <3>1, <3>2, <3>3, <3>4 DEF Unconnected
        <3>5. CASE i \notin Evicted(c) /\ a = 0
            <4>1. tunnels[i].channel = 0
                BY <3>5 DEF Chosen, Assigned, Lowest, FreeReserved, FreeUnreserved
            <4> QED
                BY <3>1, <3>2, <3>3, <3>5, <4>1
        <3>6. CASE a # 0
            BY <3>1, <3>2, <3>6 DEF Chosen, Requested, Lowest, ts
        <3> QED
            BY <3>4, <3>5, <3>6
    <2>4. UNCHANGED <<addresses, reservation, silent>>
        BY <1>1 DEF ConnectTunnel
    <2>5. CASE \E i \in Chosen(c, a) : ~AddressInUse(ts, addresses[i]) /\ Open(ts, i, c, addresses[i])
        <3>1. PICK i \in Chosen(c, a) : ~AddressInUse(ts, addresses[i]) /\ Open(ts, i, c, addresses[i])
            BY <2>5
        <3>2. addresses[i] \in Nat
            BY <2>3
        <3>3. Good(tunnels') /\ lastChannelId' \in 0 .. MaxChannel - 1
            BY <2>1, <2>3, <3>1, <3>2, Opening
        <3> QED
            BY <2>4, <3>3
    <2>6. CASE Decline(ts)
        BY <2>1, <2>4, <2>6 DEF Decline
    <2> QED
        BY <1>1, <2>5, <2>6 DEF ConnectTunnel, ts
<1>2. ASSUME NEW c \in Client, ConnectMgmt(c)
      PROVE  Inv'
    <2>1. UNCHANGED <<addresses, reservation, silent>>
        BY <1>2 DEF ConnectMgmt
    <2>2. CASE \E i \in Lowest(FreeMgmt) : Open(tunnels, i, c, 0)
        <3>1. PICK i \in Lowest(FreeMgmt) : Open(tunnels, i, c, 0)
            BY <2>2
        <3>2. i \in MgmtSlot /\ i \in Slot /\ tunnels[i].channel = 0
            BY SlotFacts DEF Lowest, FreeMgmt
        <3>3. i \notin TunnelSlot
            BY <3>2 DEF TunnelSlot, MgmtSlot, TunnelAssumption
        <3>4. 0 \in Nat
            OBVIOUS
        <3>5. Good(tunnels') /\ lastChannelId' \in 0 .. MaxChannel - 1
            BY <1>0, <3>1, <3>2, <3>3, <3>4, Opening
        <3> QED
            BY <2>1, <3>5
    <2>3. CASE Decline(tunnels)
        BY <1>0, <2>1, <2>3 DEF Decline
    <2> QED
        BY <1>2, <2>2, <2>3 DEF ConnectMgmt
<1>3. ASSUME NEW i \in Slot, NEW ch \in 0 .. MaxChannel, NEW c \in Client,
             \/ HandleConnectionStateRequest(i, ch, c)
             \/ HandleDisconnectRequest(i, ch, c)
             \/ \E seq \in 0 .. SeqMod - 1 : HandleTunnelAcknowledgement(i, ch, c, seq)
      PROVE  Inv'
    <2>1. UNCHANGED <<lastChannelId, addresses, reservation, silent>>
        BY <1>3 DEF HandleConnectionStateRequest, HandleDisconnectRequest,
                    HandleTunnelAcknowledgement, Change
    <2>2. CASE HandleDisconnectRequest(i, ch, c)
        <3>1. tunnels' = [j \in Slot |-> IF j \in {i} THEN Reset(tunnels[j]) ELSE tunnels[j]]
            BY <1>0, <2>2 DEF HandleDisconnectRequest, Change
        <3>2. Good(tunnels')
            BY <1>0, <3>1, Closing
        <3> QED
            BY <2>1, <3>2
    <2>3. CASE ~HandleDisconnectRequest(i, ch, c)
        <3>1. /\ IsFrom(i, ch, c)
              /\ tunnels' = [tunnels EXCEPT ![i] = [tunnels[i] EXCEPT !.fresh = TRUE]]
            BY <1>3, <2>3 DEF HandleConnectionStateRequest, HandleTunnelAcknowledgement, Change
        <3>2. tunnels[i].channel # 0
            BY <3>1, Sender
        <3> DEFINE t == [tunnels[i] EXCEPT !.fresh = TRUE]
        <3>3. tunnels[i] \in Connection
            BY <1>0
        <3>4. t \in Connection /\ t.channel = tunnels[i].channel /\ t.address = tunnels[i].address
            BY <3>3 DEF Connection
        <3> HIDE DEF t
        <3>5. Good([tunnels EXCEPT ![i] = t])
            BY <3>2, <3>4, Receiving
        <3> QED
            BY <2>1, <3>1, <3>5 DEF t
    <2> QED
        BY <2>2, <2>3
<1>4. ASSUME NEW i \in Slot, NEW ch \in 0 .. MaxChannel, NEW c \in Client,
             NEW seq \in 0 .. SeqMod - 1, HandleDeviceConfigurationRequest(i, ch, c, seq)
      PROVE  Inv'
    <2> DEFINE t  == [tunnels[i] EXCEPT !.received = seq, !.fresh = TRUE]
               ts == [tunnels EXCEPT ![i] = t]
    <2>1. UNCHANGED <<lastChannelId, addresses, reservation, silent>>
        BY <1>4 DEF HandleDeviceConfigurationRequest
    <2>2. tunnels[i].channel # 0 /\ tunnels[i] \in Connection
        BY <1>0, <1>4, Sender DEF HandleDeviceConfigurationRequest
    <2>3. t \in Connection /\ t.channel = tunnels[i].channel /\ t.address = tunnels[i].address
        BY <2>2 DEF Connection
    <2>4. PICK answers \in {{}, {i}} : tunnels' = Sent(ts, answers)
        <3>1. [tunnels EXCEPT ![i].received = seq, ![i].fresh = TRUE] = ts
            BY <1>0, <2>2 DEF Connection
        <3> QED
            BY <1>4, <3>1 DEF HandleDeviceConfigurationRequest
    <2> HIDE DEF t
    <2>5. Good(ts) /\ ts[i].channel # 0
        BY <1>0, <2>2, <2>3, Receiving
    <2> HIDE DEF ts
    <2>6. Good(tunnels')
        BY <2>4, <2>5, Sending
    <2> QED
        BY <2>1, <2>6
<1>5. ASSUME NEW i \in Slot, NEW ch \in 0 .. MaxChannel, NEW c \in Client,
             NEW seq \in 0 .. SeqMod - 1, NEW dest \in Address \cup {0},
             HandleTunnelingRequest(i, ch, c, seq, dest)
      PROVE  Inv'
    <2> DEFINE t  == [tunnels[i] EXCEPT !.received = seq]
               ts == [tunnels EXCEPT ![i] = t]
    <2>1. UNCHANGED <<lastChannelId, addresses, reservation, silent>>
        BY <1>5 DEF HandleTunnelingRequest
    <2>2. tunnels[i].channel # 0 /\ tunnels[i] \in Connection
        BY <1>0, <1>5, Sender DEF HandleTunnelingRequest
    <2>3. t \in Connection /\ t.channel = tunnels[i].channel /\ t.address = tunnels[i].address
        BY <2>2 DEF Connection
    <2>4. PICK targets \in {{}, Confirmed(i, dest) \cup Indicated(tunnels[i].address, dest)} :
             tunnels' = Sent(ts, targets)
        BY <1>5 DEF HandleTunnelingRequest
    <2>5. \A j \in Slot : j \in targets => tunnels[j].channel # 0
        BY <2>2, <2>4 DEF Confirmed, Indicated
    <2> HIDE DEF t
    <2>6. Good(ts) /\ \A j \in Slot : ts[j].channel = tunnels[j].channel
        BY <1>0, <2>2, <2>3, Receiving
    <2> HIDE DEF ts
    <2>7. Good(tunnels')
        BY <2>4, <2>5, <2>6, Sending
    <2> QED
        BY <2>1, <2>7
<1>6. ASSUME NEW dest \in Address \cup {0}, DataIndication(0, dest)
      PROVE  Inv'
    <2>1. \A j \in Slot : j \in Indicated(0, dest) => tunnels[j].channel # 0
        BY DEF Indicated
    <2>2. Good(tunnels')
        BY <1>0, <1>6, <2>1, Sending DEF DataIndication
    <2> QED
        BY <1>6, <2>2 DEF DataIndication
<1>7. ASSUME NEW i \in Slot, Elapse(i)
      PROVE  Inv'
    <2> DEFINE t == [tunnels[i] EXCEPT !.fresh = FALSE]
    <2>1. t \in Connection /\ t.channel = tunnels[i].channel /\ t.address = tunnels[i].address
        BY <1>0, ZenonT(60) DEF Connection
    <2>2. tunnels[i].channel # 0 /\ tunnels' = [tunnels EXCEPT ![i] = t]
        BY <1>7 DEF Elapse, Change
    <2> HIDE DEF t
    <2>3. Good(tunnels')
        BY <2>1, <2>2, Receiving
    <2> QED
        BY <1>7, <2>3 DEF Elapse, Change
<1>8. CASE Loop
    <2>1. Good(tunnels')
        BY <1>0, <1>8, Closing DEF Loop
    <2> QED
        BY <1>8, <2>1 DEF Loop
<1>9. CASE Configure
    BY <1>0, <1>9 DEF Configure, TunnelAssumption
<1>10. ASSUME NEW c \in Client, FallSilent(c)
       PROVE  Inv'
    BY <1>0, <1>10 DEF FallSilent
<1>11. CASE UNCHANGED vars
    BY <1>0, <1>11 DEF vars
<1>12. ASSUME NEW c \in Client, Receive(c)
       PROVE  Inv'
    BY <1>1, <1>2, <1>3, <1>4, <1>5, <1>12 DEF Receive
<1> QED
    BY <1>6, <1>7, <1>8, <1>9, <1>10, <1>11, <1>12 DEF Next

\* The server starts with every slot free.
LEMMA Initially ==
    ASSUME TunnelAssumption, Init
    PROVE  Inv
<1>1. Unconnected.channel = 0
    BY DEF Unconnected
<1>2. Good(tunnels)
    <2>1. \A i \in Slot : tunnels[i] = Unconnected
        BY DEF Init
    <2>2. tunnels \in [Slot -> Connection]
        BY SlotFacts DEF Init
    <2> QED
        BY <1>1, <2>1, <2>2, SlotFacts DEF Good
<1>3. 0 \in 0 .. MaxChannel - 1
    BY DEF TunnelAssumption
<1> QED
    BY <1>2, <1>3 DEF Inv, Init, TunnelAssumption

\* In every reachable state of the tunnelling server the slots are Good: see Good.
THEOREM InvAlways == Spec => []Inv
<1>1. Init => Inv
    BY Initially, TunnelAssumption
<1>2. Inv /\ [Next]_vars => Inv'
    BY Inductive, TunnelAssumption
<1> QED
    BY <1>1, <1>2, PTL DEF Spec

\* The slots, identifiers and properties keep to their types.
THEOREM TypeCorrect == Spec => []TypeOK
<1>1. Inv => TypeOK
    BY DEF Inv, Good, TypeOK
<1> QED
    BY <1>1, InvAlways, PTL

\* HandleConnectRequest never gives out the channel of an open connection, however
\* often the identifiers have wrapped.
THEOREM ChannelsAlwaysUnique == Spec => []ChannelsUnique
<1>1. Inv => ChannelsUnique
    BY DEF Inv, Good, ChannelsUnique, Occupied
<1> QED
    BY <1>1, InvAlways, PTL

\* Nor the individual address of an open tunnel, whatever ETS writes.
THEOREM AddressesAlwaysExclusive == Spec => []AddressesExclusive
<1>1. Inv => AddressesExclusive
    BY DEF Inv, Good, AddressesExclusive, Occupied
<1> QED
    BY <1>1, InvAlways, PTL

\* However a connection ended, its slot is as new.
THEOREM FreeSlotsAlwaysClean == Spec => []FreeSlotsClean
<1>1. Inv => FreeSlotsClean
    BY DEF Inv, Good, FreeSlotsClean, Occupied
<1> QED
    BY <1>1, InvAlways, PTL

\* Open connections share neither channel nor individual address, and the slot of one
\* that was closed holds nothing of it.
THEOREM ConnectionsAlwaysDistinct == Spec => []ConnectionsDistinct
BY ChannelsAlwaysUnique, AddressesAlwaysExclusive, FreeSlotsAlwaysClean, PTL DEF ConnectionsDistinct

-----------------------------------------------------------------------------
\* The slot chosen for a request without an address is reserved for nobody else.
LEMMA AssignedSlots ==
    ASSUME NEW c, NEW i \in Assigned(c)
    PROVE  i \in TunnelSlot /\ reservation[i].client \in {c, Nobody}
<1>1. CASE FreeReserved(c) # {}
    BY <1>1 DEF Assigned, Lowest, FreeReserved, ReservedFor
<1>2. CASE FreeReserved(c) = {} /\ Evicted(c) # {}
    BY <1>2 DEF Assigned, Evicted, Lowest, ReservedFor
<1>3. CASE FreeReserved(c) = {} /\ Evicted(c) = {}
    BY <1>3 DEF Assigned, Lowest, FreeUnreserved, ReservedFor
<1> QED
    BY <1>1, <1>2, <1>3

\* HandleConnectRequest without an address opens no tunnel that is reserved for
\* somebody else, whatever the options and however many tunnels are in use.
THEOREM ReservationsAlwaysKept == Spec => ReservationsKept
<1>1. ASSUME NEW c \in Client, ConnectTunnel(c, 0), NEW i \in TunnelSlot,
             tunnels'[i].channel \notin {0, tunnels[i].channel}
      PROVE  reservation[i].client \in {c, Nobody}
    <2> DEFINE ts == AfterEviction(c)
    <2>1. i \in Slot
        BY DEF Slot
    <2>2. ts[i].channel \in {0, tunnels[i].channel}
        BY <2>1 DEF AfterEviction, Reset, Unconnected
    <2>3. \/ tunnels' = ts
          \/ \E j \in Assigned(c) : \E t : tunnels' = [ts EXCEPT ![j] = t]
        BY <1>1 DEF ConnectTunnel, Chosen, Open, Decline
    <2>4. PICK j \in Assigned(c) : \E t : tunnels' = [ts EXCEPT ![j] = t]
        BY <1>1, <2>2, <2>3
    <2>5. i = j
        BY <1>1, <2>2, <2>4
    <2> QED
        BY <2>5, AssignedSlots
<1>2. [Next]_vars =>
          [\A c \in Client : ConnectTunnel(c, 0) =>
              \A i \in TunnelSlot :
                  tunnels'[i].channel \notin {0, tunnels[i].channel} =>
                      reservation[i].client \in {c, Nobody}]_vars
    BY <1>1
<1> QED
    BY <1>2, PTL DEF Spec, ReservationsKept

-----------------------------------------------------------------------------
(* Secure sessions *)

Same(r) == [id |-> r.id, key |-> r.key, user |-> r.user, endpoint |-> r.endpoint, tcp |-> r.tcp,
            instance |-> r.instance, device |-> r.device, password |-> r.password,
            received |-> r.received, age |-> r.age]

\* Sessions and connections are records; there is a handshake for each key.
SessionShapes ==
    /\ sessions = [s \in Secure!Slot |-> sessions[s]]
    /\ \A s \in Secure!Slot : sessions[s] = Same(sessions[s])
    /\ streams = [h \in Handle |-> streams[h]]
    /\ \A h \in Handle : streams[h] = [instance |-> streams[h].instance, age |-> streams[h].age]
    /\ sessionTunnels = [t \in Secure!Tunnel |-> sessionTunnels[t]]
    /\ instances \in Nat
    /\ heard \in Seq(Nat) /\ (\E S : clients \in Seq(S)) /\ Len(clients) = Len(heard)

\* Each session has a key of its own, under which nothing was heard beyond the last frame
\* it received,
KeysInv ==
    /\ \A s \in Secure!InUse :
          /\ sessions[s].key \in 1 .. Len(heard)
          /\ sessions[s].received \in Nat /\ heard[sessions[s].key] <= sessions[s].received
    /\ \A r, s \in Secure!InUse : sessions[r].key = sessions[s].key => r = s

\* and, over TCP, a connection of its own.
StreamsInv ==
    /\ \A s \in Secure!InUse :
          sessions[s].tcp # Secure!NoHandle =>
             /\ sessions[s].tcp \in Handle /\ sessions[s].instance # 0
             /\ streams[sessions[s].tcp].instance = sessions[s].instance
    /\ \A r, s \in Secure!InUse :
          sessions[r].tcp = sessions[s].tcp /\ sessions[r].tcp # Secure!NoHandle => r = s

SessionsInv ==
    SessionShapes /\ KeysInv /\ StreamsInv /\ Secure!TunnelsInTheirSession /\ refused = FALSE

\* Sessions end: their tunnels are closed, and no connection of another one.
LEMMA SessionsEnd ==
    ASSUME SessionsInv, NEW R \in SUBSET Secure!Slot,
           sessions' = [s \in Secure!Slot |-> IF s \in R THEN Secure!NoSession ELSE sessions[s]],
           sessionTunnels' = Secure!TunnelsWithout(R),
           streams' = [h \in Handle |-> streams'[h]],
           \A h \in Handle : streams'[h] \in {streams[h], Secure!NoStream},
           \A s \in Secure!InUse \ R : sessions[s].tcp # Secure!NoHandle =>
              streams'[sessions[s].tcp] = streams[sessions[s].tcp],
           instances' = instances, heard' = heard, refused' = refused,
           (\E S : clients' \in Seq(S)) /\ Len(clients') = Len(clients)
    PROVE  SessionsInv'
<1>1. Secure!InUse' = Secure!InUse \ R
      /\ \A s \in Secure!InUse' : s \in Secure!Slot /\ sessions'[s] = sessions[s]
    BY DEF Secure!InUse, Secure!NoSession
<1>2. SessionShapes'
    <2>1. Secure!NoSession = Same(Secure!NoSession)
        BY DEF Secure!NoSession, Same
    <2>2. \A s \in Secure!Slot : sessions'[s] = Same(sessions'[s])
        <3>1. \A s \in Secure!Slot : sessions'[s] \in {sessions[s], Secure!NoSession}
            OBVIOUS
        <3> QED
            BY <2>1, <3>1 DEF SessionsInv, SessionShapes
    <2>3. \A h \in Handle : streams'[h] = [instance |-> streams'[h].instance, age |-> streams'[h].age]
        <3>1. Secure!NoStream = [instance |-> Secure!NoStream.instance, age |-> Secure!NoStream.age]
            BY DEF Secure!NoStream
        <3> QED
            BY <3>1 DEF SessionsInv, SessionShapes
    <2>4. sessionTunnels' = [t \in Secure!Tunnel |-> sessionTunnels'[t]]
        BY DEF Secure!TunnelsWithout
    <2>5. sessions' = [s \in Secure!Slot |-> sessions'[s]]
        OBVIOUS
    <2> QED
        BY <2>2, <2>3, <2>4, <2>5 DEF SessionsInv, SessionShapes
<1>3. KeysInv'
    BY <1>1 DEF SessionsInv, KeysInv
<1>4. StreamsInv'
    BY <1>1 DEF SessionsInv, StreamsInv
<1>5. Secure!TunnelsInTheirSession'
    <2> SUFFICES ASSUME NEW t \in Secure!Tunnel, sessionTunnels'[t] # Secure!NoTunnel
                 PROVE  \E s \in Secure!InUse' : /\ sessions'[s].id = sessionTunnels'[t].id
                                                /\ sessions'[s].key = sessionTunnels'[t].key
                                                /\ sessions'[s].user # 0
        BY DEF Secure!TunnelsInTheirSession
    <2>1. /\ sessionTunnels'[t] = sessionTunnels[t]
          /\ ~\E s \in R : sessions[s].id = sessionTunnels[t].id
        BY DEF Secure!TunnelsWithout
    <2>2. PICK s \in Secure!InUse : /\ sessions[s].id = sessionTunnels[t].id
                                    /\ sessions[s].key = sessionTunnels[t].key
                                    /\ sessions[s].user # 0
        BY <2>1 DEF SessionsInv, Secure!TunnelsInTheirSession
    <2> QED
        BY <1>1, <2>1, <2>2
<1> QED
    BY <1>2, <1>3, <1>4, <1>5 DEF SessionsInv

\* A session goes on: it keeps its number, key and connection.
LEMMA SessionsGoOn ==
    ASSUME SessionsInv,
           sessions' = [s \in Secure!Slot |-> sessions'[s]],
           \A s \in Secure!Slot :
              /\ sessions'[s] = Same(sessions'[s])
              /\ sessions'[s].id = sessions[s].id /\ sessions'[s].key = sessions[s].key
              /\ sessions'[s].tcp = sessions[s].tcp /\ sessions'[s].instance = sessions[s].instance
              /\ sessions[s].user # 0 => sessions'[s].user # 0,
           streams' = [h \in Handle |-> streams'[h]],
           \A h \in Handle :
              /\ streams'[h] = [instance |-> streams'[h].instance, age |-> streams'[h].age]
              /\ streams'[h].instance = streams[h].instance \/ streams[h].instance = 0,
           instances' \in Nat, heard' \in Seq(Nat), (\E S : clients' \in Seq(S)),
           Len(clients') = Len(heard'), Len(heard') = Len(heard),
           \A s \in Secure!InUse : sessions'[s].received \in Nat /\ heard'[sessions[s].key] <= sessions'[s].received,
           sessionTunnels' = [t \in Secure!Tunnel |-> sessionTunnels'[t]],
           \A t \in Secure!Tunnel : \/ sessionTunnels'[t] = sessionTunnels[t]
                             \/ \E s \in Secure!InUse : /\ sessions[s].id = sessionTunnels'[t].id
                                                       /\ sessions[s].key = sessionTunnels'[t].key
                                                       /\ sessions[s].user # 0,
           refused' = refused
    PROVE  SessionsInv'
<1>1. Secure!InUse' = Secure!InUse /\ Secure!InUse \subseteq Secure!Slot
    BY DEF Secure!InUse
<1>2. SessionShapes'
    BY DEF SessionShapes
<1>3. KeysInv'
    BY <1>1 DEF SessionsInv, KeysInv
<1>4. StreamsInv'
    BY <1>1, SMTT(60) DEF SessionsInv, StreamsInv
<1>5. Secure!TunnelsInTheirSession'
    BY <1>1, SMTT(60) DEF SessionsInv, Secure!TunnelsInTheirSession
<1> QED
    BY <1>2, <1>3, <1>4, <1>5 DEF SessionsInv

LEMMA SessionClosed ==
    ASSUME SessionsInv, NEW s \in Secure!InUse, Secure!Close({s}),
           UNCHANGED <<instances, heard, refused>>,
           (\E S : clients' \in Seq(S)) /\ Len(clients') = Len(clients)
    PROVE  SessionsInv'
<1>1. /\ streams' = [h \in Handle |-> IF sessions[s].tcp = h THEN Secure!NoStream ELSE streams[h]]
      /\ sessions' = [r \in Secure!Slot |-> IF r \in {s} THEN Secure!NoSession ELSE sessions[r]]
      /\ sessionTunnels' = Secure!TunnelsWithout({s})
    BY DEF Secure!Close, Secure!StreamsWithout
<1>2. /\ streams' = [h \in Handle |-> streams'[h]]
      /\ \A h \in Handle : streams'[h] \in {streams[h], Secure!NoStream}
    BY <1>1
<1>3. \A r \in Secure!InUse \ {s} : sessions[r].tcp # Secure!NoHandle =>
          streams'[sessions[r].tcp] = streams[sessions[r].tcp]
    BY <1>1 DEF SessionsInv, StreamsInv
<1>4. {s} \in SUBSET Secure!Slot
    BY DEF Secure!InUse
<1> QED
    BY <1>1, <1>2, <1>3, <1>4, SessionsEnd

LEMMA StreamClosed ==
    ASSUME SessionsInv, NEW h \in Handle, Secure!CloseStream(h),
           UNCHANGED <<instances, heard, refused, clients>>
    PROVE  SessionsInv'
<1> DEFINE R == Secure!SessionsOf(h)
<1>1. /\ streams' = [streams EXCEPT ![h] = Secure!NoStream]
      /\ sessions' = [r \in Secure!Slot |-> IF r \in R THEN Secure!NoSession ELSE sessions[r]]
      /\ sessionTunnels' = Secure!TunnelsWithout(R)
    BY DEF Secure!CloseStream
<1>2. streams = [g \in Handle |-> streams[g]] /\ (\E S : clients \in Seq(S))
    BY DEF SessionsInv, SessionShapes
<1>3. /\ streams' = [g \in Handle |-> streams'[g]]
      /\ \A g \in Handle : streams'[g] \in {streams[g], Secure!NoStream}
      /\ \A g \in Handle : g # h => streams'[g] = streams[g]
    BY <1>1, <1>2
<1>4. \A r \in Secure!InUse \ R : sessions[r].tcp # Secure!NoHandle =>
          streams'[sessions[r].tcp] = streams[sessions[r].tcp]
    BY <1>3 DEF SessionsInv, StreamsInv, Secure!SessionsOf
<1>5. R \in SUBSET Secure!Slot
    BY DEF Secure!InUse, Secure!SessionsOf
<1> HIDE DEF R
<1> QED
    BY <1>1, <1>2, <1>3, <1>4, <1>5, SessionsEnd

LEMMA AcceptStep ==
    ASSUME SessionsInv, NEW h \in Handle, Secure!Accept(h)
    PROVE  SessionsInv'
<1>1. /\ streams[h].instance = 0 /\ instances' = instances + 1
      /\ streams' = [streams EXCEPT ![h] = [instance |-> instances + 1, age |-> 0]]
      /\ UNCHANGED <<sessions, sessionTunnels, clients, heard, refused>>
    BY DEF Secure!Accept
<1>2. /\ SessionShapes /\ streams = [g \in Handle |-> streams[g]]
      /\ KeysInv
    BY DEF SessionsInv, SessionShapes
<1>3. /\ streams' = [g \in Handle |-> streams'[g]]
      /\ \A g \in Handle :
            /\ streams'[g] = [instance |-> streams'[g].instance, age |-> streams'[g].age]
            /\ streams'[g].instance = streams[g].instance \/ streams[g].instance = 0
    BY <1>1, <1>2 DEF SessionShapes
<1>4. instances' \in Nat
    BY <1>1, <1>2 DEF SessionShapes
<1>5. /\ sessions' = [s \in Secure!Slot |-> sessions'[s]]
      /\ \A s \in Secure!Slot : sessions'[s] = Same(sessions'[s])
      /\ sessionTunnels' = [t \in Secure!Tunnel |-> sessionTunnels'[t]]
      /\ heard' \in Seq(Nat) /\ (\E S : clients' \in Seq(S)) /\ Len(clients') = Len(heard')
    BY <1>1, <1>2 DEF SessionShapes
<1>6. \A s \in Secure!InUse : sessions'[s].received \in Nat
                              /\ heard'[sessions[s].key] <= sessions'[s].received
    BY <1>1, <1>2 DEF KeysInv
<1> QED
    BY <1>1, <1>3, <1>4, <1>5, <1>6, SessionsGoOn

\* A frame is noted with its handshake.
LEMMA ClientsKept ==
    ASSUME SessionsInv, NEW k \in DOMAIN clients, NEW i, NEW inner, Secure!Arrives(k, i, inner)
    PROVE  (\E S : clients' \in Seq(S)) /\ Len(clients') = Len(clients) /\ k \in 1 .. Len(heard)
<1>1. PICK S : clients \in Seq(S)
    BY DEF SessionsInv, SessionShapes
<1>2. PICK c : clients' = [clients EXCEPT ![k] = c]
    BY DEF Secure!Arrives
<1>3. clients' \in Seq(S \cup {c}) /\ Len(clients') = Len(clients)
    BY <1>1, <1>2
<1>4. k \in 1 .. Len(heard)
    BY <1>1 DEF SessionsInv, SessionShapes
<1> QED
    BY <1>3, <1>4

\* A new session
Opened(id, key, endpoint, tcp, instance, device) ==
    [Secure!NoSession EXCEPT !.id = id, !.key = key, !.endpoint = endpoint, !.tcp = tcp,
                             !.instance = instance, !.device = device]

LEMMA OpenedTerms ==
    ASSUME NEW id, NEW key, NEW endpoint, NEW tcp, NEW instance, NEW device
    PROVE  LET q == Opened(id, key, endpoint, tcp, instance, device) IN
           q = Same(q) /\ q.key = key /\ q.tcp = tcp /\ q.instance = instance /\ q.received = 0
<1> DEFINE q1 == [Secure!NoSession EXCEPT !.id = id]
           q2 == [q1 EXCEPT !.key = key]
           q3 == [q2 EXCEPT !.endpoint = endpoint]
           q4 == [q3 EXCEPT !.tcp = tcp]
           q5 == [q4 EXCEPT !.instance = instance]
           q6 == [q5 EXCEPT !.device = device]
<1>1. Opened(id, key, endpoint, tcp, instance, device) = q6
    BY DEF Opened
<1>2. q1 = Same(q1) /\ q1.received = 0
    BY DEF Same, Secure!NoSession
<1> HIDE DEF q1
<1>3. q2 = Same(q2) /\ q2.received = 0 /\ q2.key = key
    BY <1>2 DEF Same
<1> HIDE DEF q2
<1>4. q3 = Same(q3) /\ q3.received = 0 /\ q3.key = key
    BY <1>3 DEF Same
<1> HIDE DEF q3
<1>5. q4 = Same(q4) /\ q4.received = 0 /\ q4.key = key /\ q4.tcp = tcp
    BY <1>4 DEF Same
<1> HIDE DEF q4
<1>6. q5 = Same(q5) /\ q5.received = 0 /\ q5.key = key /\ q5.tcp = tcp /\ q5.instance = instance
    BY <1>5 DEF Same
<1> HIDE DEF q5
<1>7. q6 = Same(q6) /\ q6.received = 0 /\ q6.key = key /\ q6.tcp = tcp /\ q6.instance = instance
    BY <1>6 DEF Same
<1> HIDE DEF q6
<1> QED
    BY <1>1, <1>7

LEMMA RequestStep ==
    ASSUME SessionsInv, NEW s \in Secure!Slot, NEW endpoint, NEW h \in Handle \cup {Secure!NoHandle},
           NEW isAnswered, Secure!Request(s, endpoint, h, isAnswered)
    PROVE  SessionsInv'
<1> DEFINE instance == IF h = Secure!NoHandle THEN 0 ELSE streams[h].instance
           new == Opened(Secure!FreshId, Len(clients) + 1, endpoint, h, instance, credentials.device)
<1>1. /\ sessions[s].id = 0 /\ heard' = Append(heard, 0)
      /\ h # Secure!NoHandle => streams[h].instance # 0 /\ Secure!SessionsOf(h) = {}
      /\ \E c : clients' = Append(clients, c)
      /\ UNCHANGED <<sessionTunnels, instances, refused>>
    BY DEF Secure!Request, Secure!MayRequest
<1>2. /\ heard \in Seq(Nat) /\ heard' \in Seq(Nat) /\ (\E S : clients' \in Seq(S))
      /\ Len(heard') = Len(heard) + 1 /\ Len(clients') = Len(heard') /\ Len(clients) = Len(heard)
      /\ heard'[Len(heard) + 1] = 0 /\ \A k \in 1 .. Len(heard) : heard'[k] = heard[k]
      /\ Len(heard) \in Nat
    <2>1. PICK S : clients \in Seq(S)
        BY DEF SessionsInv, SessionShapes
    <2>2. PICK c : clients' = Append(clients, c)
        BY <1>1
    <2>3. clients' \in Seq(S \cup {c}) /\ Len(clients') = Len(clients) + 1
        BY <2>1, <2>2
    <2>4. heard \in Seq(Nat) /\ Len(clients) = Len(heard)
        BY DEF SessionsInv, SessionShapes
    <2> QED
        BY <1>1, <2>3, <2>4
<1>3. /\ sessions = [r \in Secure!Slot |-> sessions[r]] /\ streams = [g \in Handle |-> streams[g]]
      /\ \A r \in Secure!Slot : sessions[r] = Same(sessions[r])
      /\ \A g \in Handle : streams[g] = [instance |-> streams[g].instance, age |-> streams[g].age]
      /\ sessionTunnels' = [t \in Secure!Tunnel |-> sessionTunnels'[t]] /\ instances' \in Nat
    BY <1>1 DEF SessionsInv, SessionShapes
<1>4. CASE isAnswered
    <2>1. sessions' = [sessions EXCEPT ![s] = new] /\ UNCHANGED streams
        BY <1>4 DEF Secure!Request, Opened
    <2> HIDE DEF new
    <2>2. new = Same(new) /\ new.key = Len(clients) + 1 /\ new.tcp = h /\ new.instance = instance
          /\ new.received = 0
        BY OpenedTerms DEF new
    <2> HIDE DEF instance
    <2>3. /\ sessions' = [r \in Secure!Slot |-> IF r = s THEN new ELSE sessions[r]]
        BY <1>3, <2>1
    <2>4. /\ \A r \in Secure!InUse : r # s /\ r \in Secure!InUse' /\ sessions'[r] = sessions[r]
          /\ \A r \in Secure!InUse' : r = s \/ r \in Secure!InUse
          /\ sessions'[s] = new
        BY <1>1, <2>3 DEF Secure!InUse
    <2>5. /\ sessions'[s].key = Len(heard) + 1 /\ sessions'[s].received = 0
          /\ sessions'[s].tcp = h
          /\ h # Secure!NoHandle => sessions'[s].instance = streams[h].instance
        BY <1>2, <2>4, <2>2 DEF instance
    <2>6. SessionShapes'
        <3>1. new = Same(new)
            BY <2>2
        <3>2. /\ sessions' = [r \in Secure!Slot |-> sessions'[r]]
              /\ \A r \in Secure!Slot : sessions'[r] = Same(sessions'[r])
            BY <1>3, <2>3, <3>1
        <3> QED
            BY <1>2, <1>3, <2>1, <3>2 DEF SessionShapes
    <2>7. KeysInv'
        <3>1. \A r \in Secure!InUse : /\ sessions[r].key \in 1 .. Len(heard)
                                      /\ sessions[r].received \in Nat
                                      /\ heard[sessions[r].key] <= sessions[r].received
            BY DEF SessionsInv, KeysInv
        <3>2. ASSUME NEW r \in Secure!InUse'
              PROVE  /\ sessions'[r].key \in 1 .. Len(heard')
                     /\ sessions'[r].received \in Nat
                     /\ heard'[sessions'[r].key] <= sessions'[r].received
            BY <1>2, <2>4, <2>5, <3>1, SMTT(60)
        <3>3. ASSUME NEW r \in Secure!InUse', NEW q \in Secure!InUse', sessions'[r].key = sessions'[q].key
              PROVE  r = q
            <4>1. \A p \in Secure!InUse : sessions'[p].key # Len(heard) + 1
                BY <1>2, <2>4, <3>1
            <4> QED
                BY <2>4, <2>5, <3>3, <4>1 DEF SessionsInv, KeysInv
        <3> QED
            BY <3>2, <3>3 DEF KeysInv
    <2>8. StreamsInv'
        <3>1. h # Secure!NoHandle => \A r \in Secure!InUse : sessions[r].tcp # h
            BY <1>1 DEF Secure!SessionsOf
        <3> QED
            BY <1>1, <2>1, <2>4, <2>5, <3>1 DEF SessionsInv, StreamsInv
    <2>9. Secure!TunnelsInTheirSession'
        BY <1>1, <2>4 DEF SessionsInv, Secure!TunnelsInTheirSession
    <2> QED
        BY <1>1, <2>6, <2>7, <2>8, <2>9 DEF SessionsInv
<1>5. CASE ~isAnswered
    <2>1. /\ streams' = [g \in Handle |-> IF g = h THEN Secure!NoStream ELSE streams[g]]
          /\ UNCHANGED sessions
        BY <1>5 DEF Secure!Request
    <2>2. Secure!InUse' = Secure!InUse
        BY <2>1 DEF Secure!InUse
    <2>3. SessionShapes'
        <3>1. /\ streams' = [g \in Handle |-> streams'[g]]
              /\ \A g \in Handle : streams'[g] = [instance |-> streams'[g].instance, age |-> streams'[g].age]
            BY <1>3, <2>1 DEF Secure!NoStream
        <3> QED
            BY <1>2, <1>3, <2>1, <3>1 DEF SessionShapes
    <2>4. KeysInv'
        BY <1>2, <2>1, <2>2 DEF SessionsInv, KeysInv
    <2>5. StreamsInv'
        <3>1. \A r \in Secure!InUse : sessions[r].tcp # Secure!NoHandle => sessions[r].tcp # h
            BY <1>1 DEF Secure!SessionsOf
        <3>2. \A r \in Secure!InUse : sessions[r].tcp # Secure!NoHandle =>
                  streams'[sessions[r].tcp] = streams[sessions[r].tcp]
            BY <2>1, <3>1 DEF SessionsInv, StreamsInv
        <3> QED
            BY <2>1, <2>2, <3>2 DEF SessionsInv, StreamsInv
    <2>6. Secure!TunnelsInTheirSession'
        BY <1>1, <2>1, <2>2 DEF SessionsInv, Secure!TunnelsInTheirSession
    <2> QED
        BY <1>1, <2>3, <2>4, <2>5, <2>6 DEF SessionsInv
<1> QED
    BY <1>4, <1>5

\* A session that received frame i, one that is authenticated, and a new one
Received(r, i) == [r EXCEPT !.received = i, !.age = 0]

Authenticated(r, user, password) == [r EXCEPT !.user = user, !.password = password]

LEMMA ReceivedTerms ==
    ASSUME NEW r, r = Same(r), NEW i
    PROVE  LET q == Received(r, i) IN
           /\ q = Same(q) /\ q.id = r.id /\ q.key = r.key /\ q.tcp = r.tcp
           /\ q.instance = r.instance /\ q.received = i /\ q.user = r.user
<1> DEFINE p == [r EXCEPT !.received = i]
<1>1. /\ p = Same(p) /\ p.id = r.id /\ p.key = r.key /\ p.tcp = r.tcp
      /\ p.instance = r.instance /\ p.received = i /\ p.user = r.user
    BY DEF Same
<1>2. Received(r, i) = [p EXCEPT !.age = 0]
    BY DEF Received
<1> HIDE DEF p
<1> DEFINE q == [p EXCEPT !.age = 0]
<1>3. /\ q = Same(q) /\ q.id = p.id /\ q.key = p.key /\ q.tcp = p.tcp
      /\ q.instance = p.instance /\ q.received = p.received /\ q.user = p.user
    BY <1>1 DEF Same
<1> HIDE DEF q
<1> QED
    BY <1>1, <1>2, <1>3 DEF q

LEMMA AuthenticatedTerms ==
    ASSUME NEW r, r = Same(r), NEW user, NEW password
    PROVE  LET q == Authenticated(r, user, password) IN
           /\ q = Same(q) /\ q.id = r.id /\ q.key = r.key /\ q.tcp = r.tcp
           /\ q.instance = r.instance /\ q.received = r.received
<1> DEFINE p == [r EXCEPT !.user = user]
<1>1. /\ p = Same(p) /\ p.id = r.id /\ p.key = r.key /\ p.tcp = r.tcp
      /\ p.instance = r.instance /\ p.received = r.received
    BY DEF Same
<1>2. Authenticated(r, user, password) = [p EXCEPT !.password = password]
    BY DEF Authenticated
<1> HIDE DEF p
<1> DEFINE q == [p EXCEPT !.password = password]
<1>3. /\ q = Same(q) /\ q.id = p.id /\ q.key = p.key /\ q.tcp = p.tcp
      /\ q.instance = p.instance /\ q.received = p.received
    BY <1>1 DEF Same
<1> HIDE DEF q
<1> QED
    BY <1>1, <1>2, <1>3 DEF q

\* A session receives a frame: what it is replaced by, and its connection
LEMMA TouchTerms ==
    ASSUME SessionsInv, NEW s \in Secure!InUse, Secure!Touch(s), NEW r,
           sessions' = [sessions EXCEPT ![s] = r], r = Same(r),
           r.id = sessions[s].id, r.key = sessions[s].key, r.tcp = sessions[s].tcp,
           r.instance = sessions[s].instance, sessions[s].user # 0 => r.user # 0,
           r.received \in Nat
    PROVE  /\ sessions' = [q \in Secure!Slot |-> sessions'[q]]
           /\ sessions'[s] = r /\ \A q \in Secure!Slot : q # s => sessions'[q] = sessions[q]
           /\ \A q \in Secure!Slot :
                 /\ sessions'[q] = Same(sessions'[q])
                 /\ sessions'[q].id = sessions[q].id /\ sessions'[q].key = sessions[q].key
                 /\ sessions'[q].tcp = sessions[q].tcp /\ sessions'[q].instance = sessions[q].instance
                 /\ sessions[q].user # 0 => sessions'[q].user # 0
           /\ streams' = [h \in Handle |-> streams'[h]]
           /\ \A h \in Handle :
                 /\ streams'[h] = [instance |-> streams'[h].instance, age |-> streams'[h].age]
                 /\ streams'[h].instance = streams[h].instance \/ streams[h].instance = 0
<1>1. s \in Secure!Slot
    BY DEF Secure!InUse
<1>2. /\ sessions = [q \in Secure!Slot |-> sessions[q]] /\ streams = [g \in Handle |-> streams[g]]
      /\ \A q \in Secure!Slot : sessions[q] = Same(sessions[q])
      /\ \A g \in Handle : streams[g] = [instance |-> streams[g].instance, age |-> streams[g].age]
    BY DEF SessionsInv, SessionShapes
<1>3. /\ sessions' = [q \in Secure!Slot |-> sessions'[q]]
      /\ sessions'[s] = r /\ \A q \in Secure!Slot : q # s => sessions'[q] = sessions[q]
    BY <1>1, <1>2
<1>4. \A q \in Secure!Slot :
         /\ sessions'[q] = Same(sessions'[q])
         /\ sessions'[q].id = sessions[q].id /\ sessions'[q].key = sessions[q].key
         /\ sessions'[q].tcp = sessions[q].tcp /\ sessions'[q].instance = sessions[q].instance
         /\ sessions[q].user # 0 => sessions'[q].user # 0
    BY <1>2, <1>3
<1>5. /\ streams' = [h \in Handle |-> streams'[h]]
      /\ \A h \in Handle :
            /\ streams'[h] = [instance |-> streams'[h].instance, age |-> streams'[h].age]
            /\ streams'[h].instance = streams[h].instance \/ streams[h].instance = 0
    BY <1>2 DEF Secure!Touch
<1> QED
    BY <1>3, <1>4, <1>5

LEMMA AuthenticateStep ==
    ASSUME SessionsInv, NEW s \in Secure!Slot, NEW k \in DOMAIN clients, NEW i \in 1 .. MaxFrame,
           NEW inner \in Secure!Inner, Secure!Authenticate(s, k, i, inner)
    PROVE  SessionsInv'
<1> DEFINE r == [sessions[s] EXCEPT !.received = i, !.age = 0, !.user = inner.user,
                                    !.password = inner.password]
<1>1. /\ (\E S : clients' \in Seq(S)) /\ Len(clients') = Len(clients)
    BY ClientsKept DEF Secure!Authenticate
<1>2. /\ s \in Secure!InUse /\ i > sessions[s].received /\ sessions[s].user = 0
      /\ sessions' = [sessions EXCEPT ![s] = r] /\ Secure!Touch(s)
      /\ UNCHANGED <<sessionTunnels, instances, heard, refused>>
    BY DEF Secure!Authenticate, Secure!Opens, Secure!Found, Secure!IsNew
<1>3. sessions[s] = Same(sessions[s])
    BY DEF SessionsInv, SessionShapes
<1>4. /\ r = Same(r) /\ r.id = sessions[s].id /\ r.key = sessions[s].key /\ r.tcp = sessions[s].tcp
      /\ r.instance = sessions[s].instance /\ r.received = i
    <2>1. r = Authenticated(Received(sessions[s], i), inner.user, inner.password)
        BY DEF Authenticated, Received
    <2> DEFINE q == Received(sessions[s], i)
    <2>2. /\ q = Same(q) /\ q.id = sessions[s].id /\ q.key = sessions[s].key
          /\ q.tcp = sessions[s].tcp /\ q.instance = sessions[s].instance /\ q.received = i
        BY <1>3, ReceivedTerms
    <2> HIDE DEF q, r
    <2>3. r = Authenticated(q, inner.user, inner.password)
        BY <2>1 DEF q
    <2> QED
        BY <2>2, <2>3, AuthenticatedTerms
<1> HIDE DEF r
<1>5. i \in Nat
    OBVIOUS
<1>6. SessionShapes /\ KeysInv /\ Len(heard) \in Nat
    BY DEF SessionsInv, SessionShapes
<1>7. /\ heard' \in Seq(Nat) /\ instances' \in Nat
      /\ sessionTunnels' = [t \in Secure!Tunnel |-> sessionTunnels'[t]]
      /\ Len(clients') = Len(heard')
    BY <1>1, <1>2, <1>6 DEF SessionShapes
<1>8. /\ sessions' = [q \in Secure!Slot |-> sessions'[q]]
      /\ sessions'[s] = r /\ \A q \in Secure!Slot : q # s => sessions'[q] = sessions[q]
      /\ \A q \in Secure!Slot :
            /\ sessions'[q] = Same(sessions'[q])
            /\ sessions'[q].id = sessions[q].id /\ sessions'[q].key = sessions[q].key
            /\ sessions'[q].tcp = sessions[q].tcp /\ sessions'[q].instance = sessions[q].instance
            /\ sessions[q].user # 0 => sessions'[q].user # 0
      /\ streams' = [h \in Handle |-> streams'[h]]
      /\ \A h \in Handle :
            /\ streams'[h] = [instance |-> streams'[h].instance, age |-> streams'[h].age]
            /\ streams'[h].instance = streams[h].instance \/ streams[h].instance = 0
    BY <1>2, <1>4, <1>5, TouchTerms
<1>9. \A q \in Secure!InUse : sessions'[q].received \in Nat
                              /\ heard'[sessions[q].key] <= sessions'[q].received
    <2>1. \A q \in Secure!InUse : /\ sessions[q].key \in 1 .. Len(heard) /\ sessions[q].received \in Nat
                                  /\ heard[sessions[q].key] <= sessions[q].received
        BY <1>6 DEF KeysInv
    <2>2. \A q \in Secure!InUse : heard[sessions[q].key] \in Nat
        BY <1>6, <2>1, SMTT(60) DEF SessionShapes
    <2>3. heard[sessions[s].key] <= i
        BY <1>2, <1>5, <2>1, <2>2
    <2>4. Secure!InUse \subseteq Secure!Slot
        BY DEF Secure!InUse
    <2> QED
        BY <1>2, <1>4, <1>5, <1>8, <2>1, <2>3, <2>4
<1> QED
    BY <1>1, <1>2, <1>7, <1>8, <1>9, SessionsGoOn

\* Nothing is handed on twice or late, and nothing for old credentials.
LEMMA DispatchStep ==
    ASSUME SessionsInv, NEW s \in Secure!Slot, NEW k \in DOMAIN clients, NEW i \in 1 .. MaxFrame,
           NEW inner \in Secure!Inner, Secure!Dispatch(s, k, i, inner)
    PROVE  SessionsInv'
<1> DEFINE r == Received(sessions[s], i)
<1>1. /\ (\E S : clients' \in Seq(S)) /\ Len(clients') = Len(clients) /\ k \in 1 .. Len(heard)
    BY ClientsKept DEF Secure!Dispatch
<1>2. /\ s \in Secure!InUse /\ i > sessions[s].received /\ sessions[s].user # 0 /\ sessions[s].key = k
      /\ sessions' = [sessions EXCEPT ![s] = r] /\ Secure!Touch(s)
      /\ UNCHANGED instances
      /\ heard' = [heard EXCEPT ![k] = IF @ >= i THEN -1 ELSE i]
    BY DEF Secure!Dispatch, Secure!Opens, Secure!Found, Secure!IsNew, Received
<1>3. refused' = refused
    <2>1. credentials.password[sessions[s].user] = sessions[s].password
        BY <1>2 DEF Secure!Dispatch, Secure!Opens, Secure!IsCurrent
    <2> QED
        BY <2>1 DEF Secure!Dispatch, SessionsInv
<1>4. sessions[s] = Same(sessions[s])
    BY DEF SessionsInv, SessionShapes
<1>5. /\ r = Same(r) /\ r.id = sessions[s].id /\ r.key = sessions[s].key /\ r.tcp = sessions[s].tcp
      /\ r.instance = sessions[s].instance /\ r.received = i /\ r.user = sessions[s].user
    BY <1>4, ReceivedTerms
<1> HIDE DEF r
<1>6. i \in Nat
    OBVIOUS
<1>7. SessionShapes /\ KeysInv /\ Len(heard) \in Nat /\ heard \in Seq(Nat) /\ instances' \in Nat
    BY <1>2 DEF SessionsInv, SessionShapes
<1>8. \A q \in Secure!InUse : /\ sessions[q].key \in 1 .. Len(heard) /\ sessions[q].received \in Nat
                              /\ heard[sessions[q].key] <= sessions[q].received
                              /\ heard[sessions[q].key] \in Nat
    BY <1>7 DEF KeysInv
<1>9. heard[k] < i /\ heard' = [heard EXCEPT ![k] = i]
    <2>1. heard[k] < i /\ heard[k] \in Nat
        BY <1>2, <1>6, <1>8
    <2>2. (IF heard[k] >= i THEN -1 ELSE i) = i
        BY <1>6, <2>1
    <2> QED
        BY <1>2, <2>1, <2>2
<1>10. heard' \in Seq(Nat) /\ Len(heard') = Len(heard) /\ Len(clients') = Len(heard')
    BY <1>1, <1>6, <1>7, <1>9 DEF SessionShapes
<1>11. /\ sessions' = [q \in Secure!Slot |-> sessions'[q]]
       /\ sessions'[s] = r /\ \A q \in Secure!Slot : q # s => sessions'[q] = sessions[q]
       /\ \A q \in Secure!Slot :
             /\ sessions'[q] = Same(sessions'[q])
             /\ sessions'[q].id = sessions[q].id /\ sessions'[q].key = sessions[q].key
             /\ sessions'[q].tcp = sessions[q].tcp /\ sessions'[q].instance = sessions[q].instance
             /\ sessions[q].user # 0 => sessions'[q].user # 0
       /\ streams' = [h \in Handle |-> streams'[h]]
       /\ \A h \in Handle :
             /\ streams'[h] = [instance |-> streams'[h].instance, age |-> streams'[h].age]
             /\ streams'[h].instance = streams[h].instance \/ streams[h].instance = 0
    BY <1>2, <1>5, <1>6, TouchTerms
<1>12. \A q \in Secure!InUse : sessions'[q].received \in Nat
                               /\ heard'[sessions[q].key] <= sessions'[q].received
    <2> TAKE q \in Secure!InUse
    <2>1. CASE q = s
        BY <1>1, <1>2, <1>5, <1>6, <1>7, <1>9, <1>11, <2>1
    <2>2. CASE q # s
        <3>1. sessions[q].key # k
            BY <1>2, <1>7, <2>2 DEF KeysInv
        <3>2. heard'[sessions[q].key] = heard[sessions[q].key]
            BY <1>7, <1>8, <1>9, <3>1
        <3>3. sessions'[q] = sessions[q]
            BY <1>11, <2>2 DEF Secure!InUse
        <3> QED
            BY <1>8, <3>2, <3>3
    <2> QED
        BY <2>1, <2>2
<1>13. /\ sessionTunnels' = [t \in Secure!Tunnel |-> sessionTunnels'[t]]
       /\ \A t \in Secure!Tunnel : \/ sessionTunnels'[t] = sessionTunnels[t]
                            \/ \E q \in Secure!InUse : /\ sessions[q].id = sessionTunnels'[t].id
                                                      /\ sessions[q].key = sessionTunnels'[t].key
                                                      /\ sessions[q].user # 0
    <2>1. sessionTunnels = [t \in Secure!Tunnel |-> sessionTunnels[t]]
        BY <1>7 DEF SessionShapes
    <2>2. CASE UNCHANGED sessionTunnels
        BY <2>1, <2>2
    <2>3. ASSUME NEW t \in Secure!Tunnel,
                 sessionTunnels' = [sessionTunnels EXCEPT ![t] = [id |-> sessions[s].id, key |-> k]]
          PROVE  /\ sessionTunnels' = [u \in Secure!Tunnel |-> sessionTunnels'[u]]
                 /\ \A u \in Secure!Tunnel : \/ sessionTunnels'[u] = sessionTunnels[u]
                                      \/ /\ sessions[s].id = sessionTunnels'[u].id
                                         /\ sessions[s].key = sessionTunnels'[u].key
        BY <1>2, <2>1, <2>3
    <2> QED
        BY <1>2, <2>2, <2>3 DEF Secure!Dispatch
<1> QED
    BY <1>1, <1>3, <1>7, <1>10, <1>11, <1>12, <1>13, SessionsGoOn

\* Time passes; loop() has ended what is over.
LEMMA TickStep ==
    ASSUME SessionsInv, Secure!Tick
    PROVE  SessionsInv'
<1>1. /\ sessions' = [s \in Secure!Slot |-> IF s \in Secure!InUse
                                            THEN [sessions[s] EXCEPT !.age = @ + 1] ELSE sessions[s]]
      /\ streams' = [h \in Handle |-> IF streams[h].instance # 0 THEN [streams[h] EXCEPT !.age = @ + 1]
                                      ELSE streams[h]]
      /\ UNCHANGED <<sessionTunnels, clients, instances, heard, refused>>
    BY DEF Secure!Tick
<1>2. SessionShapes /\ KeysInv
    BY DEF SessionsInv
<1>3. \A s \in Secure!Slot : sessions'[s] \in {[sessions[s] EXCEPT !.age = @ + 1], sessions[s]}
    BY <1>1
<1>4. ASSUME NEW s \in Secure!Slot
      PROVE  /\ sessions'[s] = Same(sessions'[s])
             /\ sessions'[s].id = sessions[s].id /\ sessions'[s].key = sessions[s].key
             /\ sessions'[s].tcp = sessions[s].tcp /\ sessions'[s].instance = sessions[s].instance
             /\ sessions[s].user # 0 => sessions'[s].user # 0
             /\ sessions'[s].received = sessions[s].received
    <2> DEFINE r == sessions[s]
    <2>1. r = Same(r)
        BY <1>2 DEF SessionShapes
    <2> HIDE DEF r
    <2> DEFINE q == [r EXCEPT !.age = r.age + 1]
    <2>2. /\ q = Same(q) /\ q.id = r.id /\ q.key = r.key /\ q.tcp = r.tcp
          /\ q.instance = r.instance /\ q.received = r.received /\ q.user = r.user
        BY <2>1 DEF Same
    <2>3. sessions'[s] \in {q, r}
        BY <1>3 DEF r
    <2> HIDE DEF q
    <2> QED
        BY <2>1, <2>2, <2>3 DEF r
<1>5. /\ streams' = [h \in Handle |-> streams'[h]]
      /\ \A h \in Handle :
            /\ streams'[h] = [instance |-> streams'[h].instance, age |-> streams'[h].age]
            /\ streams'[h].instance = streams[h].instance \/ streams[h].instance = 0
    BY <1>1, <1>2 DEF SessionShapes
<1>6. /\ sessions' = [s \in Secure!Slot |-> sessions'[s]]
      /\ sessionTunnels' = [t \in Secure!Tunnel |-> sessionTunnels'[t]]
      /\ heard' \in Seq(Nat) /\ (\E S : clients' \in Seq(S)) /\ Len(clients') = Len(heard')
      /\ instances' \in Nat
    BY <1>1, <1>2 DEF SessionShapes
<1>7. \A s \in Secure!InUse : sessions'[s].received \in Nat
                              /\ heard'[sessions[s].key] <= sessions'[s].received
    BY <1>1, <1>2, <1>4 DEF KeysInv, Secure!InUse
<1> QED
    BY <1>1, <1>4, <1>5, <1>6, <1>7, SessionsGoOn

\* What does not touch the sessions keeps them in order.
LEMMA Untouched ==
    ASSUME SessionsInv,
           UNCHANGED <<sessions, streams, sessionTunnels, clients, instances, heard, refused>>
    PROVE  SessionsInv'
<1>1. Secure!InUse' = Secure!InUse
    BY DEF Secure!InUse
<1>2. SessionShapes'
    BY DEF SessionsInv, SessionShapes
<1>3. KeysInv'
    BY <1>1 DEF SessionsInv, KeysInv
<1>4. StreamsInv'
    BY <1>1 DEF SessionsInv, StreamsInv
<1>5. Secure!TunnelsInTheirSession'
    BY <1>1 DEF SessionsInv, Secure!TunnelsInTheirSession
<1> QED
    BY <1>2, <1>3, <1>4, <1>5 DEF SessionsInv

\* enabled(false) and a restart leave nothing.
LEMMA DisableStep ==
    ASSUME SessionsInv, NEW isRestart, Secure!Disable(isRestart)
    PROVE  SessionsInv'
<1>1. /\ sessions' = [s \in Secure!Slot |-> Secure!NoSession]
      /\ streams' = [h \in Handle |-> Secure!NoStream]
      /\ sessionTunnels' = [t \in Secure!Tunnel |-> Secure!NoTunnel]
      /\ UNCHANGED <<clients, instances, heard, refused>>
    BY DEF Secure!Disable
<1>2. Secure!InUse' = {}
    BY <1>1 DEF Secure!InUse, Secure!NoSession
<1>3. SessionShapes'
    <2>1. /\ Secure!NoSession = Same(Secure!NoSession)
          /\ Secure!NoStream = [instance |-> Secure!NoStream.instance, age |-> Secure!NoStream.age]
        BY DEF Secure!NoSession, Secure!NoStream, Same
    <2> QED
        BY <1>1, <2>1 DEF SessionsInv, SessionShapes
<1>4. KeysInv' /\ StreamsInv'
    BY <1>2 DEF KeysInv, StreamsInv
<1>5. Secure!TunnelsInTheirSession'
    BY <1>1 DEF Secure!TunnelsInTheirSession
<1> QED
    BY <1>1, <1>3, <1>4, <1>5 DEF SessionsInv

LEMMA SessionsInitially ==
    ASSUME Secure!Init
    PROVE  SessionsInv
<1>1. /\ sessions = [s \in Secure!Slot |-> Secure!NoSession]
      /\ streams = [h \in Handle |-> Secure!NoStream]
      /\ sessionTunnels = [t \in Secure!Tunnel |-> Secure!NoTunnel]
      /\ clients = << >> /\ instances = 0 /\ heard = << >> /\ refused = FALSE
    BY DEF Secure!Init
<1>2. Secure!InUse = {}
    BY <1>1 DEF Secure!InUse, Secure!NoSession
<1>3. SessionShapes
    <2>1. /\ Secure!NoSession = Same(Secure!NoSession)
          /\ Secure!NoStream = [instance |-> Secure!NoStream.instance, age |-> Secure!NoStream.age]
        BY DEF Secure!NoSession, Secure!NoStream, Same
    <2>2. clients \in Seq({}) /\ heard \in Seq(Nat) /\ Len(clients) = Len(heard)
        BY <1>1
    <2> QED
        BY <1>1, <2>1, <2>2 DEF SessionShapes
<1>4. KeysInv /\ StreamsInv
    BY <1>2 DEF KeysInv, StreamsInv
<1>5. Secure!TunnelsInTheirSession
    BY <1>1 DEF Secure!TunnelsInTheirSession
<1> QED
    BY <1>1, <1>3, <1>4, <1>5 DEF SessionsInv

LEMMA SessionsInductive ==
    ASSUME SessionsInv, [Secure!Next]_(Secure!vars)
    PROVE  SessionsInv'
<1>1. ASSUME NEW s \in Secure!Slot, Secure!Expire(s) \/ Secure!SendFails(s)
      PROVE  SessionsInv'
    <2>1. /\ s \in Secure!InUse /\ Secure!Close({s})
          /\ UNCHANGED <<instances, heard, refused, clients>>
        BY <1>1 DEF Secure!Expire, Secure!SendFails
    <2>2. \E S : clients' \in Seq(S)
        BY <2>1 DEF SessionsInv, SessionShapes
    <2> QED
        BY <2>1, <2>2, SessionClosed
<1>2. ASSUME NEW h \in Handle, Secure!ExpireStream(h) \/ Secure!Hangup(h)
      PROVE  SessionsInv'
    <2>1. Secure!CloseStream(h) /\ UNCHANGED <<instances, heard, refused, clients>>
        BY <1>2 DEF Secure!ExpireStream, Secure!Hangup
    <2> QED
        BY <2>1, StreamClosed
<1>3. ASSUME NEW k \in DOMAIN clients, NEW i \in 1 .. MaxFrame, NEW inner \in Secure!Inner,
             Secure!Revoke(k, i, inner)
      PROVE  SessionsInv'
    <2>1. PICK s \in Secure!InUse : Secure!Close({s})
        BY <1>3 DEF Secure!Revoke, Secure!Found
    <2>2. Secure!Arrives(k, i, inner) /\ UNCHANGED <<instances, heard, refused>>
        BY <1>3 DEF Secure!Revoke
    <2>3. (\E S : clients' \in Seq(S)) /\ Len(clients') = Len(clients)
        BY <2>2, ClientsKept
    <2> QED
        BY <2>1, <2>2, <2>3, SessionClosed
<1>4. ASSUME NEW k \in DOMAIN clients, NEW i \in 1 .. MaxFrame, NEW inner \in Secure!Inner,
             NEW s \in Secure!Slot, Secure!Farewell(s, k, i, inner)
      PROVE  SessionsInv'
    <2>1. /\ s \in Secure!InUse /\ Secure!Close({s}) /\ Secure!Arrives(k, i, inner)
          /\ UNCHANGED <<instances, heard, refused>>
        BY <1>4 DEF Secure!Farewell, Secure!Opens, Secure!Found
    <2>2. (\E S : clients' \in Seq(S)) /\ Len(clients') = Len(clients)
        BY <2>1, ClientsKept
    <2> QED
        BY <2>1, <2>2, SessionClosed
<1>5. ASSUME NEW version \in Version,
             Secure!SetDevice(version) \/ \E user \in User : Secure!SetPassword(user, version)
      PROVE  SessionsInv'
    BY <1>5, Untouched DEF Secure!SetDevice, Secure!SetPassword
<1>6. CASE UNCHANGED Secure!vars
    BY <1>6, Untouched DEF Secure!vars
<1>7. CASE Secure!Next
    BY <1>7, <1>1, <1>2, <1>3, <1>4, <1>5, TickStep, AcceptStep, RequestStep, AuthenticateStep,
       DispatchStep, DisableStep DEF Secure!Next, Secure!Loop
<1> QED
    BY <1>6, <1>7

LEMMA SessionsAlways == Secure!Spec => []SessionsInv
<1>1. Secure!Init => SessionsInv
    BY SessionsInitially
<1>2. SessionsInv /\ [Secure!Next]_(Secure!vars) => SessionsInv'
    BY SessionsInductive
<1> QED
    BY <1>1, <1>2, PTL DEF Secure!Spec

\* A session, the frames handed on from it, its tunnels and its TCP connection belong to one
\* handshake: no frame is handed on twice or late (the sequence numbers of ip_secure.cpp, across reused
\* session numbers), no tunnel outlives its session into the next one with its number
\* (releaseSession), and no session its connection (closeStream).
THEOREM SessionsAlwaysCoherent == Secure!Spec => []SessionsCoherent
<1>1. SessionsInv => SessionsCoherent
    <2> SUFFICES ASSUME SessionsInv PROVE SessionsCoherent
        OBVIOUS
    <2>1. Secure!HeardInOrder
        <3>1. heard \in Seq(Nat)
            BY DEF SessionsInv, SessionShapes
        <3> QED
            BY <3>1 DEF Secure!HeardInOrder
    <2>2. Secure!SessionsOnTheirStream
        BY DEF SessionsInv, StreamsInv, Secure!SessionsOnTheirStream
    <2>3. Secure!TunnelsInTheirSession
        BY DEF SessionsInv
    <2> QED
        BY <2>1, <2>2, <2>3 DEF SessionsCoherent, Secure!SessionsCoherent
<1> QED
    BY <1>1, SessionsAlways, PTL

\* Nothing is handed to the tunnel server for a user whose password was changed since it was
\* proved: credentialsCurrent() stands before every dispatch of ip_secure.cpp.
THEOREM NothingRevokedEver == Secure!Spec => []NothingRevoked
<1>1. SessionsInv => NothingRevoked
    BY DEF SessionsInv, NothingRevoked, Secure!NothingRevoked
<1> QED
    BY <1>1, SessionsAlways, PTL

=============================================================================
