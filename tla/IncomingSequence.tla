-------------------------- MODULE IncomingSequence --------------------------
(***************************************************************************)
(* Protection against repeated secured telegrams: the replay cache, the    *)
(* journal and the table of senders of                                     *)
(* src/src/knx/security_interface_object.cpp (configuredReplayFloor to     *)
(* isKnownSender) under the handlers of secure_application_layer.cpp that  *)
(* use them (decrypt, receivedSyncRequest, receivedSyncResponse).          *)
(*                                                                         *)
(* A peer is a sender in one of two domains, data or tool access.  The     *)
(* domains have separate journal records, but in the cache only the range  *)
(* of a slot tells them apart.  A data sender may have an entry in the     *)
(* table of individual addresses, which ETS writes and acceptance updates; *)
(* its number is a floor.  A read of the journal that fails rejects the    *)
(* telegram and changes nothing, so no step models it.                     *)
(***************************************************************************)
EXTENDS Naturals, Sequences

CONSTANTS
    Sender,                 \* individual addresses
    ToolSender,             \* those that (also) use tool access
    DataSlots, ToolSlots,   \* KNX_SECURE_SENDERS, KNX_SECURE_TOOL_SENDERS
    MaxSequence             \* kMaximumSequence: 2^48 - 1 in the source

Data(a) == [toolAccess |-> FALSE, sender |-> a]
Tool(a) == [toolAccess |-> TRUE, sender |-> a]

DataPeer == {Data(a) : a \in Sender}
Peer     == DataPeer \cup {Tool(a) : a \in ToolSender}

Slot == 1 .. DataSlots + ToolSlots
Free == "free"              \* the sender of a slot that is not occupied

ASSUME IncomingAssumption ==
    /\ ToolSender \subseteq Sender
    /\ Free \notin Sender
    /\ DataSlots \in Nat \ {0} /\ ToolSlots \in Nat \ {0}
    /\ MaxSequence \in Nat \ {0}

VARIABLES
    replay,         \* _replay: the cache
    table,          \* PID_SECURITY_INDIVIDUAL_ADDRESS_TABLE, a function on the listed addresses
    image,          \* that table as Memory last saved it
    journal,        \* journal[p]: the record of peer p, 0 if absent
    journalHealthy, \* _journalHealthy
    delivered       \* delivered[p]: the numbers of p's delivered telegrams (ghost)

vars == <<replay, table, image, journal, journalHealthy, delivered>>

Sequence   == 0 .. MaxSequence
ReplaySlot == [sender: Sender \cup {Free}, sequence: Sequence]
Table      == UNION {[listed -> Sequence] : listed \in SUBSET Sender}

Greater(m, n) == IF m > n THEN m ELSE n

SlotsOf(p) == IF p.toolAccess THEN DataSlots + 1 .. DataSlots + ToolSlots ELSE 1 .. DataSlots

EmptySlot == [sender |-> Free, sequence |-> 0]

-----------------------------------------------------------------------------
\* configuredReplayFloor; a tool has none
Listed(p) == ~p.toolAccess /\ p.sender \in DOMAIN table

ReplayFloor(p) == IF Listed(p) THEN table[p.sender] ELSE 0

\* isKnownSender, which decrypt asks for data senders only
Known(p) == p.toolAccess \/ Listed(p)

Cached(p) == {i \in SlotsOf(p) : replay[i].sender = p.sender}

\* seeded fault: a sender that is not cached starts anew
RecordedInCache(p) == IF Cached(p) # {} THEN replay[CHOOSE i \in Cached(p) : TRUE].sequence ELSE 0

\* The number of the last telegram taken from p: from the cache, or the journal.
Recorded(p) == IF Cached(p) # {} THEN replay[CHOOSE i \in Cached(p) : TRUE].sequence
               ELSE journal[p]

\* seeded fault: a cached sender's floor is not looked up again
LastIgnoresFloor(p) == IF Cached(p) # {} THEN Recorded(p) ELSE Greater(Recorded(p), ReplayFloor(p))

\* lastValidSequenceNumber, on a healthy journal that can be read
LastValid(p) == Greater(Recorded(p), ReplayFloor(p))

\* ... which raises a cached number to the floor, and allocates no slot.
Queried(p) ==
    [i \in Slot |-> IF i \in Cached(p) THEN [replay[i] EXCEPT !.sequence = LastValid(p)] ELSE replay[i]]

FreeSlots(p) == {i \in SlotsOf(p) : replay[i].sender = Free}

\* replayState: p's slot, or the first free one, or else the first of the domain,
\* whose sender is evicted
IsEntry(i, p) ==
    /\ i \in SlotsOf(p)
    /\ \/ i \in Cached(p)
       \/ Cached(p) = {} /\ i \in FreeSlots(p) /\ \A j \in FreeSlots(p) : i <= j
       \/ Cached(p) = {} /\ FreeSlots(p) = {} /\ \A j \in SlotsOf(p) : i <= j

-----------------------------------------------------------------------------
(* acceptIncomingSequence of a number above the last: the journal first.
   write is the platform's answer to the write: "ok", "failed" (not durable),
   or "unsure" (reported as failed, yet durable). *)

Write == {"ok", "failed", "unsure"}

\* seeded fault: only the cache is advanced
PersistLater(p, n, write) == UNCHANGED journal

Persist(p, n, write) ==
    journal' = IF write = "failed" THEN journal ELSE [journal EXCEPT ![p] = n]

AcceptIncomingSequence(p, n, write) ==
    /\ journalHealthy /\ Known(p)
    /\ n \in Sequence /\ n > LastValid(p)
    /\ Persist(p, n, write)
    /\ \E i \in Slot :
          /\ IsEntry(i, p)
          /\ replay' = [replay EXCEPT ![i] =
                [sender |-> p.sender, sequence |-> IF write = "ok" THEN n ELSE LastValid(p)]]
    /\ table' = IF write = "ok" /\ Listed(p) THEN [table EXCEPT ![p.sender] = n] ELSE table
    /\ UNCHANGED <<image, journalHealthy>>

\* decrypt of an authentic telegram: delivered when its number was accepted
ReceiveData(p, n) ==
    \E write \in Write :
        /\ AcceptIncomingSequence(p, n, write)
        /\ delivered' = IF write = "ok" THEN [delivered EXCEPT ![p] = Append(@, n)] ELSE delivered

\* receivedSyncRequest and receivedSyncResponse, authentic: the peer's next number
\* is known now, and everything before it counts as taken.
ReceiveSync(p, next) ==
    /\ \E write \in Write : AcceptIncomingSequence(p, next - 1, write)
    /\ UNCHANGED delivered

\* A telegram that is rejected: its number is old, or its authentication code is
\* wrong.  The last number was looked up before the code was verified.
ReceiveUnauthenticated(p) ==
    /\ journalHealthy /\ Known(p)
    /\ replay' = Queried(p)
    /\ UNCHANGED <<table, image, journal, journalHealthy, delivered>>

-----------------------------------------------------------------------------
NoTable == [a \in {} |-> 0]

\* ETS writes an element of the table: it adds a, or overwrites the element of old.
WriteTable(old, a, n) ==
    LET kept == DOMAIN table \ {old}
    IN  /\ a \notin kept
        /\ table' = [b \in kept \cup {a} |-> IF b = a THEN n ELSE table[b]]
        /\ UNCHANGED <<replay, image, journal, journalHealthy, delivered>>

\* ETS writes the number of elements: zero.
ClearTable ==
    /\ table' = NoTable
    /\ UNCHANGED <<replay, image, journal, journalHealthy, delivered>>

\* save(), called when Memory writes the image
Save ==
    /\ image' = table
    /\ UNCHANGED <<replay, table, journal, journalHealthy, delivered>>

\* masterReset with FactoryReset or FactoryResetWithoutIA: the entries are
\* zeroed; cache and journal stay.
MasterReset ==
    /\ table' = NoTable
    /\ UNCHANGED <<replay, image, journal, journalHealthy, delivered>>

\* Power loss and restart: the cache is empty, the table comes from the image if
\* Memory accepts it, and the outgoing records decide about journalHealthy.
PowerCycle ==
    /\ replay' = [i \in Slot |-> EmptySlot]
    /\ table' \in {NoTable, image}
    /\ journalHealthy' \in BOOLEAN
    /\ UNCHANGED <<image, journal, delivered>>

-----------------------------------------------------------------------------
Init ==
    /\ replay = [i \in Slot |-> EmptySlot]
    /\ table = NoTable /\ image = NoTable
    /\ journal = [p \in Peer |-> 0]
    /\ journalHealthy = TRUE
    /\ delivered = [p \in Peer |-> <<>>]

Next ==
    \/ \E p \in Peer :
          \/ \E n \in Sequence : ReceiveData(p, n) \/ ReceiveSync(p, n)
          \/ ReceiveUnauthenticated(p)
    \/ \E old, a \in Sender, n \in Sequence : WriteTable(old, a, n)
    \/ ClearTable \/ Save \/ MasterReset \/ PowerCycle

Spec == Init /\ [][Next]_vars

-----------------------------------------------------------------------------
TypeOK ==
    /\ replay \in [Slot -> ReplaySlot]
    /\ table \in Table /\ image \in Table
    /\ journal \in [Peer -> Sequence]
    /\ journalHealthy \in BOOLEAN
    /\ delivered \in [Peer -> Seq(1 .. MaxSequence)]

\* No telegram of a peer is delivered twice, or after a later one, whatever is
\* repeated to the device: not after an eviction, a power loss, a journal write of
\* unknown outcome, a factory reset or a table that ETS replaced.
DeliveredOnce ==
    \A p \in Peer : \A i, j \in 1 .. Len(delivered[p]) :
        i < j => delivered[p][i] < delivered[p][j]

\* The journal alone keeps what an eviction or a power loss takes from the cache.
JournalCoversDelivered ==
    \A p \in Peer : \A i \in 1 .. Len(delivered[p]) : delivered[p][i] <= journal[p]

\* Both: nothing is delivered again, and after a power loss nothing can be.
ReplaySafe == DeliveredOnce /\ JournalCoversDelivered

\* A peer has one slot at most: with two, an older number would be found.
OneSlotPerPeer ==
    \A p \in Peer : \A i, j \in Cached(p) : i = j

\* Nothing at or below the floor that ETS configured is delivered, even when the
\* sender was cached before the floor was raised.
FloorHonoured ==
    [][\A p \in Peer :
          delivered'[p] # delivered[p] =>
              delivered'[p][Len(delivered'[p])] > ReplayFloor(p)]_vars

=============================================================================
