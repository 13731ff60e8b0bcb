----------------------- MODULE IncomingSequenceProofs -----------------------
(***************************************************************************)
(* No telegram is delivered twice, for any set of senders, any number of   *)
(* slots and any last number.                                              *)
(*                                                                         *)
(* DeliveredOnce is not inductive: what decides about the next telegram is *)
(* the number found in the cache, or in the journal when the cache has     *)
(* none.  So the invariant says that both cover what was delivered, and    *)
(* that a peer has one slot, so there is one number to be found.           *)
(***************************************************************************)
EXTENDS IncomingSequence, TLAPS

Covers(last, p) == \A i \in 1 .. Len(delivered[p]) : delivered[p][i] <= last

CacheCoversDelivered == \A p \in Peer : \A c \in Cached(p) : Covers(replay[c].sequence, p)

Inv == TypeOK /\ DeliveredOnce /\ JournalCoversDelivered /\ CacheCoversDelivered /\ OneSlotPerPeer

USE IncomingAssumption

-----------------------------------------------------------------------------
\* A sender and a domain make a peer; slots of different domains differ.
LEMMA PeerFacts ==
    /\ \A p \in Peer : p.sender \in Sender /\ p.toolAccess \in BOOLEAN /\ SlotsOf(p) \subseteq Slot
    /\ \A p, q \in Peer : p.sender = q.sender /\ p.toolAccess = q.toolAccess => p = q
    /\ \A p, q \in Peer : \A c \in SlotsOf(p) \cap SlotsOf(q) : p.toolAccess = q.toolAccess
<1>1. \A p \in Peer : \E a \in Sender : p = Data(a) \/ p = Tool(a)
  BY DEF Peer, DataPeer, IncomingAssumption
<1>2. \A p \in Peer : p.sender \in Sender /\ p.toolAccess \in BOOLEAN
  <2> SUFFICES ASSUME NEW p \in Peer  PROVE p.sender \in Sender /\ p.toolAccess \in BOOLEAN
    OBVIOUS
  <2>1. PICK a \in Sender : p = Data(a) \/ p = Tool(a)  BY <1>1
  <2>2. p.sender = a  BY <2>1 DEF Data, Tool
  <2>3. p.toolAccess = FALSE \/ p.toolAccess = TRUE  BY <2>1 DEF Data, Tool
  <2> QED  BY <2>2, <2>3
<1>3. \A p, q \in Peer : p.sender = q.sender /\ p.toolAccess = q.toolAccess => p = q
  BY <1>1 DEF Data, Tool
<1>4. \A p \in Peer : SlotsOf(p) \subseteq Slot  BY <1>2 DEF SlotsOf, Slot
<1>5. \A p, q \in Peer : \A c \in SlotsOf(p) \cap SlotsOf(q) : p.toolAccess = q.toolAccess
  BY <1>2 DEF SlotsOf
<1> QED  BY <1>2, <1>3, <1>4, <1>5

LEMMA FloorType ==
    ASSUME TypeOK, NEW p \in Peer  PROVE ReplayFloor(p) \in Sequence
<1>1. PICK listed \in SUBSET Sender : table \in [listed -> Sequence]  BY DEF TypeOK, Table
<1> QED  BY <1>1 DEF ReplayFloor, Listed, Sequence

\* The number that decides about the next telegram covers all that were delivered.
LEMMA LastCovers ==
    ASSUME Inv, NEW p \in Peer
    PROVE  /\ LastValid(p) \in Sequence
           /\ LastValid(p) >= ReplayFloor(p)
           /\ Covers(LastValid(p), p)
<1>1. ReplayFloor(p) \in Sequence  BY FloorType DEF Inv
<1>2. Recorded(p) \in Sequence /\ Covers(Recorded(p), p)
  <2>1. CASE Cached(p) # {}
    <3> DEFINE c == CHOOSE i \in Cached(p) : TRUE
    <3>1. c \in Cached(p)  BY <2>1
    <3> HIDE DEF c
    <3>2. c \in Slot  BY <3>1, PeerFacts DEF Cached
    <3>3. replay[c].sequence \in Sequence  BY <3>2 DEF Inv, TypeOK, ReplaySlot
    <3>4. Covers(replay[c].sequence, p)  BY <3>1 DEF Inv, CacheCoversDelivered
    <3> QED  BY <2>1, <3>3, <3>4 DEF Recorded, c
  <2>2. CASE Cached(p) = {}
    BY <2>2 DEF Recorded, Inv, TypeOK, JournalCoversDelivered, Covers
  <2> QED  BY <2>1, <2>2
<1>3. delivered[p] \in Seq(1 .. MaxSequence)  BY DEF Inv, TypeOK
<1>4. \A i \in 1 .. Len(delivered[p]) : delivered[p][i] \in Nat  BY <1>3
<1> QED  BY <1>1, <1>2, <1>4 DEF LastValid, Greater, Covers, Sequence

-----------------------------------------------------------------------------
\* Acceptance keeps the cache in order, and what it records covers number m of
\* p (the last it delivers) and all before it.
LEMMA AcceptKeeps ==
    ASSUME Inv, NEW p \in Peer, NEW n, NEW write \in Write,
           AcceptIncomingSequence(p, n, write)
    PROVE  /\ replay' \in [Slot -> ReplaySlot]
           /\ table' \in Table
           /\ journal' \in [Peer -> Sequence]
           /\ UNCHANGED <<image, journalHealthy>>
           /\ n \in 1 .. MaxSequence /\ n > LastValid(p) /\ LastValid(p) \in Nat
           /\ \A q \in Peer : journal'[q] >= journal[q] \/ (q = p /\ journal'[q] = n)
           /\ write = "ok" => journal'[p] = n
           /\ OneSlotPerPeer'
           /\ \A q \in Peer : \A c \in Cached(q)' :
                 \/ c \in Cached(q) /\ replay'[c] = replay[c] /\ q # p
                 \/ q = p /\ replay'[c].sequence = IF write = "ok" THEN n ELSE LastValid(p)
<1> DEFINE m == IF write = "ok" THEN n ELSE LastValid(p)
<1>1. LastValid(p) \in Sequence /\ n \in Sequence /\ n > LastValid(p)
  BY LastCovers DEF AcceptIncomingSequence
<1>2. n \in 1 .. MaxSequence /\ LastValid(p) \in Nat  BY <1>1 DEF Sequence
<1>3. journal' = IF write = "failed" THEN journal ELSE [journal EXCEPT ![p] = n]
  BY DEF AcceptIncomingSequence, Persist
<1>4. journal \in [Peer -> Sequence]  BY DEF Inv, TypeOK
<1>5. /\ journal' \in [Peer -> Sequence]
      /\ \A q \in Peer : journal'[q] >= journal[q] \/ (q = p /\ journal'[q] = n)
      /\ write = "ok" => journal'[p] = n
  BY <1>1, <1>3, <1>4 DEF Sequence
<1>6. m \in Sequence  BY <1>1
<1>7. PICK i \in Slot : IsEntry(i, p) /\ replay' = [replay EXCEPT ![i] = [sender |-> p.sender, sequence |-> m]]
  BY DEF AcceptIncomingSequence
<1> HIDE DEF m
<1>8. replay \in [Slot -> ReplaySlot]  BY DEF Inv, TypeOK
<1>9. [sender |-> p.sender, sequence |-> m] \in ReplaySlot  BY <1>6, PeerFacts DEF ReplaySlot
<1>10. replay' \in [Slot -> ReplaySlot]  BY <1>7, <1>8, <1>9
<1>11. table' \in Table
  <2>1. PICK listed \in SUBSET Sender : table \in [listed -> Sequence]  BY DEF Inv, TypeOK, Table
  <2>2. table' = table \/ table' = [table EXCEPT ![p.sender] = n]  BY DEF AcceptIncomingSequence
  <2>3. table' \in [listed -> Sequence]  BY <1>1, <2>1, <2>2
  <2> QED  BY <2>3 DEF Table
<1>12. UNCHANGED <<image, journalHealthy>>  BY DEF AcceptIncomingSequence
<1>13. i \in SlotsOf(p) /\ (i \in Cached(p) \/ Cached(p) = {})  BY <1>7 DEF IsEntry
<1>14. \A q \in Peer : \A c \in Cached(q)' :
          c # i => c \in Cached(q) /\ replay'[c] = replay[c]
  BY <1>7, <1>8, PeerFacts DEF Cached
<1>15. ASSUME NEW q \in Peer, i \in Cached(q)'  PROVE q = p
  <2>1. i \in SlotsOf(q) /\ replay'[i].sender = q.sender  BY <1>15 DEF Cached
  <2>2. replay'[i].sender = p.sender  BY <1>7, <1>8
  <2> QED  BY <1>13, <2>1, <2>2, PeerFacts, ZenonT(60)
<1>16. \A c \in Cached(p)' : c = i
  <2> SUFFICES ASSUME NEW c \in Cached(p)', c # i  PROVE FALSE  OBVIOUS
  <2>1. c \in Cached(p)  BY <1>14
  <2> QED  BY <1>13, <2>1 DEF Inv, OneSlotPerPeer
<1>17. OneSlotPerPeer'
  <2> SUFFICES ASSUME NEW q \in Peer, NEW c \in Cached(q)', NEW d \in Cached(q)'  PROVE c = d
    BY DEF OneSlotPerPeer
  <2>1. CASE q = p  BY <1>16, <2>1
  <2>2. CASE q # p
    <3>1. c # i /\ d # i  BY <1>15, <2>2
    <3>2. c \in Cached(q) /\ d \in Cached(q)  BY <1>14, <3>1
    <3> QED  BY <3>2 DEF Inv, OneSlotPerPeer
  <2> QED  BY <2>1, <2>2
<1>18. replay'[i].sequence = m  BY <1>7, <1>8
<1>19. \A q \in Peer : \A c \in Cached(q)' :
          \/ c \in Cached(q) /\ replay'[c] = replay[c] /\ q # p
          \/ q = p /\ replay'[c].sequence = m
  <2> SUFFICES ASSUME NEW q \in Peer, NEW c \in Cached(q)'
               PROVE  \/ c \in Cached(q) /\ replay'[c] = replay[c] /\ q # p
                      \/ q = p /\ replay'[c].sequence = m
    OBVIOUS
  <2>1. CASE q = p  BY <1>16, <1>18, <2>1
  <2>2. CASE q # p  BY <1>14, <1>15, <2>2
  <2> QED  BY <2>1, <2>2
<1> QED  BY <1>1, <1>2, <1>5, <1>10, <1>11, <1>12, <1>17, <1>19 DEF m

\* A synchronisation, or a telegram that was not accepted durably
LEMMA AcceptOnlyKeepsInv ==
    ASSUME Inv, NEW p \in Peer, NEW n, NEW write \in Write,
           AcceptIncomingSequence(p, n, write), UNCHANGED delivered
    PROVE  Inv'
<1>1. n > LastValid(p) /\ LastValid(p) \in Nat /\ n \in Nat  BY AcceptKeeps
<1>2. Covers(LastValid(p), p)  BY LastCovers
<1>3. \A q \in Peer : \A i \in 1 .. Len(delivered[q]) : delivered[q][i] \in Nat
  BY DEF Inv, TypeOK
<1>4. TypeOK'  BY AcceptKeeps DEF Inv, TypeOK
<1>5. DeliveredOnce'  BY DEF Inv, DeliveredOnce
<1>6. JournalCoversDelivered'
  <2> SUFFICES ASSUME NEW q \in Peer, NEW i \in 1 .. Len(delivered[q])
               PROVE  delivered[q][i] <= journal'[q]
    BY DEF JournalCoversDelivered
  <2>1. delivered[q][i] <= journal[q]  BY DEF Inv, JournalCoversDelivered
  <2>2. journal[q] \in Nat /\ journal'[q] \in Nat
    BY AcceptKeeps DEF Inv, TypeOK, Sequence
  <2>3. CASE journal'[q] >= journal[q]  BY <1>3, <2>1, <2>2, <2>3
  <2>4. CASE q = p /\ journal'[q] = n  BY <1>1, <1>2, <1>3, <2>4 DEF Covers
  <2> QED  BY <2>3, <2>4, AcceptKeeps
<1>7. CacheCoversDelivered'
  <2> SUFFICES ASSUME NEW q \in Peer, NEW c \in Cached(q)', NEW i \in 1 .. Len(delivered[q])
               PROVE  delivered[q][i] <= replay'[c].sequence
    BY DEF CacheCoversDelivered, Covers
  <2>1. CASE c \in Cached(q) /\ replay'[c] = replay[c]
    BY <2>1 DEF Inv, CacheCoversDelivered, Covers
  <2>2. CASE q = p /\ replay'[c].sequence = IF write = "ok" THEN n ELSE LastValid(p)
    BY <1>1, <1>2, <1>3, <2>2 DEF Covers
  <2> QED  BY <2>1, <2>2, AcceptKeeps
<1>8. OneSlotPerPeer'  BY AcceptKeeps
<1> QED  BY <1>4, <1>5, <1>6, <1>7, <1>8 DEF Inv

\* A telegram that was accepted durably is delivered.
LEMMA DeliveryKeepsInv ==
    ASSUME Inv, NEW p \in Peer, NEW n, AcceptIncomingSequence(p, n, "ok"),
           delivered' = [delivered EXCEPT ![p] = Append(@, n)]
    PROVE  Inv'
<1> DEFINE old == delivered[p]
<1>0. "ok" \in Write  BY DEF Write
<1>1. /\ n \in 1 .. MaxSequence /\ n > LastValid(p) /\ LastValid(p) \in Nat
      /\ journal' \in [Peer -> Sequence] /\ journal'[p] = n
  BY <1>0, AcceptKeeps
<1>2. old \in Seq(1 .. MaxSequence) /\ delivered \in [Peer -> Seq(1 .. MaxSequence)]
  BY DEF Inv, TypeOK
<1>3. \A i \in 1 .. Len(old) : old[i] \in Nat /\ old[i] < n
  BY <1>1, <1>2, LastCovers DEF Covers
<1>4. /\ delivered'[p] \in Seq(1 .. MaxSequence)
      /\ Len(delivered'[p]) = Len(old) + 1
      /\ \A i \in 1 .. Len(old) : delivered'[p][i] = old[i]
      /\ delivered'[p][Len(old) + 1] = n
  BY <1>1, <1>2
<1>5. Len(old) \in Nat  BY <1>2
<1>6. \A q \in Peer : q # p => delivered'[q] = delivered[q]  BY <1>2
<1>7. \A i \in 1 .. Len(delivered'[p]) : delivered'[p][i] \in Nat /\ delivered'[p][i] <= n
  <2> SUFFICES ASSUME NEW i \in 1 .. Len(delivered'[p])
               PROVE  delivered'[p][i] \in Nat /\ delivered'[p][i] <= n
    OBVIOUS
  <2>1. i \in 1 .. Len(old) \/ i = Len(old) + 1  BY <1>4, <1>5
  <2> QED  BY <1>1, <1>3, <1>4, <2>1
<1>8. TypeOK'
  <2>1. delivered' \in [Peer -> Seq(1 .. MaxSequence)]  BY <1>2, <1>4
  <2> QED  BY <1>0, <2>1, AcceptKeeps DEF Inv, TypeOK
<1>9. DeliveredOnce'
  <2> SUFFICES ASSUME NEW q \in Peer, NEW i \in 1 .. Len(delivered'[q]),
                      NEW j \in 1 .. Len(delivered'[q]), i < j
               PROVE  delivered'[q][i] < delivered'[q][j]
    BY DEF DeliveredOnce
  <2>1. CASE q # p  BY <1>6, <2>1 DEF Inv, DeliveredOnce
  <2>2. CASE q = p
    <3>1. i \in 1 .. Len(old)  BY <1>4, <1>5, <2>2
    <3>2. CASE j \in 1 .. Len(old)
      <4>1. old[i] < old[j]  BY <3>1, <3>2 DEF Inv, DeliveredOnce
      <4> QED  BY <1>4, <2>2, <3>1, <3>2, <4>1
    <3>3. CASE j = Len(old) + 1  BY <1>3, <1>4, <2>2, <3>1, <3>3
    <3> QED  BY <1>4, <1>5, <2>2, <3>2, <3>3
  <2> QED  BY <2>1, <2>2
<1>10. JournalCoversDelivered'
  <2> SUFFICES ASSUME NEW q \in Peer, NEW i \in 1 .. Len(delivered'[q])
               PROVE  delivered'[q][i] <= journal'[q]
    BY DEF JournalCoversDelivered
  <2>1. CASE q = p  BY <1>1, <1>7, <2>1
  <2>2. CASE q # p
    <3>1. journal'[q] >= journal[q]  BY <1>0, <2>2, AcceptKeeps
    <3>2. i \in 1 .. Len(delivered[q]) /\ delivered[q][i] <= journal[q] /\ delivered'[q] = delivered[q]
      BY <1>6, <2>2 DEF Inv, JournalCoversDelivered
    <3>3. delivered[q][i] \in Nat /\ journal[q] \in Nat /\ journal'[q] \in Nat
      <4>1. delivered[q] \in Seq(1 .. MaxSequence) /\ journal \in [Peer -> Sequence]
        BY DEF Inv, TypeOK
      <4> QED  BY <1>1, <3>2, <4>1, SMTT(60) DEF Sequence
    <3> QED  BY <3>1, <3>2, <3>3
  <2> QED  BY <2>1, <2>2
<1>11. CacheCoversDelivered'
  <2> SUFFICES ASSUME NEW q \in Peer, NEW c \in Cached(q)', NEW i \in 1 .. Len(delivered'[q])
               PROVE  delivered'[q][i] <= replay'[c].sequence
    BY DEF CacheCoversDelivered, Covers
  <2>1. CASE c \in Cached(q) /\ replay'[c] = replay[c] /\ q # p
    BY <1>6, <2>1 DEF Inv, CacheCoversDelivered, Covers
  <2>2. CASE q = p /\ replay'[c].sequence = n  BY <1>7, <2>2
  <2> QED  BY <1>0, <2>1, <2>2, AcceptKeeps
<1>12. OneSlotPerPeer'  BY <1>0, AcceptKeeps
<1> QED  BY <1>8, <1>9, <1>10, <1>11, <1>12 DEF Inv

-----------------------------------------------------------------------------
\* A telegram that is not accepted raises a cached number at most.
LEMMA QueryKeepsInv ==
    ASSUME Inv, NEW p \in Peer, ReceiveUnauthenticated(p)
    PROVE  Inv'
<1>1. replay \in [Slot -> ReplaySlot] /\ LastValid(p) \in Sequence /\ Covers(LastValid(p), p)
  BY LastCovers DEF Inv, TypeOK
<1>2. replay' = [i \in Slot |-> IF i \in Cached(p) THEN [replay[i] EXCEPT !.sequence = LastValid(p)] ELSE replay[i]]
  BY DEF ReceiveUnauthenticated, Queried
<1>3. UNCHANGED <<table, image, journal, journalHealthy, delivered>>  BY DEF ReceiveUnauthenticated
<1>4. /\ replay' \in [Slot -> ReplaySlot]
      /\ \A i \in Slot : replay'[i].sender = replay[i].sender
      /\ \A i \in Slot : replay'[i].sequence = IF i \in Cached(p) THEN LastValid(p) ELSE replay[i].sequence
  BY <1>1, <1>2 DEF ReplaySlot
<1>5. \A q \in Peer : Cached(q)' = Cached(q)  BY <1>4, PeerFacts DEF Cached
<1>6. TypeOK'  BY <1>3, <1>4 DEF Inv, TypeOK
<1>7. CacheCoversDelivered'
  <2> SUFFICES ASSUME NEW q \in Peer, NEW c \in Cached(q)  PROVE Covers(replay'[c].sequence, q)
    BY <1>3, <1>5 DEF CacheCoversDelivered, Covers
  <2>1. c \in SlotsOf(q) /\ c \in Slot /\ replay[c].sender = q.sender  BY PeerFacts DEF Cached
  <2>2. CASE c \in Cached(p)
    <3>1. q = p  BY <2>1, <2>2, PeerFacts DEF Cached
    <3> QED  BY <1>1, <1>4, <2>1, <2>2, <3>1
  <2>3. CASE c \notin Cached(p)  BY <1>4, <2>1, <2>3 DEF Inv, CacheCoversDelivered
  <2> QED  BY <2>2, <2>3
<1>8. OneSlotPerPeer'  BY <1>5 DEF Inv, OneSlotPerPeer
<1>9. DeliveredOnce' /\ JournalCoversDelivered'
  BY <1>3 DEF Inv, DeliveredOnce, JournalCoversDelivered
<1> QED  BY <1>6, <1>7, <1>8, <1>9 DEF Inv

LEMMA TableFacts ==
    /\ NoTable \in Table
    /\ \A old, a \in Sender, n \in Sequence : WriteTable(old, a, n) /\ table \in Table => table' \in Table
<1>1. NoTable \in [{} -> Sequence]  BY DEF NoTable
<1>2. NoTable \in Table  BY <1>1 DEF Table
<1>3. ASSUME NEW old \in Sender, NEW a \in Sender, NEW n \in Sequence, WriteTable(old, a, n), table \in Table
      PROVE  table' \in Table
  <2>1. PICK listed \in SUBSET Sender : table \in [listed -> Sequence]  BY <1>3 DEF Table
  <2>2. table' = [b \in (listed \ {old}) \cup {a} |-> IF b = a THEN n ELSE table[b]]
    BY <1>3, <2>1 DEF WriteTable
  <2>3. table' \in [(listed \ {old}) \cup {a} -> Sequence]  BY <1>3, <2>1, <2>2
  <2> QED  BY <2>3 DEF Table
<1> QED  BY <1>2, <1>3

\* Steps that touch neither journal nor deliveries, and keep or empty the cache
LEMMA OthersKeepInv ==
    ASSUME Inv, UNCHANGED <<journal, delivered>>,
           replay' = replay \/ replay' = [i \in Slot |-> EmptySlot],
           table' \in Table, image' \in Table, journalHealthy' \in BOOLEAN
    PROVE  Inv'
<1>1. EmptySlot \in ReplaySlot  BY DEF EmptySlot, ReplaySlot, Sequence
<1>2. TypeOK'  BY <1>1 DEF Inv, TypeOK
<1>3. DeliveredOnce' /\ JournalCoversDelivered'  BY DEF Inv, DeliveredOnce, JournalCoversDelivered
<1>4. CacheCoversDelivered' /\ OneSlotPerPeer'
  <2>1. CASE replay' = replay
    BY <2>1 DEF Inv, CacheCoversDelivered, OneSlotPerPeer, Covers, Cached
  <2>2. CASE replay' = [i \in Slot |-> EmptySlot]
    <3>1. \A q \in Peer : Cached(q)' = {}  BY <2>2, PeerFacts DEF Cached, EmptySlot
    <3> QED  BY <3>1 DEF CacheCoversDelivered, OneSlotPerPeer
  <2> QED  BY <2>1, <2>2
<1> QED  BY <1>2, <1>3, <1>4 DEF Inv

LEMMA InvInductive == Inv /\ [Next]_vars => Inv'
<1> SUFFICES ASSUME Inv, [Next]_vars  PROVE Inv'  OBVIOUS
<1>0. table \in Table /\ image \in Table /\ journalHealthy \in BOOLEAN  BY DEF Inv, TypeOK
<1>1. ASSUME NEW p \in Peer, NEW n \in Sequence, ReceiveData(p, n)  PROVE Inv'
  <2>1. PICK write \in Write :
           /\ AcceptIncomingSequence(p, n, write)
           /\ delivered' = IF write = "ok" THEN [delivered EXCEPT ![p] = Append(@, n)] ELSE delivered
    BY <1>1 DEF ReceiveData
  <2>2. CASE write = "ok"  BY <2>1, <2>2, DeliveryKeepsInv
  <2>3. CASE write # "ok"  BY <2>1, <2>3, AcceptOnlyKeepsInv
  <2> QED  BY <2>2, <2>3
<1>2. ASSUME NEW p \in Peer, NEW next \in Sequence, ReceiveSync(p, next)  PROVE Inv'
  BY <1>2, AcceptOnlyKeepsInv DEF ReceiveSync
<1>3. ASSUME NEW p \in Peer, ReceiveUnauthenticated(p)  PROVE Inv'
  BY <1>3, QueryKeepsInv
<1>4. ASSUME NEW old \in Sender, NEW a \in Sender, NEW n \in Sequence, WriteTable(old, a, n)  PROVE Inv'
  <2>1. table' \in Table  BY <1>0, <1>4, TableFacts
  <2>2. UNCHANGED <<replay, image, journal, journalHealthy, delivered>>  BY <1>4 DEF WriteTable
  <2> QED  BY <1>0, <2>1, <2>2, OthersKeepInv
<1>5. CASE ClearTable  BY <1>0, <1>5, TableFacts, OthersKeepInv DEF ClearTable
<1>6. CASE Save  BY <1>0, <1>6, OthersKeepInv DEF Save
<1>7. CASE MasterReset  BY <1>0, <1>7, TableFacts, OthersKeepInv DEF MasterReset
<1>8. CASE PowerCycle
  <2>1. table' \in Table  BY <1>0, <1>8, TableFacts DEF PowerCycle
  <2> QED  BY <1>0, <1>8, <2>1, OthersKeepInv DEF PowerCycle
<1>9. CASE UNCHANGED vars  BY <1>0, <1>9, OthersKeepInv DEF vars
<1> QED  BY <1>1, <1>2, <1>3, <1>4, <1>5, <1>6, <1>7, <1>8, <1>9 DEF Next

\* The invariant holds in every reachable state.
THEOREM InvAlways == Spec => []Inv
<1>1. Init => Inv
  <2> SUFFICES ASSUME Init PROVE Inv  OBVIOUS
  <2>1. EmptySlot \in ReplaySlot /\ 0 \in Sequence  BY DEF EmptySlot, ReplaySlot, Sequence
  <2>2. TypeOK  BY <2>1, TableFacts DEF Init, TypeOK
  <2>3. \A p \in Peer : Len(delivered[p]) = 0 /\ Cached(p) = {}
    BY PeerFacts DEF Init, Cached, EmptySlot
  <2> QED  BY <2>2, <2>3 DEF Inv, DeliveredOnce, JournalCoversDelivered, CacheCoversDelivered, OneSlotPerPeer
<1> QED  BY <1>1, InvInductive, PTL DEF Spec

\* TypeOK for every set of senders and every number of slots.
THEOREM TypeCorrect == Spec => []TypeOK
<1>1. Inv => TypeOK  BY DEF Inv
<1> QED  BY <1>1, InvAlways, PTL

\* No telegram is delivered twice or after a later one, whatever is evicted, lost
\* with the power, or written by ETS.
THEOREM AlwaysDeliveredOnce == Spec => []DeliveredOnce
<1>1. Inv => DeliveredOnce  BY DEF Inv
<1> QED  BY <1>1, InvAlways, PTL

\* The journal covers what was delivered.
THEOREM JournalAlwaysCovers == Spec => []JournalCoversDelivered
<1>1. Inv => JournalCoversDelivered  BY DEF Inv
<1> QED  BY <1>1, InvAlways, PTL

\* No sender occupies two slots of its domain.
THEOREM AlwaysOneSlot == Spec => []OneSlotPerPeer
<1>1. Inv => OneSlotPerPeer  BY DEF Inv
<1> QED  BY <1>1, InvAlways, PTL

\* The floor that ETS configured binds every delivery, cached or not.
THEOREM FloorAlwaysHonoured == Spec => FloorHonoured
<1> DEFINE A == \A p \in Peer :
               delivered'[p] # delivered[p] =>
                  delivered'[p][Len(delivered'[p])] > ReplayFloor(p)
<1>1. Inv /\ [Next]_vars => [A]_vars
  <2> SUFFICES ASSUME Inv, Next, NEW p \in Peer, delivered'[p] # delivered[p]
               PROVE  delivered'[p][Len(delivered'[p])] > ReplayFloor(p)
    OBVIOUS
  <2>1. delivered \in [Peer -> Seq(1 .. MaxSequence)]  BY DEF Inv, TypeOK
  <2>2. delivered' # delivered  OBVIOUS
  <2>3. PICK q \in Peer, n \in Sequence : ReceiveData(q, n)
    BY <2>2 DEF Next, ReceiveSync, ReceiveUnauthenticated, WriteTable, ClearTable, Save, MasterReset, PowerCycle
  <2>4. /\ delivered' = [delivered EXCEPT ![q] = Append(@, n)]
        /\ n > LastValid(q)
    BY <2>2, <2>3 DEF ReceiveData, AcceptIncomingSequence
  <2>5. q = p  BY <2>1, <2>4
  <2>6. delivered'[p] = Append(delivered[p], n) /\ delivered[p] \in Seq(1 .. MaxSequence)
    BY <2>1, <2>4, <2>5
  <2>7. n \in 1 .. MaxSequence
    BY <2>3, <2>4, LastCovers DEF Sequence
  <2>8. delivered'[p][Len(delivered'[p])] = n  BY <2>6, <2>7
  <2>9. ReplayFloor(p) \in Sequence /\ LastValid(p) \in Sequence /\ LastValid(p) >= ReplayFloor(p)
    BY FloorType, LastCovers DEF Inv
  <2> QED  BY <2>4, <2>5, <2>7, <2>8, <2>9 DEF Sequence
<1> QED  BY <1>1, InvAlways, PTL DEF Spec, FloorHonoured

\* Nothing is delivered twice, and the journal alone would see to it.
THEOREM ReplayAlwaysSafe == Spec => []ReplaySafe
BY AlwaysDeliveredOnce, JournalAlwaysCovers, PTL DEF ReplaySafe

=============================================================================
