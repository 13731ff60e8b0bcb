---------------------------- MODULE ObjectsProofs ----------------------------
(***************************************************************************)
(* What ETS programs and what runs on it.                                  *)
(*                                                                         *)
(* Group objects: for every number of objects, every association table and *)
(* every setting of the flags one group telegram at most is outstanding    *)
(* and its object is the pending one, no object is stuck in Transmitting,  *)
(* and no write that the application asked for is forgotten.               *)
(* PendingInFlight and TransmittingIsPending are not inductive alone: that *)
(* a second telegram is not sent from within the updated handler, or after *)
(* a lost confirmation, needs ScanIdle; that a confirmation does not end a *)
(* newer request needs RequestIsNewer.                                     *)
(*                                                                         *)
(* Tables: for any tables, any number of pages, erase blocks of any size   *)
(* and any number of events no order of allocations, unloads, resets and   *)
(* losses of power loses memory or gives it out twice, a table in use has  *)
(* its content, and a restart finds the last download that was saved.      *)
(***************************************************************************)
EXTENDS MCObjects, FiniteSetTheorems, SequenceTheorems, TLAPS

-----------------------------------------------------------------------------
(* Group objects *)

\* While the scan runs nothing is pending; a lost confirmation leaves its object pending.
ScanIdle ==
    /\ callback # 0 => at = callback
    /\ at # 0 => pendingAsap = 0 /\ loaded
    /\ orphaned => pendingAsap # 0

\* A request of the pending object is not the one that is being transmitted.
RequestIsNewer ==
    (pendingAsap # 0 /\ flag[pendingAsap] \in Request) =>
        revision[pendingAsap] # pendingRevision

\* What waits to be written was given a value.
WriteInitialized == \A a \in Asap : flag[a] = "WriteRequest" => initialized[a]

Inv ==
    /\ TypeOK
    /\ PendingInFlight /\ TransmittingIsPending
    /\ ScanIdle /\ RequestIsNewer /\ WriteInitialized

-----------------------------------------------------------------------------
\* The next revision is a revision and differs from the one before.
LEMMA RevisionAdvances ==
    ASSUME NEW r \in 0 .. MaxRevision
    PROVE  NextRevision(r) \in 0 .. MaxRevision /\ NextRevision(r) # r
BY GroupAssumption DEF NextRevision

\* A list of one telegram: appending to the empty list, and taking it off again.
LEMMA OneTelegram ==
    ASSUME NEW e \in Telegram
    PROVE  /\ Append(<<>>, e) \in Seq(Telegram)
           /\ Len(Append(<<>>, e)) = 1
           /\ Head(Append(<<>>, e)) = e
OBVIOUS

LEMMA TakenOff ==
    ASSUME NEW s \in Seq(Telegram), s # <<>>
    PROVE  /\ Tail(s) \in Seq(Telegram)
           /\ Head(s) \in Telegram
           /\ Len(s) = 1 => Tail(s) = <<>>
<1>1. Head(s) \in Telegram /\ Tail(s) \in Seq(Telegram) /\ Len(Tail(s)) = Len(s) - 1
    BY HeadTailProperties
<1> QED
    BY <1>1, EmptySeq

\* Whom the device's own telegrams reach.
LEMMA ReachedObjects ==
    /\ \A t : TakesWrite(t) \subseteq Asap /\ TakesResponse(t) \subseteq Asap
    /\ \A R : Updated(R) \subseteq Asap
<1>1. \A t : TakesWrite(t) \subseteq Asap /\ TakesResponse(t) \subseteq Asap
    BY DEF TakesWrite, TakesResponse, Linked
<1>2. ASSUME NEW R
      PROVE  Updated(R) \subseteq Asap
    BY <1>1 DEF Updated
<1> QED
    BY <1>1, <1>2

\* Loopback leaves every flag alone or makes it Updated, and never a request to
\* write or a telegram in transmission.
LEMMA LoopbackFlags ==
    ASSUME NEW f \in [Asap -> ComFlag], NEW i \in [Asap -> BOOLEAN], NEW v \in SUBSET Asap,
           NEW U \in SUBSET Asap, Loopback(f, i, v, U)
    PROVE  /\ flag' \in [Asap -> ComFlag]
           /\ initialized' \in [Asap -> BOOLEAN]
           /\ valued' \subseteq Asap
           /\ \A a \in Asap : (i[a] => initialized'[a])
           /\ \A a \in Asap : \/ flag'[a] = f[a]
                              \/ flag'[a] = "Updated" /\ f[a] \notin {"WriteRequest", "Transmitting"}
<1>1. flag' = [a \in Asap |-> IF a \in U /\ IsOpen(f[a]) THEN "Updated" ELSE f[a]]
    BY DEF Loopback, AfterLoopback
<1>2. flag' \in [Asap -> ComFlag]
    BY <1>1 DEF ComFlag
<1>3. initialized' = [a \in Asap |-> i[a] \/ a \in Reached(f, U)]
    BY DEF Loopback
<1>4. initialized' \in [Asap -> BOOLEAN]
    BY <1>3
<1>5. \A a \in Asap : i[a] => initialized'[a]
    BY <1>3
<1>6. valued' \subseteq Asap
    BY DEF Loopback, Reached
<1>7. \A a \in Asap : \/ flag'[a] = f[a]
                      \/ flag'[a] = "Updated" /\ f[a] \notin {"WriteRequest", "Transmitting"}
    BY <1>1 DEF IsOpen
<1> QED
    BY <1>2, <1>4, <1>5, <1>6, <1>7

-----------------------------------------------------------------------------
\* A step of the objects alone (the application's calls, telegrams from the bus)
\* keeps the invariant when a flag that changes becomes one of a request with a new
\* revision, or one that nobody waits for.
LEMMA ObjectStep ==
    ASSUME Inv, UNCHANGED Others,
           flag' \in [Asap -> ComFlag],
           initialized' \in [Asap -> BOOLEAN],
           revision' \in [Asap -> 0 .. MaxRevision],
           valued' \subseteq Asap,
           \A a \in Asap : initialized[a] => initialized'[a],
           \A a \in Asap :
              \/ flag'[a] = flag[a] /\ revision'[a] = revision[a]
              \/ flag'[a] \in {"Ok", "Updated"}
              \/ /\ flag'[a] \in Request
                 /\ pendingAsap = a => revision'[a] # pendingRevision
                 /\ flag'[a] = "WriteRequest" => initialized'[a]
    PROVE  Inv'
<1>1. TypeOK'
    BY DEF Inv, TypeOK, Others, loop, pending
<1>2. PendingInFlight'
    BY DEF Inv, PendingInFlight, Others, loop, pending
<1>3. TransmittingIsPending'
    BY DEF Inv, TransmittingIsPending, Others, loop, pending, Request
<1>4. ScanIdle'
    BY DEF Inv, ScanIdle, Others, loop, pending
<1>5. RequestIsNewer'
    BY DEF Inv, TypeOK, RequestIsNewer, Others, loop, pending, Request
<1>6. WriteInitialized'
    BY DEF Inv, WriteInitialized, Others
<1> QED
    BY <1>1, <1>2, <1>3, <1>4, <1>5, <1>6 DEF Inv

LEMMA ApplicationStep ==
    ASSUME Inv, Application
    PROVE  Inv'
<1> USE DEF Inv, TypeOK
<1>1. \A r \in 0 .. MaxRevision : NextRevision(r) \in 0 .. MaxRevision
    BY RevisionAdvances
<1>2. ASSUME NEW a \in Asap, ObjectWritten(a)
      PROVE  Inv'
    <2>1. flag' \in [Asap -> ComFlag] /\ UNCHANGED Others
        BY <1>2 DEF ObjectWritten, ComFlag, Request
    <2>2. initialized' \in [Asap -> BOOLEAN] /\ revision' \in [Asap -> 0 .. MaxRevision]
        BY <1>1, <1>2 DEF ObjectWritten
    <2>3. valued' \subseteq Asap
        BY <1>2 DEF ObjectWritten
    <2>4. \A b \in Asap : initialized[b] => initialized'[b]
        BY <1>2 DEF ObjectWritten
    <2>5. \A b \in Asap :
              \/ flag'[b] = flag[b] /\ revision'[b] = revision[b]
              \/ /\ flag'[b] \in Request
                 /\ pendingAsap = b => revision'[b] # pendingRevision
                 /\ flag'[b] = "WriteRequest" => initialized'[b]
        BY <1>2 DEF ObjectWritten, RevisionLeft, Request
    <2> QED
        BY <2>1, <2>2, <2>3, <2>4, <2>5, ObjectStep
<1>3. ASSUME NEW a \in Asap, RequestObjectRead(a)
      PROVE  Inv'
    <2>1. flag' \in [Asap -> ComFlag] /\ UNCHANGED Others
        BY <1>3 DEF RequestObjectRead, ComFlag, Request
    <2>2. initialized' = initialized /\ valued' = valued
        BY <1>3 DEF RequestObjectRead
    <2>3. revision' \in [Asap -> 0 .. MaxRevision]
        BY <1>1, <1>3 DEF RequestObjectRead
    <2>4. \A b \in Asap :
              \/ flag'[b] = flag[b] /\ revision'[b] = revision[b]
              \/ /\ flag'[b] = "ReadRequest"
                 /\ pendingAsap = b => revision'[b] # pendingRevision
        BY <1>3 DEF RequestObjectRead, RevisionLeft
    <2>5. \A b \in Asap :
              \/ flag'[b] = flag[b] /\ revision'[b] = revision[b]
              \/ /\ flag'[b] \in Request
                 /\ pendingAsap = b => revision'[b] # pendingRevision
                 /\ flag'[b] = "WriteRequest" => initialized'[b]
        BY <2>4 DEF Request
    <2> QED
        BY <2>1, <2>2, <2>3, <2>5, ObjectStep
<1>4. ASSUME NEW a \in Asap, CancelPendingWrite(a) \/ ValueNoSend(a) \/ Processed(a)
      PROVE  Inv'
    <2>1. flag' = [flag EXCEPT ![a] = "Ok"] /\ UNCHANGED Others
        BY <1>4 DEF CancelPendingWrite, ValueNoSend, Processed
    <2>2. flag' \in [Asap -> ComFlag]
        BY <2>1 DEF ComFlag
    <2>3. initialized' \in [Asap -> BOOLEAN] /\ valued' \subseteq Asap
        BY <1>4 DEF CancelPendingWrite, ValueNoSend, Processed
    <2>0. \/ revision' = [revision EXCEPT ![a] = NextRevision(@)]
          \/ revision' = revision
        BY <1>4 DEF CancelPendingWrite, ValueNoSend, Processed
    <2>4. revision' \in [Asap -> 0 .. MaxRevision]
        <3>1. revision \in [Asap -> 0 .. MaxRevision]
            OBVIOUS
        <3>2. NextRevision(revision[a]) \in 0 .. MaxRevision
            BY <1>1, <3>1
        <3> HIDE DEF Inv, TypeOK
        <3> QED
            BY <2>0, <3>1, <3>2
    <2>5. \A b \in Asap : initialized[b] => initialized'[b]
        BY <1>4 DEF CancelPendingWrite, ValueNoSend, Processed
    <2>6. \A b \in Asap : b # a => revision'[b] = revision[b]
        BY <2>0
    <2>7. \A b \in Asap :
              \/ flag'[b] = flag[b] /\ revision'[b] = revision[b]
              \/ flag'[b] \in {"Ok", "Updated"}
        BY <2>1, <2>6
    <2> QED
        BY <2>1, <2>2, <2>3, <2>4, <2>5, <2>7, ObjectStep
<1> QED
    BY <1>2, <1>3, <1>4 DEF Application

LEMMA IndicationStep ==
    ASSUME Inv, NEW t \in Tsap, BusWrite(t) \/ BusResponse(t) \/ BusRead(t)
    PROVE  Inv'
<1> USE DEF Inv, TypeOK
<1>1. \A r \in 0 .. MaxRevision : NextRevision(r) \in 0 .. MaxRevision
    BY RevisionAdvances
<1>2. ASSUME NEW U \in SUBSET Asap, FromBus(U)
      PROVE  Inv'
    <2>1. flag' \in [Asap -> ComFlag] /\ UNCHANGED Others
        BY <1>2 DEF FromBus, ComFlag
    <2>2. initialized' \in [Asap -> BOOLEAN] /\ valued' \subseteq Asap
        BY <1>2 DEF FromBus
    <2>3. revision' \in [Asap -> 0 .. MaxRevision]
        BY <1>1, <1>2 DEF FromBus
    <2>4. \A a \in Asap : initialized[a] => initialized'[a]
        BY <1>2 DEF FromBus
    <2>5. \A a \in Asap :
              \/ flag'[a] = flag[a] /\ revision'[a] = revision[a]
              \/ flag'[a] \in {"Ok", "Updated"}
        BY <1>2 DEF FromBus
    <2> QED
        BY <2>1, <2>2, <2>3, <2>4, <2>5, ObjectStep
<1>3. CASE BusRead(t)
    <2>1. PICK R \in SUBSET Asap : Loopback(flag, initialized, valued, Updated(R))
        BY <1>3 DEF BusRead
    <2>2. /\ flag' \in [Asap -> ComFlag]
          /\ initialized' \in [Asap -> BOOLEAN]
          /\ valued' \subseteq Asap
          /\ \A a \in Asap : initialized[a] => initialized'[a]
          /\ \A a \in Asap : flag'[a] = flag[a] \/ flag'[a] = "Updated"
        BY <2>1, ReachedObjects, LoopbackFlags
    <2>3. revision' = revision /\ UNCHANGED Others
        BY <1>3 DEF BusRead
    <2> QED
        BY <2>2, <2>3, ObjectStep
<1> QED
    BY <1>2, <1>3, ReachedObjects DEF BusWrite, BusResponse

-----------------------------------------------------------------------------
\* When an object's turn comes nothing is outstanding, lost or transmitting.
LEMMA TurnFacts ==
    ASSUME Inv, NEW a \in Asap, NEW kind \in Request, IsTurn(a, kind)
    PROVE  /\ pendingAsap = 0 /\ loaded /\ ~orphaned /\ tx = <<>>
           /\ \A b \in Asap : flag[b] # "Transmitting"
<1>1. 0 \notin Asap
    BY DEF Asap
<1>2. pendingAsap = 0 /\ loaded
    BY <1>1 DEF IsTurn, MaySend, Inv, ScanIdle
<1>3. ~orphaned /\ tx = <<>>
    BY <1>2 DEF Inv, ScanIdle, PendingInFlight
<1>4. \A b \in Asap : flag[b] # "Transmitting"
    BY <1>1, <1>2 DEF Inv, TransmittingIsPending
<1> QED
    BY <1>2, <1>3, <1>4

\* What an object's turn does to the flags: its own becomes what the link says, the
\* others are left alone or Updated.
LEMMA SendFlags ==
    ASSUME Inv, NEW a \in Asap, NEW kind \in Request, NEW link \in Link, Send(a, kind, link)
    PROVE  /\ flag' \in [Asap -> ComFlag]
           /\ initialized' \in [Asap -> BOOLEAN]
           /\ valued' \subseteq Asap
           /\ \A b \in Asap : initialized[b] => initialized'[b]
           /\ flag'[a] \in {FlagAfter(link), "Updated"}
           /\ \A b \in Asap \ {a} :
                 \/ flag'[b] = flag[b]
                 \/ flag'[b] = "Updated" /\ flag[b] # "WriteRequest"
<1> DEFINE f == Flagged(a, link)
           i == Known(a, link)
<1>1. FlagAfter(link) \in {"Transmitting", "Ok", "Error"}
    BY DEF FlagAfter, Link
<1>2. f \in [Asap -> ComFlag] /\ f[a] = FlagAfter(link) /\ \A b \in Asap \ {a} : f[b] = flag[b]
    BY <1>1 DEF Inv, TypeOK, Flagged, ComFlag
<1>3. i \in [Asap -> BOOLEAN] /\ \A b \in Asap : initialized[b] => i[b]
    BY DEF Inv, TypeOK, Known
<1>4. PICK U \in SUBSET Asap : Loopback(f, i, valued, U)
    BY ReachedObjects DEF Send
<1>5. valued \in SUBSET Asap
    BY DEF Inv, TypeOK
<1> HIDE DEF f, i
<1>6. /\ flag' \in [Asap -> ComFlag]
      /\ initialized' \in [Asap -> BOOLEAN]
      /\ valued' \subseteq Asap
      /\ \A b \in Asap : i[b] => initialized'[b]
      /\ \A b \in Asap : \/ flag'[b] = f[b]
                         \/ flag'[b] = "Updated" /\ f[b] \notin {"WriteRequest", "Transmitting"}
    BY <1>2, <1>3, <1>4, <1>5, LoopbackFlags
<1> QED
    BY <1>2, <1>3, <1>6

LEMMA SendStep ==
    ASSUME Inv, NEW a \in Asap, NEW kind \in Request, NEW link \in Link, Send(a, kind, link)
    PROVE  Inv'
<1>1. /\ pendingAsap = 0 /\ loaded /\ ~orphaned /\ tx = <<>>
      /\ \A b \in Asap : flag[b] # "Transmitting"
    BY TurnFacts DEF Send
<1>2. /\ flag' \in [Asap -> ComFlag]
      /\ initialized' \in [Asap -> BOOLEAN]
      /\ valued' \subseteq Asap
      /\ \A b \in Asap : initialized[b] => initialized'[b]
      /\ flag'[a] \in {FlagAfter(link), "Updated"}
      /\ \A b \in Asap \ {a} :
            \/ flag'[b] = flag[b]
            \/ flag'[b] = "Updated" /\ flag[b] # "WriteRequest"
    BY SendFlags
<1>3. /\ at' = 0 /\ callback' = 0 /\ nextGroupAsap' = a + 1
      /\ revision' = revision /\ loaded' = loaded /\ orphaned' = orphaned
    BY DEF Send, StartAfter
<1>4. nextGroupAsap' \in 1 .. EntryCount + 1 /\ a # 0
    BY <1>3, GroupAssumption DEF Asap
<1>5. revision \in [Asap -> 0 .. MaxRevision] /\ saved \in [Request -> Asap \cup {0}]
    BY DEF Inv, TypeOK
<1>6. loaded' \in BOOLEAN /\ orphaned' \in BOOLEAN
    BY <1>3 DEF Inv, TypeOK
<1>7. 0 \in 0 .. EntryCount + 1 /\ revision[a] \in 0 .. MaxRevision
    BY <1>5, GroupAssumption
<1>8. CASE link = "queued"
    <2> DEFINE e == [kind |-> kind, asap |-> a, revision |-> revision[a], decodable |-> TRUE]
    <2>1. /\ pendingAsap' = a /\ pendingRevision' = revision[a] /\ pendingKind' = kind
          /\ saved' = [saved EXCEPT ![kind] = a]
          /\ tx' = Append(<<>>, e)
        BY <1>1, <1>8 DEF Send, Handed
    <2>2. e \in Telegram /\ e.kind = kind /\ e.asap = a /\ e.revision = revision[a]
        BY <1>5 DEF Telegram
    <2> HIDE DEF e
    <2>3. tx' \in Seq(Telegram) /\ Len(tx') = 1 /\ Head(tx') = e
        BY <2>1, <2>2, OneTelegram
    <2>4. flag'[a] \in {"Transmitting", "Updated"}
        BY <1>2, <1>8 DEF FlagAfter
    <2>0. saved' \in [Request -> Asap \cup {0}] /\ saved'[kind] = a
        BY <1>5, <2>1
    <2>5. TypeOK'
        BY <1>6, <1>7, <1>2, <1>3, <1>4, <1>5, <2>0, <2>1, <2>3 DEF TypeOK
    <2>6. PendingInFlight'
        BY <1>1, <1>3, <1>4, <2>1, <2>2, <2>3, <2>0 DEF PendingInFlight
    <2>7. TransmittingIsPending'
        BY <1>1, <1>2, <1>3, <2>1 DEF TransmittingIsPending
    <2>8. ScanIdle'
        BY <1>1, <1>3 DEF ScanIdle
    <2>9. RequestIsNewer'
        BY <2>1, <2>4 DEF RequestIsNewer, Request
    <2>10. WriteInitialized'
        BY <1>2, <2>4 DEF Inv, WriteInitialized
    <2> QED
        BY <2>5, <2>6, <2>7, <2>8, <2>9, <2>10 DEF Inv
<1>9. CASE link # "queued"
    <2>1. /\ pendingAsap' = 0 /\ pendingRevision' = revision[a] /\ pendingKind' = "Ok"
          /\ saved' = [saved EXCEPT ![kind] = 0]
          /\ tx' = tx
        BY <1>9 DEF Send, Handed
    <2>2. flag'[a] \in {"Ok", "Error", "Updated"}
        BY <1>2, <1>9 DEF FlagAfter, Link
    <2>0. saved' \in [Request -> Asap \cup {0}] /\ tx' \in Seq(Telegram)
        BY <1>5, <2>1 DEF Inv, TypeOK
    <2>3. TypeOK'
        BY <1>6, <1>7, <1>2, <1>3, <1>4, <1>5, <2>0, <2>1 DEF TypeOK
    <2>4. PendingInFlight'
        BY <1>1, <2>1 DEF PendingInFlight
    <2>5. TransmittingIsPending'
        BY <1>1, <1>2, <2>2 DEF TransmittingIsPending
    <2>6. ScanIdle'
        BY <1>1, <1>3 DEF ScanIdle
    <2>7. RequestIsNewer'
        BY <2>1 DEF RequestIsNewer
    <2>8. WriteInitialized'
        BY <1>2, <2>2 DEF Inv, WriteInitialized
    <2> QED
        BY <2>3, <2>4, <2>5, <2>6, <2>7, <2>8 DEF Inv
<1> QED
    BY <1>8, <1>9

\* The scan without a telegram: its end, the updated handler, an object that may not send
LEMMA ScanStep ==
    ASSUME Inv,
           \/ ScanEnds
           \/ \E a \in Asap : CallHandler(a)
           \/ \E a \in Asap, kind \in Request : Refuse(a, kind)
    PROVE  Inv'
<1>1. CASE ScanEnds
    <2>1. /\ UNCHANGED <<object, callback, pending, saved, tx, loaded, orphaned>>
          /\ nextGroupAsap' = 1 /\ at' = 0 /\ callback = 0
        BY <1>1 DEF ScanEnds, MaySend
    <2>2. TypeOK'
        BY <2>1, GroupAssumption DEF Inv, TypeOK, object, pending
    <2>3. PendingInFlight' /\ TransmittingIsPending' /\ RequestIsNewer' /\ WriteInitialized'
        BY <2>1 DEF Inv, PendingInFlight, TransmittingIsPending, RequestIsNewer, WriteInitialized,
                    object, pending
    <2>4. ScanIdle'
        BY <2>1 DEF Inv, ScanIdle, pending
    <2> QED
        BY <2>2, <2>3, <2>4 DEF Inv
<1>2. ASSUME NEW a \in Asap, CallHandler(a)
      PROVE  Inv'
    <2>1. /\ UNCHANGED <<object, nextGroupAsap, pending, saved, tx, loaded, orphaned>>
          /\ at' = a /\ callback' = a /\ pendingAsap = 0 /\ loaded
        BY <1>2 DEF CallHandler, MaySend
    <2>2. a \in 0 .. EntryCount + 1
        BY GroupAssumption DEF Asap
    <2>3. TypeOK'
        BY <2>1, <2>2 DEF Inv, TypeOK, object, pending
    <2>4. PendingInFlight' /\ TransmittingIsPending' /\ RequestIsNewer' /\ WriteInitialized'
        BY <2>1 DEF Inv, PendingInFlight, TransmittingIsPending, RequestIsNewer, WriteInitialized,
                    object, pending
    <2>5. ScanIdle'
        BY <2>1 DEF Inv, ScanIdle, pending
    <2> QED
        BY <2>3, <2>4, <2>5 DEF Inv
<1>3. ASSUME NEW a \in Asap, NEW kind \in Request, Refuse(a, kind)
      PROVE  Inv'
    <2>1. /\ pendingAsap = 0 /\ loaded /\ ~orphaned /\ tx = <<>>
          /\ \A b \in Asap : flag[b] # "Transmitting"
        BY <1>3, TurnFacts DEF Refuse
    <2>2. /\ flag' = [flag EXCEPT ![a] = "Error"]
          /\ pendingAsap' = 0 /\ pendingRevision' = revision[a] /\ pendingKind' = "Ok"
          /\ at' = a + 1 /\ callback' = 0
          /\ UNCHANGED <<initialized, revision, valued, nextGroupAsap, saved, tx, loaded, orphaned>>
        BY <1>3 DEF Refuse
    <2>3. a + 1 \in 0 .. EntryCount + 1
        BY GroupAssumption DEF Asap
    <2>4. flag' \in [Asap -> ComFlag]
        BY <2>2 DEF Inv, TypeOK, ComFlag
    <2>5. TypeOK'
        BY <2>2, <2>3, <2>4 DEF Inv, TypeOK
    <2>6. PendingInFlight' /\ RequestIsNewer' /\ ScanIdle'
        BY <2>1, <2>2 DEF PendingInFlight, RequestIsNewer, ScanIdle
    <2>7. \A b \in Asap : flag'[b] = flag[b] \/ flag'[b] = "Error"
        BY <2>2 DEF Inv, TypeOK
    <2>8. TransmittingIsPending' /\ WriteInitialized'
        BY <2>1, <2>2, <2>7 DEF Inv, TransmittingIsPending, WriteInitialized
    <2> QED
        BY <2>5, <2>6, <2>8 DEF Inv
<1> QED
    BY <1>1, <1>2, <1>3

-----------------------------------------------------------------------------
\* A telegram on its way is the pending one, and its confirmation is for it.
LEMMA OutstandingFacts ==
    ASSUME Inv, at = 0, tx # <<>>
    PROVE  /\ pendingAsap \in Asap /\ ~orphaned
           /\ Tail(tx) = <<>> /\ Head(tx).kind = pendingKind /\ pendingKind \in Request
           /\ saved[pendingKind] = pendingAsap
           /\ callback = 0
<1>1. pendingAsap # 0 /\ ~orphaned
    BY DEF Inv, PendingInFlight
<1>2. /\ Len(tx) = 1 /\ Head(tx).kind = pendingKind /\ saved[pendingKind] = pendingAsap
    BY <1>1 DEF Inv, PendingInFlight
<1>3. Tail(tx) = <<>> /\ Head(tx) \in Telegram
    BY <1>2, TakenOff DEF Inv, TypeOK
<1>4. pendingKind \in Request
    BY <1>2, <1>3 DEF Telegram
<1>5. callback = 0
    BY GroupAssumption DEF Inv, ScanIdle, TypeOK, Asap
<1> QED
    BY <1>1, <1>2, <1>3, <1>4, <1>5 DEF Inv, TypeOK

LEMMA ConfirmStep ==
    ASSUME Inv, NEW success \in BOOLEAN, Confirm(success)
    PROVE  Inv'
<1> DEFINE a == pendingAsap
<1>1. /\ pendingAsap \in Asap /\ ~orphaned
      /\ Tail(tx) = <<>> /\ Head(tx).kind = pendingKind /\ pendingKind \in Request
      /\ saved[pendingKind] = pendingAsap
      /\ callback = 0 /\ pendingAsap # 0
    BY OutstandingFacts DEF Confirm, Asap
<1>2. /\ tx' = <<>> /\ saved' = [saved EXCEPT ![pendingKind] = 0]
      /\ pendingAsap' = 0 /\ pendingKind' = "Ok"
      /\ Completed(a, success)
      /\ UNCHANGED <<revision, valued, loop, pendingRevision, loaded, orphaned>>
    BY <1>1 DEF Confirm
<1>3. /\ flag' \in [Asap -> ComFlag] /\ initialized' \in [Asap -> BOOLEAN]
      /\ \A b \in Asap : initialized[b] => initialized'[b]
      /\ \A b \in Asap \ {a} : flag'[b] = flag[b]
      /\ flag'[a] \in {flag[a], "Ok", "Error"}
      /\ loaded /\ flag'[a] = flag[a] => ~IsCurrent(a) \/ flag[a] \in {"Ok", "Error"}
    <2>1. CASE loaded /\ IsCurrent(a)
        BY <1>1, <1>2, <2>1 DEF Completed, Inv, TypeOK, ComFlag
    <2>2. CASE ~(loaded /\ IsCurrent(a))
        BY <1>1, <1>2, <2>2 DEF Completed, Inv, TypeOK, ComFlag
    <2> QED
        BY <2>1, <2>2
<1>4. TypeOK'
    <2>1. tx' \in Seq(Telegram) /\ saved' \in [Request -> Asap \cup {0}]
        BY <1>2, EmptySeq DEF Inv, TypeOK
    <2> QED
        BY <1>2, <1>3, <2>1 DEF Inv, TypeOK, loop
<1>5. PendingInFlight' /\ RequestIsNewer'
    BY <1>2 DEF PendingInFlight, RequestIsNewer
<1>6. TransmittingIsPending'
    BY <1>1, <1>2, <1>3 DEF Inv, TransmittingIsPending, IsCurrent
<1>7. ScanIdle'
    BY <1>1, <1>2 DEF Inv, ScanIdle, loop
<1>8. WriteInitialized'
    BY <1>1, <1>3 DEF Inv, WriteInitialized
<1> QED
    BY <1>4, <1>5, <1>6, <1>7, <1>8 DEF Inv

\* Confirmations that cannot be decrypted, new keys, unloading
LEMMA SecurityStep ==
    ASSUME Inv, ConfirmUndecodable \/ Rekey \/ Unload
    PROVE  Inv'
<1>1. CASE ConfirmUndecodable
    <2>1. pendingAsap \in Asap /\ pendingAsap # 0 /\ Tail(tx) = <<>> /\ callback = 0 /\ at = 0
        BY <1>1, OutstandingFacts DEF ConfirmUndecodable, Asap
    <2>2. tx' = <<>> /\ orphaned' = TRUE /\ UNCHANGED <<object, loop, pending, saved, loaded>>
        BY <1>1, <2>1 DEF ConfirmUndecodable
    <2>3. TypeOK'
        BY <2>2, EmptySeq DEF Inv, TypeOK, object, loop, pending
    <2>4. /\ PendingInFlight' /\ TransmittingIsPending' /\ RequestIsNewer' /\ WriteInitialized'
        BY <2>2 DEF Inv, PendingInFlight, TransmittingIsPending, RequestIsNewer, WriteInitialized,
                    object, pending
    <2>5. ScanIdle'
        BY <2>1, <2>2 DEF ScanIdle, loop, pending
    <2> QED
        BY <2>3, <2>4, <2>5 DEF Inv
<1>2. CASE Rekey
    <2>1. UNCHANGED <<object, loop, pending, saved, loaded, orphaned>>
        BY <1>2 DEF Rekey
    <2>2. CASE tx = <<>>
        <3>1. tx' = <<>>
            BY <1>2, <2>2 DEF Rekey
        <3> QED
            BY <2>1, <2>2, <3>1 DEF Inv, TypeOK, PendingInFlight, TransmittingIsPending, ScanIdle,
                    RequestIsNewer, WriteInitialized, object, loop, pending
    <2>3. CASE tx # <<>>
        <3>1. tx \in Seq(Telegram) /\ Len(tx) = 1 /\ pendingAsap # 0 /\ ~orphaned
            BY <2>3 DEF Inv, TypeOK, PendingInFlight
        <3>2. DOMAIN tx = 1 .. 1 /\ tx[1] \in Telegram /\ Head(tx) = tx[1]
            BY <3>1, LenProperties, ElementOfSeq
        <3> DEFINE e == [tx[1] EXCEPT !.decodable = @ /\ tx[1].asap \notin Secured]
        <3>3. tx' = [i \in 1 .. 1 |-> e]
            BY <1>2, <3>2 DEF Rekey
        <3>4. /\ e \in Telegram /\ e.asap = tx[1].asap /\ e.kind = tx[1].kind
              /\ e.revision = tx[1].revision
            BY <3>2 DEF Telegram
        <3> HIDE DEF e
        <3>5. tx' \in Seq(Telegram) /\ Len(tx') = 1 /\ Head(tx') = e
            BY <3>3, <3>4
        <3>6. TypeOK'
            BY <2>1, <3>5 DEF Inv, TypeOK, object, loop, pending
        <3>7. PendingInFlight'
            BY <2>1, <3>1, <3>2, <3>4, <3>5 DEF Inv, PendingInFlight, pending
        <3>8. TransmittingIsPending' /\ ScanIdle' /\ RequestIsNewer' /\ WriteInitialized'
            BY <2>1 DEF Inv, TransmittingIsPending, ScanIdle, RequestIsNewer, WriteInitialized,
                        object, loop, pending
        <3> QED
            BY <3>6, <3>7, <3>8 DEF Inv
    <2> QED
        BY <2>2, <2>3
<1>3. CASE Unload
    <2>1. at = 0 /\ loaded' = FALSE /\ UNCHANGED <<object, loop, pending, saved, tx, orphaned>>
        BY <1>3 DEF Unload
    <2>2. TypeOK'
        BY <2>1 DEF Inv, TypeOK, object, loop, pending
    <2>3. PendingInFlight' /\ TransmittingIsPending' /\ ScanIdle' /\ RequestIsNewer' /\ WriteInitialized'
        BY <2>1 DEF Inv, PendingInFlight, TransmittingIsPending, ScanIdle, RequestIsNewer,
                    WriteInitialized, object, loop, pending
    <2> QED
        BY <2>2, <2>3 DEF Inv
<1> QED
    BY <1>1, <1>2, <1>3

-----------------------------------------------------------------------------
LEMMA InitInv == Init => Inv
<1> SUFFICES ASSUME Init
             PROVE  Inv
    OBVIOUS
<1>1. 0 \in 0 .. MaxRevision /\ 1 \in 0 .. MaxRevision /\ 1 \in 1 .. EntryCount + 1
      /\ 0 \in 0 .. EntryCount + 1
    BY GroupAssumption
<1>2. TypeOK
    BY <1>1, EmptySeq DEF Init, TypeOK, ComFlag, Request
<1>3. /\ PendingInFlight /\ TransmittingIsPending /\ ScanIdle
      /\ RequestIsNewer /\ WriteInitialized
    BY DEF Init, PendingInFlight, TransmittingIsPending, ScanIdle, RequestIsNewer, WriteInitialized
<1> QED
    BY <1>2, <1>3 DEF Inv

LEMMA StepInv == Inv /\ [Next]_vars => Inv'
<1> SUFFICES ASSUME Inv, [Next]_vars
             PROVE  Inv'
    OBVIOUS
<1>1. CASE Application
    BY <1>1, ApplicationStep
<1>2. CASE \E t \in Tsap : BusWrite(t) \/ BusResponse(t) \/ BusRead(t)
    BY <1>2, IndicationStep
<1>3. CASE SendNextGroupTelegram
    BY <1>3, ScanStep, SendStep DEF SendNextGroupTelegram
<1>4. CASE Confirmation \/ Rekey \/ Unload
    BY <1>4, ConfirmStep, SecurityStep DEF Confirmation
<1>5. CASE UNCHANGED vars
    BY <1>5 DEF Inv, TypeOK, PendingInFlight, TransmittingIsPending, ScanIdle, RequestIsNewer,
                WriteInitialized, vars, object, loop
<1> QED
    BY <1>1, <1>2, <1>3, <1>4, <1>5 DEF Next

LEMMA Invariance == Spec => []Inv
BY InitInv, StepInv, PTL DEF Spec

\* The flags, the revisions, the queue's position and the telegrams keep to their types.
THEOREM TypeCorrect == Spec => []TypeOK
<1>1. Inv => TypeOK
    BY DEF Inv
<1> QED
    BY <1>1, Invariance, PTL

\* Whatever the application, its handlers and the bus do: while a group telegram is
\* outstanding the device and its application layer agree which it is, and there is no
\* other.
THEOREM AlwaysPendingInFlight == Spec => []PendingInFlight
<1>1. Inv => PendingInFlight
    BY DEF Inv
<1> QED
    BY <1>1, Invariance, PTL

\* No object stays Transmitting without a telegram that will be confirmed.
THEOREM NoneStuckTransmitting == Spec => []TransmittingIsPending
<1>1. Inv => TransmittingIsPending
    BY DEF Inv
<1> QED
    BY <1>1, Invariance, PTL

-----------------------------------------------------------------------------
\* What a step does to an object that waits to be written.
LEMMA KeptStep ==
    ASSUME Inv, Next, NEW a \in Asap, flag[a] = "WriteRequest", flag'[a] # "WriteRequest"
    PROVE  callback = a \/ revision'[a] # revision[a]
<1> USE DEF Inv, TypeOK
<1>1. \A r \in 0 .. MaxRevision : NextRevision(r) # r
    BY RevisionAdvances
<1>2. initialized[a] = TRUE
    BY DEF WriteInitialized
<1>3. CASE Application
    <2>1. PICK b \in Asap : \/ ObjectWritten(b) \/ RequestObjectRead(b) \/ CancelPendingWrite(b)
                            \/ ValueNoSend(b) \/ Processed(b)
        BY <1>3 DEF Application
    <2>2. CASE ObjectWritten(b)
        BY <2>2 DEF ObjectWritten
    <2>3. CASE RequestObjectRead(b) \/ CancelPendingWrite(b)
        BY <1>1, <2>3 DEF RequestObjectRead, CancelPendingWrite
    <2>4. CASE ValueNoSend(b) \/ Processed(b)
        BY <1>2, <2>4 DEF ValueNoSend, Processed
    <2> QED
        BY <2>1, <2>2, <2>3, <2>4
<1>4. ASSUME NEW U \in SUBSET Asap, FromBus(U)
      PROVE  revision'[a] # revision[a]
    BY <1>1, <1>4 DEF FromBus
<1>5. ASSUME NEW t \in Tsap, BusRead(t)
      PROVE  FALSE
    <2>1. PICK R \in SUBSET Asap : Loopback(flag, initialized, valued, Updated(R))
        BY <1>5 DEF BusRead
    <2> QED
        BY <2>1, ReachedObjects, LoopbackFlags
<1>6. ASSUME NEW t \in Tsap, BusWrite(t) \/ BusResponse(t) \/ BusRead(t)
      PROVE  revision'[a] # revision[a]
    BY <1>4, <1>5, <1>6, ReachedObjects DEF BusWrite, BusResponse
<1>7. CASE SendNextGroupTelegram
    <2>1. CASE ScanEnds \/ \E b \in Asap : CallHandler(b)
        BY <2>1 DEF ScanEnds, CallHandler, object
    <2>2. ASSUME NEW b \in Asap, NEW kind \in Request,
                 Refuse(b, kind) \/ \E link \in Link : Send(b, kind, link)
          PROVE  callback = a
        <3>1. IsTurn(b, kind)
            BY <2>2 DEF Refuse, Send
        <3>2. b = a
            BY <2>2, SendFlags DEF Refuse
        <3> QED
            BY <3>1, <3>2 DEF IsTurn
    <2> QED
        BY <1>7, <2>1, <2>2 DEF SendNextGroupTelegram
<1>8. ASSUME NEW success \in BOOLEAN, Confirm(success)
      PROVE  FALSE
    <2>1. pendingAsap \in Asap /\ Completed(pendingAsap, success)
        BY <1>8, OutstandingFacts DEF Confirm
    <2>2. pendingAsap = a /\ IsCurrent(a)
        BY <2>1 DEF Completed
    <2>3. pendingAsap # 0
        BY <2>2 DEF Asap
    <2> QED
        BY <2>2, <2>3 DEF RequestIsNewer, IsCurrent, Request
<1>9. CASE ConfirmUndecodable \/ Rekey \/ Unload
    BY <1>9 DEF ConfirmUndecodable, Rekey, Unload, object
<1> QED
    BY <1>3, <1>6, <1>7, <1>8, <1>9 DEF Next, Confirmation

\* No write that the application asked for is forgotten.
THEOREM WritesAlwaysKept == Spec => WritesKept
<1>1. Inv /\ [Next]_vars =>
        [\A a \in Asap :
            (flag[a] = "WriteRequest" /\ flag'[a] # "WriteRequest")
                => callback = a \/ revision'[a] # revision[a]]_vars
    BY KeptStep
<1> QED
    BY <1>1, Invariance, PTL DEF Spec, WritesKept

\* One group telegram is outstanding at most, device and application layer agree on it,
\* and every object in Transmitting waits for one.
THEOREM AlwaysOneOutstanding == Spec => []OneOutstanding
BY AlwaysPendingInFlight, NoneStuckTransmitting, PTL DEF OneOutstanding

-----------------------------------------------------------------------------
(* The invariant *)

Blocks == {b \in [address : 1 .. NPage, size : 1 .. NPage] : b.address + b.size <= NPage + 1}

Clear(b, c) == b.address + b.size <= c.address \/ c.address + c.size <= b.address

Covered(p, list) == \E b \in list : b.address <= p /\ p < b.address + b.size

\* The blocks of two lists f and u share the pages among them, and no two of f adjoin.
Layout(f, u) ==
    /\ f \subseteq Blocks /\ u \subseteq Blocks
    /\ \A b, c \in f \cup u : b # c => Clear(b, c)
    /\ f \cap u = {}
    /\ \A p \in 1 .. NPage : Covered(p, f \cup u)
    /\ \A b, c \in f : b.address + b.size # c.address

\* The used blocks are those of the tables, one each.
Owned(u, d, n) ==
    /\ \A t \in Table : d[t] # 0 => Tables!Block(d[t], n[t]) \in u
    /\ \A b \in u : \E t \in Table : d[t] = b.address
    /\ \A s, t \in Table : s # t /\ d[s] # 0 => d[s] # d[t]

LoadState == {"unloaded", "loading", "loaded", "error"}

\* Metadata that is saved, or about to be
MetaInv(m) ==
    /\ m \in [Table -> [state : LoadState \cup {"none"}, size : 0 .. NPage, data : 0 .. NPage, block : 0 .. NPage]]
    /\ m # Tables!Unwritten => \A t \in Table : m[t].state \in LoadState
    /\ \A t \in Table :
          /\ m[t].data = 0 <=> m[t].block = 0
          /\ m[t].data # 0 => m[t].block = m[t].size /\ m[t].data + m[t].size <= NPage + 1
          /\ Kind[t] = "objects" /\ m[t].state = "loaded" => m[t].data # 0

TableTypes ==
    /\ medium \in {"eeprom", "flash"} /\ halted \in BOOLEAN
    /\ state \in [Table -> LoadState]
    /\ data \in [Table -> 0 .. NPage] /\ size \in [Table -> 0 .. NPage]
    /\ DOMAIN index = Table /\ DOMAIN durable = Table /\ DOMAIN completed = Table
    /\ stored = [meta |-> stored.meta, page |-> stored.page] /\ DOMAIN stored.page = 1 .. NPage
    /\ memory = [meta |-> memory.meta, page |-> memory.page] /\ DOMAIN memory.page = 1 .. NPage
    /\ job \in [writes : SUBSET (1 .. NPage), phase : {"idle", "save", "commit", "restart"}, restart : BOOLEAN]

InUse(t) == state[t] = "loaded" /\ data[t] # 0

On(t, p) == data[t] <= p /\ p < data[t] + size[t]

\* A job touches no page of a table in use.
WritesInv == \A t \in Table : InUse(t) => \A p \in job.writes : ~On(t, p)

PhaseInv == job.phase = "commit" => job.writes = {} /\ memory.meta = Tables!Metadata

BackedInv == \A t \in Table : Kind[t] = "objects" /\ state[t] = "loaded" => data[t] # 0

\* m and its pages describe the table t as it is.
Describes(m, t) == m[t].state = "loaded" /\ m[t].data = data[t] /\ m[t].size = size[t]

Stored(t) == Tables!ContentIn(stored.page, stored.meta[t].data, stored.meta[t].size)

\* What a restart must restore is stored, still in use, and nothing else is buffered.
DurableInv ==
    \A t \in Table : durable[t] # Tables!Nothing =>
        /\ stored.meta[t].state = "loaded" /\ Stored(t) = durable[t]
        /\ ~halted =>
              /\ InUse(t) /\ Describes(stored.meta, t) /\ Describes(memory.meta, t)
              /\ \A p \in 1 .. NPage : On(t, p) => memory.page[p] = stored.page[p]

\* In RAM, a table in use has the content it was loaded with.
HalfInv ==
    medium = "eeprom" =>
        \A t \in Table :
            /\ stored.meta[t].state = "loaded" /\ stored.meta[t].data # 0 => Stored(t) \in completed[t]
            /\ ~halted /\ InUse(t) =>
                  /\ index[t] = Tables!ContentIn(memory.page, data[t], size[t])
                  /\ index[t] \in completed[t]

MemoryInv ==
    /\ TableTypes
    /\ MetaInv(stored.meta) /\ MetaInv(memory.meta)
    /\ ~halted => Layout(free, used) /\ Owned(used, data, size)
    /\ WritesInv /\ PhaseInv /\ BackedInv /\ DurableInv /\ HalfInv

-----------------------------------------------------------------------------
(* Least and greatest numbers *)

USE DEF Tables!Block, Tables!PagesOf, Tables!Page, Tables!Null

\* Counting up the lower bounds of a set must end, and ends in the set.
LEMMA Least ==
    ASSUME NEW S \in SUBSET Nat, NEW p \in S
    PROVE  \E m \in S : \A k \in S : m <= k
<1> DEFINE U == {q \in 0 .. p : \A k \in S : q <= k}
           up == [q \in U |-> q + 1]
<1>1. IsFiniteSet(U)
    <2>1. IsFiniteSet(0 .. p)
        BY FS_Interval
    <2> QED
        BY <2>1, FS_Subset
<1>2. 0 \in U /\ U \subseteq Nat
    OBVIOUS
<1>3. PICK q \in U : q + 1 \notin U
    <2> SUFFICES ASSUME \A q \in U : q + 1 \in U PROVE FALSE
        OBVIOUS
    <2>1. up \in Injection(U, U)
        <3>1. up \in [U -> U]
            OBVIOUS
        <3>2. \A x, y \in U : up[x] = up[y] => x = y
            BY <1>2
        <3> HIDE DEF U, up
        <3> QED
            BY <3>1, <3>2 DEF Injection, IsInjective
    <2>2. up \in Surjection(U, U)
        <3> HIDE DEF up
        <3> QED
            BY <1>1, <2>1, FS_Injection
    <2>3. PICK x \in U : up[x] = 0
        <3> HIDE DEF up
        <3> QED
            BY <1>2, <2>2 DEF Surjection
    <2> QED
        BY <1>2, <2>3
<1>4. q \in 0 .. p /\ \A k \in S : q <= k
    OBVIOUS
<1>5. q \in S
    <2>1. q + 1 \notin 0 .. p \/ \E k \in S : ~(q + 1 <= k)
        BY <1>3, <1>4
    <2>2. CASE q + 1 \notin 0 .. p
        BY <1>4, <2>2
    <2>3. CASE \E k \in S : ~(q + 1 <= k)
        BY <1>4, <2>3
    <2> QED
        BY <2>1, <2>2, <2>3
<1> QED
    BY <1>4, <1>5

LEMMA Greatest ==
    ASSUME NEW n \in Nat, NEW S \in SUBSET (1 .. n), NEW p \in S
    PROVE  \E m \in S : \A k \in S : k <= m
<1> DEFINE R == {n - k : k \in S}
<1>1. R \in SUBSET Nat /\ n - p \in R
    OBVIOUS
<1>2. PICK r \in R : \A k \in R : r <= k
    <2> HIDE DEF R
    <2> QED
        BY <1>1, Least
<1>3. PICK m \in S : r = n - m
    OBVIOUS
<1>4. \A k \in S : k <= m
    <2> TAKE k \in S
    <2>1. n - k \in R
        OBVIOUS
    <2>2. n - m <= n - k
        BY <1>2, <1>3, <2>1
    <2> QED
        BY <2>2
<1> QED
    BY <1>4

-----------------------------------------------------------------------------
(* The lists of blocks *)

USE TablesAssumption DEF Tables!TableMemoryAssumption

\* Blocks that are clear of each other share no page, and others do.
LEMMA ClearBlocks ==
    ASSUME NEW b \in Blocks, NEW c \in Blocks
    PROVE  /\ \A p \in 1 .. NPage : Clear(b, c) => ~(p \in Tables!PagesOf(b) /\ p \in Tables!PagesOf(c))
           /\ ~Clear(b, c) => \E p \in 1 .. NPage : p \in Tables!PagesOf(b) /\ p \in Tables!PagesOf(c)
<1>1. \A p \in 1 .. NPage : Clear(b, c) => ~(p \in Tables!PagesOf(b) /\ p \in Tables!PagesOf(c))
    BY DEF Clear, Blocks
<1>2. ASSUME ~Clear(b, c)
      PROVE  \E p \in 1 .. NPage : p \in Tables!PagesOf(b) /\ p \in Tables!PagesOf(c)
    <2>1. CASE b.address <= c.address
        <3>1. c.address \in 1 .. NPage /\ c.address \in Tables!PagesOf(b) /\ c.address \in Tables!PagesOf(c)
            BY <1>2, <2>1 DEF Clear, Blocks
        <3> QED
            BY <3>1
    <2>2. CASE c.address <= b.address
        <3>1. b.address \in 1 .. NPage /\ b.address \in Tables!PagesOf(b) /\ b.address \in Tables!PagesOf(c)
            BY <1>2, <2>2 DEF Clear, Blocks
        <3> QED
            BY <3>1
    <2> QED
        BY <2>1, <2>2 DEF Blocks
<1> QED
    BY <1>1, <1>2

\* In a layout, a used block is found by its address.
LEMMA UsedBlocks ==
    ASSUME NEW f, NEW u, Layout(f, u), NEW b \in u
    PROVE  /\ b \in Blocks
           /\ \A c \in u : c.address = b.address => c = b
           /\ Tables!UsedAt(u, b.address) = b
           /\ {c \in u : c.address # b.address} = u \ {b}
<1>1. b \in Blocks
    BY DEF Layout
<1>2. \A c \in u : c.address = b.address => c = b
    <2> SUFFICES ASSUME NEW c \in u, c.address = b.address, c # b PROVE FALSE
        OBVIOUS
    <2>1. c \in Blocks /\ Clear(b, c)
        BY DEF Layout
    <2> QED
        BY <1>1, <2>1 DEF Clear, Blocks
<1>3. Tables!UsedAt(u, b.address) = b
    BY <1>2 DEF Tables!UsedAt
<1> QED
    BY <1>1, <1>2, <1>3

\* addToFreeList: the freed block and its free neighbours become one free block.
LEMMA FreedLayout ==
    ASSUME NEW f, NEW u, Layout(f, u), NEW b \in u
    PROVE  Layout(Tables!Freed(f, b), u \ {b})
<1> DEFINE before == {x \in f : x.address + x.size = b.address}
           after  == {x \in f : b.address + b.size = x.address}
           first  == IF before = {} THEN b.address ELSE (CHOOSE x \in before : TRUE).address
           last   == IF after = {} THEN b.address + b.size
                     ELSE LET x == CHOOSE x \in after : TRUE IN x.address + x.size
           m      == [address |-> first, size |-> last - first]
           rest   == f \ (before \cup after)
<1>1. b \in Blocks /\ b \notin f
    BY DEF Layout
<1>2. \A x \in f \cup u : x \in Blocks
    BY DEF Layout
<1>3. \/ before = {} /\ first = b.address
      \/ \E x \in before : before = {x} /\ first = x.address
    <2>1. ASSUME NEW x \in before, NEW y \in before PROVE x = y
        <3> SUFFICES ASSUME x # y PROVE FALSE
            OBVIOUS
        <3>1. Clear(x, y) /\ x \in Blocks /\ y \in Blocks
            BY <1>2 DEF Layout
        <3> QED
            BY <1>1, <3>1 DEF Clear, Blocks
    <2> HIDE DEF before
    <2>2. CASE before = {}
        BY <2>2
    <2>3. ASSUME NEW x \in before PROVE before = {x} /\ first = x.address
        BY <2>1
    <2> QED
        BY <2>2, <2>3
<1>4. \/ after = {} /\ last = b.address + b.size
      \/ \E x \in after : after = {x} /\ last = x.address + x.size
    <2>1. ASSUME NEW x \in after, NEW y \in after PROVE x = y
        <3> SUFFICES ASSUME x # y PROVE FALSE
            OBVIOUS
        <3>1. Clear(x, y) /\ x \in Blocks /\ y \in Blocks
            BY <1>2 DEF Layout
        <3> QED
            BY <1>1, <3>1 DEF Clear, Blocks
    <2> HIDE DEF after
    <2>2. CASE after = {}
        BY <2>2
    <2>3. ASSUME NEW x \in after PROVE after = {x} /\ last = x.address + x.size
        BY <2>1
    <2> QED
        BY <2>2, <2>3
<1>5. first \in 1 .. b.address /\ last \in b.address + b.size .. NPage + 1
    <2>1. first \in 1 .. b.address
        <3>1. CASE before = {} /\ first = b.address
            BY <1>1, <3>1 DEF Blocks
        <3>2. ASSUME NEW x \in before, first = x.address PROVE first \in 1 .. b.address
            BY <1>1, <1>2, <3>2 DEF Blocks
        <3> QED
            BY <1>3, <3>1, <3>2
    <2>2. last \in b.address + b.size .. NPage + 1
        <3>1. CASE after = {} /\ last = b.address + b.size
            BY <1>1, <3>1 DEF Blocks
        <3>2. ASSUME NEW x \in after, last = x.address + x.size PROVE last \in b.address + b.size .. NPage + 1
            BY <1>1, <1>2, <3>2 DEF Blocks
        <3> QED
            BY <1>4, <3>1, <3>2
    <2> QED
        BY <2>1, <2>2
<1> HIDE DEF first, last
<1>6. m \in Blocks /\ m.address = first /\ m.address + m.size = last
    BY <1>1, <1>5 DEF Blocks
<1>7. ASSUME NEW c \in rest \cup (u \ {b}) PROVE Clear(c, m) /\ Clear(m, c)
    <2>1. c \in Blocks /\ Clear(c, b)
        BY <1>1, <1>2 DEF Layout
    <2>2. c.address + c.size <= b.address => c.address + c.size <= first
        <3>1. ASSUME NEW x \in before, first = x.address, c.address + c.size <= b.address
              PROVE  c.address + c.size <= first
            <4>1. x \in Blocks /\ (x # c => Clear(c, x))
                BY <1>2 DEF Layout
            <4>2. x # c
                BY DEF Layout
            <4> QED
                BY <1>1, <2>1, <3>1, <4>1, <4>2 DEF Clear, Blocks
        <3> QED
            BY <1>3, <3>1
    <2>3. b.address + b.size <= c.address => last <= c.address
        <3>1. ASSUME NEW x \in after, last = x.address + x.size, b.address + b.size <= c.address
              PROVE  last <= c.address
            <4>1. x \in Blocks /\ (x # c => Clear(c, x))
                BY <1>2 DEF Layout
            <4>2. x # c
                BY DEF Layout
            <4> QED
                BY <1>1, <2>1, <3>1, <4>1, <4>2 DEF Clear, Blocks
        <3> QED
            BY <1>4, <3>1
    <2> HIDE DEF m
    <2> QED
        BY <1>1, <1>6, <2>1, <2>2, <2>3 DEF Clear, Blocks
<1>8. ASSUME NEW p \in 1 .. NPage PROVE Covered(p, rest \cup {m} \cup (u \ {b}))
    <2>1. PICK x \in f \cup u : x.address <= p /\ p < x.address + x.size
        BY DEF Layout, Covered
    <2>2. CASE x \in rest \cup (u \ {b})
        BY <2>1, <2>2 DEF Covered
    <2>3. CASE x \in before \cup after \cup {b}
        <3>1. first <= x.address /\ x.address + x.size <= last
            <4>1. CASE x = b
                BY <1>1, <1>5, <4>1 DEF Blocks
            <4>2. CASE x \in before
                <5>1. first = x.address
                    BY <1>3, <4>2
                <5> QED
                    BY <1>1, <1>2, <1>5, <4>2, <5>1 DEF Blocks
            <4>3. CASE x \in after
                <5>1. last = x.address + x.size
                    BY <1>4, <4>3
                <5> QED
                    BY <1>1, <1>2, <1>5, <4>3, <5>1 DEF Blocks
            <4> QED
                BY <2>3, <4>1, <4>2, <4>3
        <3>2. m.address <= p /\ p < m.address + m.size
            <4> HIDE DEF m
            <4> QED
                BY <1>1, <1>2, <1>5, <1>6, <2>1, <3>1 DEF Blocks
        <3> QED
            BY <3>2 DEF Covered
    <2> QED
        BY <2>1, <2>2, <2>3
<1>9. ASSUME NEW c \in rest PROVE c.address + c.size # first /\ c.address # last
    <2>1. c \in f /\ c \in Blocks
        BY <1>2
    <2>2. c.address + c.size # first
        <3>1. CASE before = {} /\ first = b.address
            BY <2>1, <3>1
        <3>2. ASSUME NEW x \in before, first = x.address PROVE c.address + c.size # first
            BY <2>1, <3>2 DEF Layout
        <3> QED
            BY <1>3, <3>1, <3>2
    <2>3. c.address # last
        <3>1. CASE after = {} /\ last = b.address + b.size
            BY <2>1, <3>1
        <3>2. ASSUME NEW x \in after, last = x.address + x.size PROVE c.address # last
            BY <2>1, <3>2 DEF Layout
        <3> QED
            BY <1>4, <3>1, <3>2
    <2> QED
        BY <2>2, <2>3
<1>10. Tables!Freed(f, b) = rest \cup {m}
    BY DEF Tables!Freed, first, last
<1>11. m \notin u \ {b}
    <2> HIDE DEF m
    <2> QED
        BY <1>6, <1>7 DEF Clear, Blocks
<1>12. m.address + m.size # m.address
    <2> HIDE DEF m
    <2> QED
        BY <1>6 DEF Blocks
<1> HIDE DEF m
<1>13. \A c, d \in rest \cup {m} : c.address + c.size # d.address
    <2>1. \A c, d \in rest : c.address + c.size # d.address
        BY DEF Layout
    <2> HIDE DEF rest
    <2> QED
        BY <1>6, <1>9, <1>12, <2>1
<1>14. \A c, d \in (rest \cup {m}) \cup (u \ {b}) : c # d => Clear(c, d)
    <2>1. \A c, d \in rest \cup (u \ {b}) : c # d => Clear(c, d)
        BY DEF Layout
    <2> HIDE DEF rest
    <2> QED
        BY <1>7, <2>1
<1>15. rest \cup {m} \subseteq Blocks /\ u \ {b} \subseteq Blocks /\ (rest \cup {m}) \cap (u \ {b}) = {}
    BY <1>2, <1>6, <1>11 DEF Layout
<1> HIDE DEF rest
<1> QED
    BY <1>8, <1>10, <1>13, <1>14, <1>15 DEF Layout

\* allocMemory: there is a best block when one is big enough.
LEMMA BestFits ==
    ASSUME NEW list \in SUBSET Blocks, NEW n, Tables!Fits(list, n) # {}
    PROVE  Tables!Best(list, n) \in list /\ Tables!Best(list, n).size >= n
<1> DEFINE fit   == Tables!Fits(list, n)
           sizes == {g.size : g \in fit}
<1>1. fit \subseteq Blocks /\ \A g \in fit : g \in list /\ g.size >= n
    BY DEF Tables!Fits
<1>2. \A g \in fit : g.size \in Nat /\ g.address \in Nat
    BY <1>1 DEF Blocks
<1> HIDE DEF fit
<1>3. PICK x \in fit : \A g \in fit : x.size <= g.size
    <2>1. sizes \in SUBSET Nat /\ \E s \in sizes : TRUE
        BY <1>2 DEF fit
    <2>2. PICK s \in sizes : \A k \in sizes : s <= k
        <3> HIDE DEF sizes
        <3> QED
            BY <2>1, Least
    <2> QED
        BY <2>2
<1> DEFINE same      == {g \in fit : g.size = x.size}
           addresses == {g.address : g \in same}
<1>4. PICK y \in same : \A g \in same : y.address <= g.address
    <2>1. addresses \in SUBSET Nat /\ x.address \in addresses
        BY <1>2
    <2>2. PICK a \in addresses : \A k \in addresses : a <= k
        <3> HIDE DEF addresses
        <3> QED
            BY <2>1, Least
    <2> QED
        BY <2>2
<1>5. \A g \in fit : y.size < g.size \/ (y.size = g.size /\ y.address <= g.address)
    BY <1>2, <1>3, <1>4
<1>6. Tables!Best(list, n) \in fit
    <2>1. y \in fit
        BY <1>4
    <2> HIDE DEF same
    <2> QED
        BY <1>5, <2>1 DEF Tables!Best, fit
<1> QED
    BY <1>1, <1>6

\* allocMemory: the block is used from its beginning, the rest of it stays free.
LEMMA TakenLayout ==
    ASSUME NEW f, NEW u, Layout(f, u), NEW x \in f, NEW n \in 1 .. NPage, n <= x.size
    PROVE  /\ Layout(Tables!FreeWithout(f, x, n), u \cup {Tables!Block(x.address, n)})
           /\ \A b \in u : b.address # x.address
<1> DEFINE taken == [address |-> x.address, size |-> n]
           left  == [address |-> x.address + n, size |-> x.size - n]
           remains == IF x.size = n THEN {} ELSE {left}
           rest  == f \ {x}
<1>1. x \in Blocks /\ x \notin u /\ \A c \in f \cup u : c \in Blocks
    BY DEF Layout
<1>2. taken \in Blocks /\ taken.address = x.address /\ taken.address + taken.size = x.address + n
    BY <1>1 DEF Blocks
<1>3. ASSUME x.size # n
      PROVE  left \in Blocks /\ left.address = x.address + n /\ left.address + left.size = x.address + x.size
    BY <1>1, <1>3 DEF Blocks
<1>4. \A c \in rest \cup u : Clear(c, x) /\ Clear(x, c) /\ c \in Blocks
    BY <1>1 DEF Layout
<1> HIDE DEF taken, left
<1>5. ASSUME NEW c \in rest \cup u
      PROVE  Clear(c, taken) /\ Clear(taken, c) /\ (x.size # n => Clear(c, left) /\ Clear(left, c))
    <2>1. c \in Blocks /\ Clear(c, x)
        BY <1>4
    <2> QED
        BY <1>1, <1>2, <1>3, <2>1 DEF Clear, Blocks
<1>6. x.size # n => Clear(taken, left) /\ Clear(left, taken) /\ taken # left
    BY <1>1, <1>2, <1>3 DEF Clear, Blocks
<1>7. taken \notin rest \cup u /\ (x.size # n => left \notin rest \cup u)
    <2>1. ~Clear(taken, taken)
        BY <1>2 DEF Clear, Blocks
    <2>2. x.size # n => ~Clear(left, left)
        BY <1>3 DEF Clear, Blocks
    <2> QED
        BY <1>5, <2>1, <2>2
<1>8. ASSUME NEW p \in 1 .. NPage PROVE Covered(p, (rest \cup remains) \cup (u \cup {taken}))
    <2>1. PICK c \in f \cup u : c.address <= p /\ p < c.address + c.size
        BY DEF Layout, Covered
    <2>2. CASE c \in rest \cup u
        BY <2>1, <2>2 DEF Covered
    <2>3. CASE c = x /\ p < x.address + n
        BY <1>2, <2>1, <2>3 DEF Covered
    <2>4. CASE c = x /\ ~(p < x.address + n)
        <3>1. x.size # n /\ left.address <= p /\ p < left.address + left.size
            BY <1>1, <1>3, <2>1, <2>4 DEF Blocks
        <3> QED
            BY <3>1 DEF Covered
    <2> QED
        BY <2>1, <2>2, <2>3, <2>4
<1>9. \A c, d \in rest \cup remains : c.address + c.size # d.address
    <2>1. \A c, d \in rest : c.address + c.size # d.address
        BY DEF Layout
    <2>2. ASSUME x.size # n, NEW c \in rest
          PROVE  c.address + c.size # left.address /\ left.address + left.size # c.address
        <3>1. c \in Blocks /\ Clear(c, x)
            BY <1>4
        <3>2. x.address + x.size # c.address
            BY DEF Layout
        <3> QED
            BY <1>1, <1>3, <2>2, <3>1, <3>2 DEF Clear, Blocks
    <2>3. x.size # n => left.address + left.size # left.address
        BY <1>3 DEF Blocks
    <2> HIDE DEF rest
    <2> QED
        BY <2>1, <2>2, <2>3
<1>10. \A c, d \in (rest \cup remains) \cup (u \cup {taken}) : c # d => Clear(c, d)
    <2>1. \A c, d \in rest \cup u : c # d => Clear(c, d)
        BY DEF Layout
    <2> HIDE DEF rest
    <2> QED
        BY <1>5, <1>6, <2>1
<1>11. /\ rest \cup remains \subseteq Blocks /\ u \cup {taken} \subseteq Blocks
       /\ (rest \cup remains) \cap (u \cup {taken}) = {}
    <2>1. rest \cap u = {}
        BY DEF Layout
    <2> HIDE DEF rest
    <2> QED
        BY <1>2, <1>3, <1>4, <1>6, <1>7, <2>1
<1>12. Tables!FreeWithout(f, x, n) = rest \cup remains /\ Tables!Block(x.address, n) = taken
    BY DEF Tables!FreeWithout, left, taken
<1>13. \A b \in u : b.address # x.address
    BY <1>1, <1>4 DEF Clear, Blocks
<1> HIDE DEF rest, remains
<1> QED
    BY <1>8, <1>9, <1>10, <1>11, <1>12, <1>13 DEF Layout

\* addNewUsedBlock: what lies between the blocks in use is free.
LEMMA BesideLayout ==
    ASSUME NEW u \in SUBSET Blocks, \A b, c \in u : b # c => Clear(b, c)
    PROVE  Layout(Tables!FreeBeside(u), u)
<1> DEFINE Run(i, j) == [address |-> i, size |-> j - i + 1]
           f == Tables!FreeBeside(u)
           Taken(p) == \E b \in u : b.address <= p /\ p < b.address + b.size
           Free(i, j) == /\ \A p \in i .. j : ~Taken(p)
                         /\ i = 1 \/ Taken(i - 1)
                         /\ j = NPage \/ Taken(j + 1)
<1>1. \A i, j \in 1 .. NPage : Tables!IsFreeRun(u, i, j) <=> Free(i, j)
    <2> SUFFICES ASSUME NEW i \in 1 .. NPage, NEW j \in 1 .. NPage
                 PROVE  Tables!IsFreeRun(u, i, j) <=> Free(i, j)
        OBVIOUS
    <2>1. \A p \in 0 .. NPage + 1 : Taken(p) <=> \E b \in u : p \in Tables!PagesOf(b)
        BY DEF Blocks
    <2>2. \A p \in i .. j : p \in 0 .. NPage + 1
        OBVIOUS
    <2>3. i - 1 \in 0 .. NPage + 1 /\ j + 1 \in 0 .. NPage + 1
        OBVIOUS
    <2> HIDE DEF Taken
    <2> USE DEF Tables!IsFreeRun
    <2>4. (\A p \in i .. j : \A b \in u : p \notin Tables!PagesOf(b)) <=> \A p \in i .. j : ~Taken(p)
        BY <2>1, <2>2
    <2>5. (\E b \in u : i - 1 \in Tables!PagesOf(b)) <=> Taken(i - 1)
        BY <2>1, <2>3
    <2>6. (\E b \in u : j + 1 \in Tables!PagesOf(b)) <=> Taken(j + 1)
        BY <2>1, <2>3
    <2> QED
        BY <2>4, <2>5, <2>6
<1>2. \A c \in f : \E i, j \in 1 .. NPage : i <= j /\ Free(i, j) /\ c = Run(i, j)
    <2> HIDE DEF Free
    <2> QED
        BY <1>1 DEF Tables!FreeBeside
<1>3. \A i, j \in 1 .. NPage : i <= j /\ Free(i, j) => Run(i, j) \in f
    <2> SUFFICES ASSUME NEW i \in 1 .. NPage, NEW j \in 1 .. NPage, i <= j, Free(i, j)
                 PROVE  Run(i, j) \in f
        OBVIOUS
    <2>1. <<i, j>> \in {r \in Tables!Page \X Tables!Page : r[1] <= r[2] /\ Tables!IsFreeRun(u, r[1], r[2])}
        <3> HIDE DEF Free
        <3> QED
            BY <1>1
    <2> QED
        BY <2>1 DEF Tables!FreeBeside
<1> HIDE DEF f
<1>4. ASSUME NEW c \in f
      PROVE  /\ c \in Blocks
             /\ Free(c.address, c.address + c.size - 1)
             /\ c = Run(c.address, c.address + c.size - 1)
    <2>1. PICK i \in 1 .. NPage, j \in 1 .. NPage : i <= j /\ Free(i, j) /\ c = Run(i, j)
        BY <1>2
    <2>2. c.address = i /\ c.address + c.size - 1 = j
        BY <2>1
    <2>3. c \in Blocks
        BY <2>1 DEF Blocks
    <2> HIDE DEF Free
    <2> QED
        BY <2>1, <2>2, <2>3
<1>5. ASSUME NEW c \in f, NEW b \in u PROVE Clear(c, b) /\ Clear(b, c) /\ c # b
    <2>1. c \in Blocks /\ b \in Blocks /\ \A p \in c.address .. c.address + c.size - 1 : ~Taken(p)
        BY <1>4
    <2>2. ASSUME ~Clear(c, b) PROVE FALSE
        <3>1. PICK p \in 1 .. NPage : p \in Tables!PagesOf(b) /\ p \in Tables!PagesOf(c)
            BY <2>1, <2>2, ClearBlocks
        <3> QED
            BY <2>1, <3>1 DEF Blocks
    <2> QED
        BY <2>1, <2>2 DEF Clear, Blocks
<1>6. ASSUME NEW c \in f, NEW d \in f, ~Clear(c, d), ~Clear(d, c) PROVE c.address >= d.address
    <2> SUFFICES ASSUME c.address < d.address PROVE FALSE
        BY <1>4 DEF Blocks
    <2>1. c \in Blocks /\ d \in Blocks
        BY <1>4
    <2>2. d.address - 1 \in c.address .. c.address + c.size - 1 /\ d.address # 1
        BY <1>6, <2>1 DEF Clear, Blocks
    <2>3. ~Taken(d.address - 1)
        BY <1>4, <2>2
    <2>4. Taken(d.address - 1)
        BY <1>4, <2>2
    <2> QED
        BY <2>3, <2>4
<1>7. ASSUME NEW c \in f, NEW d \in f, ~Clear(c, d), ~Clear(d, c)
      PROVE  c.address + c.size <= d.address + d.size
    <2> DEFINE k == d.address + d.size - 1
    <2> SUFFICES ASSUME d.address + d.size < c.address + c.size PROVE FALSE
        BY <1>4 DEF Blocks
    <2>1. c \in Blocks /\ d \in Blocks
        BY <1>4
    <2>2. k + 1 \in c.address .. c.address + c.size - 1 /\ k # NPage
        BY <1>7, <2>1 DEF Clear, Blocks
    <2>3. ~Taken(k + 1)
        BY <1>4, <2>2
    <2>4. Taken(k + 1)
        BY <1>4, <2>2
    <2> QED
        BY <2>3, <2>4
<1>8. ASSUME NEW c \in f, NEW d \in f, c # d PROVE Clear(c, d)
    <2>1. \A x, y \in Blocks : Clear(x, y) <=> Clear(y, x)
        BY DEF Clear, Blocks
    <2> SUFFICES ASSUME ~Clear(c, d), ~Clear(d, c) PROVE FALSE
        BY <1>4, <2>1
    <2>2. c.address = d.address /\ c.address + c.size = d.address + d.size
        <3>1. c.address >= d.address /\ d.address >= c.address
            BY <1>6
        <3>2. c.address + c.size <= d.address + d.size /\ d.address + d.size <= c.address + c.size
            BY <1>7
        <3> QED
            BY <1>4, <3>1, <3>2 DEF Blocks
    <2>3. \A x, y \in Blocks : x.address = y.address /\ x.size = y.size => x = y
        BY DEF Blocks
    <2>4. c \in Blocks /\ d \in Blocks
        BY <1>4
    <2>5. c.size = d.size
        BY <2>2, <2>4 DEF Blocks
    <2> QED
        BY <1>8, <2>2, <2>3, <2>4, <2>5
<1>9. ASSUME NEW c \in f, NEW d \in f PROVE c.address + c.size # d.address
    <2> SUFFICES ASSUME c.address + c.size = d.address PROVE FALSE
        OBVIOUS
    <2>1. c \in Blocks /\ d \in Blocks
        BY <1>4
    <2>2. d.address # 1 /\ d.address - 1 = c.address + c.size - 1
          /\ d.address - 1 \in c.address .. c.address + c.size - 1
        BY <2>1 DEF Blocks
    <2>3. ~Taken(d.address - 1)
        BY <1>4, <2>2
    <2>4. Taken(d.address - 1)
        BY <1>4, <2>2
    <2> QED
        BY <2>3, <2>4
<1>10. ASSUME NEW p \in 1 .. NPage, ~Taken(p) PROVE Covered(p, f)
    <2> DEFINE Below == {q \in 1 .. NPage : q <= p /\ \A r \in q .. p : ~Taken(r)}
               Above == {q \in 1 .. NPage : p <= q /\ \A r \in p .. q : ~Taken(r)}
    <2>1. p \in Below /\ p \in Above
        <3>1. \A r \in p .. p : r = p
            OBVIOUS
        <3> HIDE DEF Taken
        <3> QED
            BY <1>10, <3>1
    <2> HIDE DEF Taken
    <2>2. PICK i \in Below : \A k \in Below : i <= k
        <3>1. Below \in SUBSET Nat
            OBVIOUS
        <3> HIDE DEF Below
        <3> QED
            BY <2>1, <3>1, Least
    <2>3. PICK j \in Above : \A k \in Above : k <= j
        <3>1. Above \in SUBSET (1 .. NPage) /\ NPage \in Nat
            OBVIOUS
        <3> HIDE DEF Above
        <3> QED
            BY <2>1, <3>1, Greatest
    <2>4. \A r \in i .. j : ~Taken(r)
        <3> SUFFICES ASSUME NEW r \in i .. j PROVE ~Taken(r)
            OBVIOUS
        <3>1. r \in i .. p \/ r \in p .. j
            OBVIOUS
        <3> QED
            BY <2>2, <2>3, <3>1
    <2>5. i = 1 \/ Taken(i - 1)
        <3> SUFFICES ASSUME i # 1, ~Taken(i - 1) PROVE FALSE
            OBVIOUS
        <3>1. \A r \in i - 1 .. p : r = i - 1 \/ r \in i .. p
            OBVIOUS
        <3>2. i - 1 \in Below
            BY <2>2, <3>1
        <3> QED
            BY <2>2, <3>2
    <2>6. j = NPage \/ Taken(j + 1)
        <3> SUFFICES ASSUME j # NPage, ~Taken(j + 1) PROVE FALSE
            OBVIOUS
        <3>1. \A r \in p .. j + 1 : r = j + 1 \/ r \in p .. j
            OBVIOUS
        <3>2. j + 1 \in Above
            BY <2>3, <3>1
        <3> QED
            BY <2>3, <3>2
    <2>7. Run(i, j) \in f
        BY <1>3, <2>2, <2>3, <2>4, <2>5, <2>6
    <2>8. Run(i, j).address <= p /\ p < Run(i, j).address + Run(i, j).size
        OBVIOUS
    <2> HIDE DEF Run, Below, Above
    <2> QED
        BY <2>7, <2>8 DEF Covered
<1>11. \A p \in 1 .. NPage : Covered(p, f \cup u)
    BY <1>10 DEF Covered
<1> QED
    <2>1. f \subseteq Blocks
        BY <1>4
    <2> HIDE DEF Free, Taken, Run
    <2> QED
        BY <1>5, <1>8, <1>9, <1>11, <2>1 DEF Layout, f

-----------------------------------------------------------------------------
(* The blocks of the tables *)

Numbers == [Table -> 0 .. NPage]

\* The block of a table: where it is, and that no other table has pages of it
LEMMA OwnBlock ==
    ASSUME NEW f, NEW u, NEW d \in Numbers, NEW n \in Numbers, Layout(f, u), Owned(u, d, n),
           NEW t \in Table, d[t] # 0
    PROVE  /\ Tables!Block(d[t], n[t]) \in u /\ Tables!Block(d[t], n[t]) \in Blocks
           /\ d[t] \in 1 .. NPage /\ n[t] \in 1 .. NPage /\ d[t] + n[t] <= NPage + 1
           /\ \A s \in Table : s # t /\ d[s] # 0 => d[s] + n[s] <= d[t] \/ d[t] + n[t] <= d[s]
<1> DEFINE B(s) == [address |-> d[s], size |-> n[s]]
<1>1. \A s \in Table : d[s] # 0 => B(s) \in u /\ B(s) \in Blocks
    BY DEF Owned, Layout
<1>2. \A s \in Table : B(s).address = d[s] /\ B(s).size = n[s]
    OBVIOUS
<1>3. d[t] \in 1 .. NPage /\ n[t] \in 1 .. NPage /\ d[t] + n[t] <= NPage + 1
    BY <1>1 DEF Blocks
<1>4. ASSUME NEW s \in Table, s # t, d[s] # 0 PROVE d[s] + n[s] <= d[t] \/ d[t] + n[t] <= d[s]
    <2>1. d[s] # d[t]
        BY <1>4 DEF Owned
    <2>2. B(s) # B(t)
        BY <2>1, <1>2
    <2> HIDE DEF B
    <2>3. Clear(B(s), B(t))
        BY <1>1, <1>4, <2>2 DEF Layout
    <2> QED
        BY <1>2, <2>3 DEF Clear
<1> QED
    BY <1>1, <1>3, <1>4

\* freeMemory
LEMMA FreedTable ==
    ASSUME NEW f, NEW u, NEW d \in Numbers, NEW n \in Numbers, Layout(f, u), Owned(u, d, n),
           NEW t \in Table, d[t] # 0
    PROVE  /\ Layout(Tables!Freed(f, Tables!UsedAt(u, d[t])), {b \in u : b.address # d[t]})
           /\ Owned({b \in u : b.address # d[t]}, [d EXCEPT ![t] = 0], n)
<1> DEFINE b == [address |-> d[t], size |-> n[t]]
<1>1. b \in u /\ b.address = d[t]
    BY OwnBlock
<1>2. Tables!UsedAt(u, d[t]) = b /\ {c \in u : c.address # d[t]} = u \ {b}
    <2> HIDE DEF b
    <2> QED
        BY <1>1, UsedBlocks
<1>3. Owned({c \in u : c.address # d[t]}, [d EXCEPT ![t] = 0], n)
    BY DEF Owned, Numbers
<1> QED
    BY <1>1, <1>2, <1>3, FreedLayout

\* allocTable gives back the memory of the table first.
LEMMA GivenBack ==
    ASSUME TableTypes, Layout(free, used), Owned(used, data, size), NEW t \in Table
    PROVE  /\ Layout(Tables!FreeForAlloc(t), Tables!UsedForAlloc(t))
           /\ Owned(Tables!UsedForAlloc(t), [data EXCEPT ![t] = 0], size)
<1>1. data \in Numbers /\ size \in Numbers
    BY DEF TableTypes, Numbers
<1>2. CASE data[t] # 0
    BY <1>1, <1>2, FreedTable, SMTT(60) DEF Tables!FreeForAlloc, Tables!UsedForAlloc
<1>3. CASE data[t] = 0
    <2>1. Tables!UsedForAlloc(t) = used
        BY <1>3 DEF Tables!UsedForAlloc, Layout, Blocks
    <2>2. [data EXCEPT ![t] = 0] = data
        BY <1>1, <1>3 DEF Numbers
    <2> QED
        BY <1>3, <2>1, <2>2 DEF Tables!FreeForAlloc
<1> QED
    BY <1>2, <1>3

\* allocMemory
LEMMA TakenTable ==
    ASSUME NEW f, NEW u, NEW d \in Numbers, NEW n \in Numbers, Layout(f, u), Owned(u, d, n),
           NEW t \in Table, d[t] = 0, NEW x \in f, NEW k \in 1 .. NPage, k <= x.size
    PROVE  /\ Layout(Tables!FreeWithout(f, x, k), u \cup {Tables!Block(x.address, k)})
           /\ Owned(u \cup {Tables!Block(x.address, k)}, [d EXCEPT ![t] = x.address], [n EXCEPT ![t] = k])
           /\ x.address \in 1 .. NPage
<1>1. Layout(Tables!FreeWithout(f, x, k), u \cup {Tables!Block(x.address, k)}) /\ \A b \in u : b.address # x.address
    BY TakenLayout
<1>2. x.address \in 1 .. NPage
    BY DEF Layout, Blocks
<1> DEFINE e == [d EXCEPT ![t] = x.address]
           m == [n EXCEPT ![t] = k]
           new == [address |-> x.address, size |-> k]
<1>3. e[t] = x.address /\ m[t] = k /\ \A s \in Table : s # t => e[s] = d[s] /\ m[s] = n[s]
    BY DEF Numbers
<1> HIDE DEF e, m
<1>4. \A s \in Table : s # t /\ d[s] # 0 => [address |-> d[s], size |-> n[s]] \in u /\ d[s] # x.address
    <2>1. \A s \in Table : d[s] # 0 => [address |-> d[s], size |-> n[s]] \in u
        BY DEF Owned
    <2>2. \A s \in Table : d[s] # 0 => d[s] # x.address
        BY <1>1, <2>1
    <2> QED
        BY <2>1, <2>2
<1>5. \A s \in Table : e[s] # 0 => [address |-> e[s], size |-> m[s]] \in u \cup {new}
    BY <1>3, <1>4
<1>6. \A b \in u \cup {new} : \E s \in Table : e[s] = b.address
    <2>1. \A b \in u : \E s \in Table : d[s] = b.address
        BY DEF Owned
    <2>2. \A b \in u : \E s \in Table : e[s] = b.address
        <3> TAKE b \in u
        <3>1. PICK s \in Table : d[s] = b.address
            BY <2>1
        <3>2. b.address # 0
            BY DEF Layout, Blocks
        <3> QED
            BY <1>3, <3>1, <3>2
    <2> QED
        BY <1>3, <2>2
<1>7. \A r, s \in Table : r # s /\ e[r] # 0 => e[r] # e[s]
    <2>1. \A r, s \in Table : r # s /\ d[r] # 0 => d[r] # d[s]
        BY DEF Owned
    <2> QED
        BY <1>2, <1>3, <1>4, <2>1, ZenonT(60)
<1>8. Owned(u \cup {new}, e, m)
    BY <1>5, <1>6, <1>7 DEF Owned
<1> QED
    BY <1>1, <1>2, <1>8 DEF e, m

Remaining(u, d, S) == u \ {b \in u : \E t \in S : d[t] = b.address}

\* Some tables are reset: their blocks are free, and the others as before.
LEMMA ResetTables ==
    ASSUME NEW f, NEW u, NEW d \in Numbers, NEW n \in Numbers, Layout(f, u), Owned(u, d, n),
           NEW S \in SUBSET Table, NEW e \in Numbers, NEW m \in Numbers,
           \A t \in S : e[t] = 0,
           \A t \in Table \ S : e[t] = d[t] /\ m[t] = n[t]
    PROVE  /\ Layout(Tables!FreeBeside(Remaining(u, d, S)), Remaining(u, d, S))
           /\ Owned(Remaining(u, d, S), e, m)
<1> DEFINE rest == u \ {b \in u : \E t \in S : d[t] = b.address}
<1>1. rest \in SUBSET Blocks /\ \A b, c \in rest : b # c => Clear(b, c)
    BY DEF Layout
<1>2. ASSUME NEW t \in Table, e[t] # 0 PROVE Tables!Block(e[t], m[t]) \in rest
    <2>1. t \notin S /\ e[t] = d[t] /\ m[t] = n[t]
        BY <1>2
    <2>2. Tables!Block(d[t], n[t]) \in u
        BY <1>2, <2>1 DEF Owned
    <2>3. \A s \in S : d[s] # d[t]
        BY <1>2, <2>1 DEF Owned
    <2> QED
        BY <2>1, <2>2, <2>3
<1>3. ASSUME NEW b \in rest PROVE \E t \in Table : e[t] = b.address
    <2>1. PICK t \in Table : d[t] = b.address
        BY DEF Owned
    <2> QED
        BY <2>1
<1>4. ASSUME NEW s \in Table, NEW t \in Table, s # t, e[s] # 0 PROVE e[s] # e[t]
    <2>1. s \notin S /\ e[s] = d[s]
        BY <1>4
    <2> QED
        BY <1>4, <2>1 DEF Owned
<1>5. Owned(rest, e, m)
    <2> HIDE DEF rest
    <2> QED
        BY <1>2, <1>3, <1>4 DEF Owned
<1>6. Layout(Tables!FreeBeside(rest), rest)
    <2> HIDE DEF rest
    <2> QED
        BY <1>1, BesideLayout
<1> QED
    BY <1>5, <1>6 DEF Remaining

\* readMemory: the tables that the metadata describes
LEMMA RestoredTables ==
    ASSUME NEW m, MetaInv(m), Tables!Disjoint(m)
    PROVE  /\ Layout(Tables!FreeBeside(Tables!RestoredUsed(m)), Tables!RestoredUsed(m))
           /\ Owned(Tables!RestoredUsed(m), [t \in Table |-> m[t].data], [t \in Table |-> m[t].size])
<1> DEFINE B(t) == [address |-> m[t].data, size |-> m[t].block]
           u    == Tables!RestoredUsed(m)
           d    == [t \in Table |-> m[t].data]
           n    == [t \in Table |-> m[t].size]
<1>1. \A t \in Table : m[t].data \in 0 .. NPage /\ m[t].block \in 0 .. NPage /\ m[t].size \in 0 .. NPage
    BY DEF MetaInv
<1>2. \A t \in Table : m[t].block # 0 => B(t) \in Blocks /\ m[t].data # 0 /\ m[t].block = m[t].size
    <2> SUFFICES ASSUME NEW t \in Table, m[t].block # 0
                 PROVE  B(t) \in Blocks /\ m[t].data # 0 /\ m[t].block = m[t].size
        OBVIOUS
    <2>1. m[t].data # 0 /\ m[t].block = m[t].size /\ m[t].data + m[t].size <= NPage + 1
        BY DEF MetaInv
    <2> QED
        BY <1>1, <2>1 DEF Blocks
<1>3. \A b \in u : \E t \in Table : m[t].block # 0 /\ b = B(t)
    BY DEF Tables!RestoredUsed
<1>4. \A t \in Table : m[t].block # 0 => B(t) \in u
    BY DEF Tables!RestoredUsed
<1>5. \A s, t \in Table : s # t /\ m[s].block # 0 /\ m[t].block # 0 => Clear(B(s), B(t))
    <2> SUFFICES ASSUME NEW s \in Table, NEW t \in Table, s # t, m[s].block # 0, m[t].block # 0,
                        ~Clear(B(s), B(t))
                 PROVE  FALSE
        OBVIOUS
    <2>1. B(s) \in Blocks /\ B(t) \in Blocks
        BY <1>2
    <2>2. \E p \in 1 .. NPage : p \in Tables!PagesOf(B(s)) /\ p \in Tables!PagesOf(B(t))
        <3> HIDE DEF B
        <3> QED
            BY <2>1, ClearBlocks
    <2>3. Tables!PagesOf(B(s)) \cap Tables!PagesOf(B(t)) = {}
        BY DEF Tables!Disjoint
    <2> QED
        BY <2>2, <2>3
<1> HIDE DEF u
<1>6. u \in SUBSET Blocks /\ \A b, c \in u : b # c => Clear(b, c)
    <2> HIDE DEF B
    <2> QED
        BY <1>2, <1>3, <1>5
<1>7. \A t \in Table : m[t].data # 0 => [address |-> m[t].data, size |-> m[t].size] \in u
    <2> SUFFICES ASSUME NEW t \in Table, m[t].data # 0
                 PROVE  [address |-> m[t].data, size |-> m[t].size] \in u
        OBVIOUS
    <2>1. m[t].block # 0
        BY DEF MetaInv
    <2> QED
        BY <1>2, <1>4, <2>1
<1>8. \A b \in u : \E t \in Table : m[t].data = b.address
    BY <1>3
<1>9. \A s, t \in Table : s # t /\ m[s].data # 0 => m[s].data # m[t].data
    <2> SUFFICES ASSUME NEW s \in Table, NEW t \in Table, s # t, m[s].data # 0, m[s].data = m[t].data
                 PROVE  FALSE
        OBVIOUS
    <2>1. m[s].block # 0 /\ m[t].block # 0
        BY DEF MetaInv
    <2>2. Clear(B(s), B(t))
        BY <1>5, <2>1
    <2> QED
        BY <1>1, <2>1, <2>2 DEF Clear
<1>10. Owned(u, d, n)
    BY <1>7, <1>8, <1>9 DEF Owned
<1>11. Layout(Tables!FreeBeside(u), u)
    BY <1>6, BesideLayout
<1> QED
    BY <1>10, <1>11 DEF u

-----------------------------------------------------------------------------
(* Steps *)

\* A step of the tables that writes nothing: what is still to be restored is as it was, and a
\* table in use is unchanged or has just been loaded.
LEMMA TablesStep ==
    ASSUME MemoryInv, ~halted, UNCHANGED <<medium, stored, memory>>,
           TableTypes', (~halted => Layout(free, used) /\ Owned(used, data, size))',
           WritesInv', BackedInv', job.phase' # "commit",
           \A t \in Table : completed[t] \subseteq completed'[t],
           \A t \in Table : durable'[t] # Tables!Nothing =>
               /\ durable'[t] = durable[t]
               /\ state'[t] = state[t] /\ data'[t] = data[t] /\ size'[t] = size[t],
           \A t \in Table : InUse(t)' =>
               \/ InUse(t) /\ data'[t] = data[t] /\ size'[t] = size[t] /\ index'[t] = index[t]
               \/ medium = "eeprom" =>
                     /\ index'[t] = Tables!ContentIn(memory.page, data'[t], size'[t])
                     /\ index'[t] \in completed'[t]
    PROVE  MemoryInv'
<1>1. \A t \in Table : Stored(t)' = Stored(t)
    BY DEF Stored
<1>2. DurableInv'
    <2> SUFFICES ASSUME NEW t \in Table, durable'[t] # Tables!Nothing
                 PROVE  /\ stored.meta[t].state = "loaded" /\ Stored(t) = durable[t]
                        /\ InUse(t)' /\ Describes(stored.meta, t)' /\ Describes(memory.meta, t)'
                        /\ \A p \in 1 .. NPage : On(t, p)' => memory.page[p] = stored.page[p]
        BY <1>1 DEF DurableInv
    <2>1. /\ stored.meta[t].state = "loaded" /\ Stored(t) = durable[t]
          /\ InUse(t) /\ Describes(stored.meta, t) /\ Describes(memory.meta, t)
          /\ \A p \in 1 .. NPage : On(t, p) => memory.page[p] = stored.page[p]
        BY DEF MemoryInv, DurableInv
    <2>2. InUse(t)' /\ Describes(stored.meta, t)' /\ Describes(memory.meta, t)'
        BY <2>1 DEF InUse, Describes
    <2>3. \A p \in 1 .. NPage : On(t, p)' => On(t, p)
        BY DEF On
    <2> QED
        BY <2>1, <2>2, <2>3
<1>3. HalfInv'
    <2> SUFFICES ASSUME medium = "eeprom", NEW t \in Table
                 PROVE  /\ stored.meta[t].state = "loaded" /\ stored.meta[t].data # 0 => Stored(t) \in completed'[t]
                        /\ InUse(t)' =>
                              /\ index'[t] = Tables!ContentIn(memory.page, data'[t], size'[t])
                              /\ index'[t] \in completed'[t]
        BY <1>1 DEF HalfInv
    <2>1. /\ stored.meta[t].state = "loaded" /\ stored.meta[t].data # 0 => Stored(t) \in completed[t]
          /\ InUse(t) =>
                /\ index[t] = Tables!ContentIn(memory.page, data[t], size[t])
                /\ index[t] \in completed[t]
        BY DEF MemoryInv, HalfInv
    <2>2. completed[t] \subseteq completed'[t]
        OBVIOUS
    <2> QED
        BY <2>1, <2>2
<1>4. PhaseInv'
    BY DEF PhaseInv
<1>5. MetaInv(stored.meta)' /\ MetaInv(memory.meta)'
    BY DEF MemoryInv
<1> QED
    BY <1>2, <1>3, <1>4, <1>5 DEF MemoryInv

\* The n pages from a are the same in g and in h.
Alike(g, h, a, n) == \A p \in 1 .. NPage : a <= p /\ p < a + n => g[p] = h[p]

\* So is their content.
LEMMA SameContent ==
    ASSUME NEW g, NEW h, NEW a \in 1 .. NPage, NEW n \in 1 .. NPage, a + n <= NPage + 1,
           Alike(g, h, a, n)
    PROVE  Tables!ContentIn(g, a, n) = Tables!ContentIn(h, a, n)
<1>1. \A i \in 1 .. n : g[a + i - 1] = h[a + i - 1]
    BY DEF Alike
<1> QED
    BY <1>1 DEF Tables!ContentIn

\* In the memory of a table in use
LEMMA UsedPages ==
    ASSUME MemoryInv, ~halted, NEW t \in Table, data[t] # 0
    PROVE  /\ data[t] \in 1 .. NPage /\ size[t] \in 1 .. NPage /\ data[t] + size[t] <= NPage + 1
           /\ \A s \in Table, p \in 1 .. NPage : s # t /\ data[s] # 0 /\ On(t, p) => ~On(s, p)
<1>1. data \in Numbers /\ size \in Numbers /\ Layout(free, used) /\ Owned(used, data, size)
    BY DEF MemoryInv, TableTypes, Numbers
<1>2. /\ data[t] \in 1 .. NPage /\ size[t] \in 1 .. NPage /\ data[t] + size[t] <= NPage + 1
      /\ \A s \in Table : s # t /\ data[s] # 0 => data[s] + size[s] <= data[t] \/ data[t] + size[t] <= data[s]
    BY <1>1, OwnBlock
<1>3. ASSUME NEW s \in Table, NEW p \in 1 .. NPage, s # t, data[s] # 0, On(t, p), On(s, p) PROVE FALSE
    <2>1. data[s] \in 0 .. NPage /\ size[s] \in 0 .. NPage
        BY <1>1 DEF Numbers
    <2> QED
        BY <1>2, <1>3, <2>1 DEF On
<1> QED
    BY <1>2, <1>3

\* What is stored after an erase block was left
LEMMA StoredOrMemory ==
    ASSUME NEW b
    PROVE  /\ Tables!StoredAfterMove(b) \in {stored, memory}
           /\ medium = "eeprom" => Tables!StoredAfterMove(b) = stored
BY DEF Tables!StoredAfterMove, Tables!Flushed

\* When a block is left, what must be restored is stored as it was.
LEMMA MovedStep ==
    ASSUME MemoryInv, ~halted, stored' \in {stored, memory}, medium = "eeprom" => stored' = stored,
           NEW t \in Table, durable[t] # Tables!Nothing
    PROVE  /\ stored'.meta[t].state = "loaded" /\ Stored(t)' = durable[t]
           /\ InUse(t) /\ Describes(stored'.meta, t)
           /\ \A p \in 1 .. NPage : On(t, p) => stored'.page[p] = stored.page[p] /\ memory.page[p] = stored.page[p]
<1>1. /\ stored.meta[t].state = "loaded" /\ Stored(t) = durable[t]
      /\ InUse(t) /\ Describes(stored.meta, t) /\ Describes(memory.meta, t)
      /\ \A p \in 1 .. NPage : On(t, p) => memory.page[p] = stored.page[p]
    BY DEF MemoryInv, DurableInv
<1>2. data[t] \in 1 .. NPage /\ size[t] \in 1 .. NPage /\ data[t] + size[t] <= NPage + 1
    BY <1>1, UsedPages DEF InUse
<1>3. Tables!ContentIn(memory.page, data[t], size[t]) = Tables!ContentIn(stored.page, data[t], size[t])
    <2>1. Alike(memory.page, stored.page, data[t], size[t])
        BY <1>1 DEF On, Alike
    <2> QED
        BY <1>2, <2>1, SameContent
<1>4. Stored(t) = Tables!ContentIn(stored.page, data[t], size[t])
    BY <1>1 DEF Stored, Describes
<1>5. CASE stored' = stored
    BY <1>1, <1>5 DEF Stored, Describes
<1>6. CASE stored' = memory
    <2>1. Stored(t)' = Tables!ContentIn(memory.page, memory.meta[t].data, memory.meta[t].size)
        BY <1>6 DEF Stored
    <2>2. Stored(t)' = Tables!ContentIn(memory.page, data[t], size[t])
        BY <1>1, <2>1 DEF Describes
    <2> QED
        BY <1>1, <1>3, <1>4, <1>6, <2>2 DEF Describes
<1> QED
    BY <1>5, <1>6

\* A page is written that is not of a table in use.
LEMMA WriteStep ==
    ASSUME MemoryInv, ~halted, NEW p \in 1 .. NPage, NEW c, \A t \in Table : InUse(t) => ~On(t, p),
           Tables!WriteNonVolatileMemory(p, c),
           UNCHANGED <<medium, free, used, state, data, size, index, halted, completed, durable>>,
           job' \in [writes : SUBSET (1 .. NPage), phase : {"idle", "save", "commit", "restart"}, restart : BOOLEAN],
           job'.writes \subseteq job.writes, job'.phase # "commit"
    PROVE  MemoryInv'
<1>1. stored' \in {stored, memory} /\ (medium = "eeprom" => stored' = stored)
    BY StoredOrMemory DEF Tables!WriteNonVolatileMemory
<1>2. memory' = [memory EXCEPT !.page = [@ EXCEPT ![p] = c]]
    BY DEF Tables!WriteNonVolatileMemory
<1>3. /\ memory' = [meta |-> memory.meta, page |-> [memory.page EXCEPT ![p] = c]]
      /\ memory'.meta = memory.meta /\ memory'.page = [memory.page EXCEPT ![p] = c]
    <2>1. memory = [meta |-> memory.meta, page |-> memory.page]
        BY DEF MemoryInv, TableTypes
    <2> QED
        BY <1>2, <2>1
<1>4. DOMAIN memory.page = 1 .. NPage
    BY DEF MemoryInv, TableTypes
<1>5. \A q \in 1 .. NPage : q # p => memory'.page[q] = memory.page[q]
    BY <1>3, <1>4
<1>6. TableTypes'
    <2>1. DOMAIN memory'.page = 1 .. NPage
        BY <1>3, <1>4
    <2>2. memory' = [meta |-> memory'.meta, page |-> memory'.page]
        BY <1>3
    <2>3. stored' = [meta |-> stored'.meta, page |-> stored'.page] /\ DOMAIN stored'.page = 1 .. NPage
        BY <1>1 DEF MemoryInv, TableTypes
    <2> QED
        BY <2>1, <2>2, <2>3 DEF MemoryInv, TableTypes
<1>7. MetaInv(stored.meta)' /\ MetaInv(memory.meta)'
    <2>1. MetaInv(stored'.meta) /\ MetaInv(memory'.meta)
        BY <1>1, <1>3 DEF MemoryInv
    <2> QED
        BY <2>1
<1>8. (~halted => Layout(free, used) /\ Owned(used, data, size))'
    BY DEF MemoryInv
<1>9. \A t \in Table : (InUse(t)' <=> InUse(t)) /\ \A q \in 1 .. NPage : On(t, q)' <=> On(t, q)
    BY DEF InUse, On
<1>10. WritesInv' /\ BackedInv' /\ PhaseInv'
    <2>1. BackedInv'
        BY DEF MemoryInv, BackedInv
    <2>2. WritesInv'
        <3>1. job'.writes \subseteq 1 .. NPage
            OBVIOUS
        <3> QED
            BY <1>9, <3>1 DEF MemoryInv, WritesInv
    <2> QED
        BY <2>1, <2>2 DEF PhaseInv
<1>11. DurableInv'
    <2> SUFFICES ASSUME NEW t \in Table, durable[t] # Tables!Nothing
                 PROVE  /\ stored'.meta[t].state = "loaded" /\ Stored(t)' = durable[t]
                        /\ InUse(t)' /\ Describes(stored.meta, t)' /\ Describes(memory.meta, t)'
                        /\ \A q \in 1 .. NPage : On(t, q)' => memory'.page[q] = stored'.page[q]
        BY DEF DurableInv
    <2>1. /\ stored'.meta[t].state = "loaded" /\ Stored(t)' = durable[t]
          /\ InUse(t) /\ Describes(stored'.meta, t)
          /\ \A q \in 1 .. NPage : On(t, q) => stored'.page[q] = stored.page[q] /\ memory.page[q] = stored.page[q]
        BY <1>1, MovedStep
    <2>2. Describes(memory.meta, t)
        BY DEF MemoryInv, DurableInv
    <2>3. Describes(stored.meta, t)' /\ Describes(memory.meta, t)'
        BY <1>3, <2>1, <2>2 DEF Describes
    <2>4. \A q \in 1 .. NPage : On(t, q) => memory'.page[q] = stored'.page[q]
        BY <1>5, <2>1
    <2> QED
        BY <1>9, <2>1, <2>3, <2>4
<1>12. HalfInv'
    <2> SUFFICES ASSUME medium = "eeprom", NEW t \in Table
                 PROVE  /\ stored.meta[t].state = "loaded" /\ stored.meta[t].data # 0 => Stored(t) \in completed[t]
                        /\ InUse(t) =>
                              /\ index[t] = Tables!ContentIn(memory'.page, data[t], size[t])
                              /\ index[t] \in completed[t]
        BY <1>1, <1>9 DEF HalfInv, Stored
    <2>1. /\ stored.meta[t].state = "loaded" /\ stored.meta[t].data # 0 => Stored(t) \in completed[t]
          /\ InUse(t) =>
                /\ index[t] = Tables!ContentIn(memory.page, data[t], size[t])
                /\ index[t] \in completed[t]
        BY DEF MemoryInv, HalfInv
    <2>2. ASSUME InUse(t)
          PROVE  Tables!ContentIn(memory'.page, data[t], size[t]) = Tables!ContentIn(memory.page, data[t], size[t])
        <3>1. data[t] \in 1 .. NPage /\ size[t] \in 1 .. NPage /\ data[t] + size[t] <= NPage + 1
            BY <2>2, UsedPages DEF InUse
        <3>2. Alike(memory'.page, memory.page, data[t], size[t])
            BY <1>5, <2>2 DEF On, Alike
        <3> QED
            BY <3>1, <3>2, SameContent
    <2> QED
        BY <2>1, <2>2
<1> QED
    BY <1>6, <1>7, <1>8, <1>10, <1>11, <1>12 DEF MemoryInv

JobTypes == [writes : SUBSET (1 .. NPage), phase : {"idle", "save", "commit", "restart"}, restart : BOOLEAN]

LEMMA Jobs ==
    /\ Tables!Idle \in JobTypes /\ Tables!Idle.writes = {} /\ Tables!Idle.phase = "idle"
    /\ Tables!Saving \in JobTypes /\ Tables!Saving.writes = {} /\ Tables!Saving.phase = "save"
BY DEF JobTypes, Tables!Idle, Tables!Saving

\* Of a table that is not in use, nothing must be restored.
LEMMA NothingDurable ==
    ASSUME MemoryInv, ~halted, NEW t \in Table, ~InUse(t)
    PROVE  durable[t] = Tables!Nothing
BY DEF MemoryInv, DurableInv

\* loadState: the load state of one table changes, and what is made of its content.
LEMMA Changed ==
    ASSUME MemoryInv, ~halted, NEW t \in Table, NEW new \in LoadState, Tables!ChangeState(t, new),
           UNCHANGED <<medium, stored, memory, free, used, data, size, halted>>,
           job' \in {Tables!Idle, Tables!Saving},
           DOMAIN completed' = Table, \A s \in Table : completed[s] \subseteq completed'[s],
           new = "loaded" /\ data[t] # 0 => Tables!ContentIn(memory.page, data[t], size[t]) \in completed'[t],
           DOMAIN durable' = Table, durable'[t] = Tables!Nothing,
           \A s \in Table : s # t => durable'[s] = durable[s]
    PROVE  MemoryInv'
<1>1. /\ state' = [state EXCEPT ![t] = Tables!Entered(t, new)]
      /\ index' = [index EXCEPT ![t] = Tables!Indexed(t, new)]
    BY DEF Tables!ChangeState
<1>2. /\ Tables!Entered(t, new) \in LoadState
      /\ Tables!Entered(t, new) = "loaded" => new = "loaded" /\ (Kind[t] = "objects" => data[t] # 0)
    BY DEF Tables!Entered, LoadState
<1>3. state \in [Table -> LoadState] /\ DOMAIN index = Table
    BY DEF MemoryInv, TableTypes
<1>4. /\ state' \in [Table -> LoadState] /\ DOMAIN index' = Table
      /\ state'[t] = Tables!Entered(t, new) /\ index'[t] = Tables!Indexed(t, new)
      /\ \A s \in Table : s # t => state'[s] = state[s] /\ index'[s] = index[s]
    BY <1>1, <1>2, <1>3
<1>5. job' \in JobTypes /\ job'.writes = {} /\ job'.phase # "commit"
    BY Jobs
<1>6. TableTypes'
    BY <1>4, <1>5 DEF MemoryInv, TableTypes, JobTypes
<1>7. (~halted => Layout(free, used) /\ Owned(used, data, size))'
    BY DEF MemoryInv
<1>8. WritesInv'
    BY <1>5 DEF WritesInv
<1>9. BackedInv'
    BY <1>2, <1>4 DEF MemoryInv, BackedInv
<1>10. \A s \in Table : durable'[s] # Tables!Nothing =>
           /\ durable'[s] = durable[s]
           /\ state'[s] = state[s] /\ data'[s] = data[s] /\ size'[s] = size[s]
    BY <1>4
<1>11. ASSUME NEW s \in Table, InUse(s)'
       PROVE  \/ InUse(s) /\ data'[s] = data[s] /\ size'[s] = size[s] /\ index'[s] = index[s]
              \/ medium = "eeprom" =>
                    /\ index'[s] = Tables!ContentIn(memory.page, data'[s], size'[s])
                    /\ index'[s] \in completed'[s]
    <2>1. CASE s # t
        BY <1>4, <1>11, <2>1 DEF InUse
    <2>2. CASE s = t
        <3>1. Tables!Entered(t, new) = "loaded" /\ data[t] # 0
            BY <1>4, <1>11, <2>2 DEF InUse
        <3>2. index'[t] = Tables!Visible(t)
            BY <1>4, <3>1 DEF Tables!Indexed
        <3>3. medium = "eeprom" => Tables!Visible(t) = Tables!ContentIn(memory.page, data[t], size[t])
            BY <3>1 DEF Tables!Visible, Tables!View, Tables!ContentIn
        <3> QED
            BY <1>2, <2>2, <3>1, <3>2, <3>3
    <2> QED
        BY <2>1, <2>2
<1> QED
    BY <1>5, <1>6, <1>7, <1>8, <1>9, <1>10, <1>11, TablesStep

LEMMA LoadStateSteps ==
    ASSUME MemoryInv, NEW t \in Table,
           Tables!StartLoading(t) \/ Tables!LoadCompleted(t) \/ Tables!Undefined(t)
    PROVE  MemoryInv'
<1>1. DOMAIN completed = Table /\ DOMAIN durable = Table
    BY DEF MemoryInv, TableTypes
<1>2. CASE Tables!StartLoading(t)
    <2>1. /\ ~halted /\ job' = Tables!Idle /\ Tables!ChangeState(t, "loading")
          /\ UNCHANGED <<medium, stored, memory, free, used, data, size, halted, completed>>
          /\ durable' = [durable EXCEPT ![t] = Tables!Nothing]
        BY <1>2 DEF Tables!StartLoading, Tables!Event, Tables!NoLonger, Tables!nvm, Tables!blocks
    <2> QED
        BY <1>1, <2>1, Changed DEF LoadState
<1>3. CASE Tables!Undefined(t)
    <2>1. /\ ~halted /\ job' = Tables!Idle /\ Tables!ChangeState(t, "error")
          /\ UNCHANGED <<medium, stored, memory, free, used, data, size, halted, completed>>
          /\ durable' = [durable EXCEPT ![t] = Tables!Nothing]
        BY <1>3 DEF Tables!Undefined, Tables!Event, Tables!NoLonger, Tables!nvm, Tables!blocks
    <2> QED
        BY <1>1, <2>1, Changed DEF LoadState
<1>4. CASE Tables!LoadCompleted(t)
    <2> DEFINE content == Tables!ContentIn(memory.page, data[t], size[t])
    <2>1. /\ ~halted /\ state[t] = "loading" /\ job' = Tables!Saving /\ Tables!ChangeState(t, "loaded")
          /\ UNCHANGED <<medium, stored, memory, free, used, data, size, halted, durable>>
          /\ completed' = [completed EXCEPT ![t] = IF data[t] = 0 THEN @ ELSE @ \cup {content}]
        BY <1>4 DEF Tables!LoadCompleted, Tables!Event, Tables!nvm, Tables!blocks
    <2>2. /\ DOMAIN completed' = Table /\ \A s \in Table : completed[s] \subseteq completed'[s]
          /\ data[t] # 0 => content \in completed'[t]
        <3> HIDE DEF content
        <3> QED
            BY <1>1, <2>1
    <2>3. durable[t] = Tables!Nothing
        BY <2>1, NothingDurable DEF InUse
    <2> QED
        BY <1>1, <2>1, <2>2, <2>3, Changed DEF LoadState
<1> QED
    BY <1>2, <1>3, <1>4

\* The memory of a loaded table is freed when it is unloaded.
LEMMA UnloadStep ==
    ASSUME MemoryInv, NEW t \in Table, Tables!Unload(t)
    PROVE  MemoryInv'
<1>1. /\ ~halted /\ job' = Tables!Idle /\ Tables!ChangeState(t, "unloaded") /\ Tables!Release(t)
      /\ UNCHANGED <<medium, stored, memory, size, halted, completed>>
      /\ durable' = [durable EXCEPT ![t] = Tables!Nothing]
    BY DEF Tables!Unload, Tables!Event, Tables!NoLonger, Tables!nvm, Tables!blocks
<1>2. DOMAIN completed = Table /\ DOMAIN durable = Table /\ data \in Numbers /\ size \in Numbers
    BY DEF MemoryInv, TableTypes, Numbers
<1>3. CASE UNCHANGED <<free, used, data>>
    BY <1>1, <1>2, <1>3, Changed DEF LoadState
<1>4. CASE data[t] # 0 /\ Tables!Free(t)
    <2>1. /\ used' = {b \in used : b.address # data[t]}
          /\ free' = Tables!Freed(free, Tables!UsedAt(used, data[t]))
          /\ data' = [data EXCEPT ![t] = 0]
        BY <1>4 DEF Tables!Free
    <2>2. Layout(free, used) /\ Owned(used, data, size)
        BY <1>1 DEF MemoryInv
    <2>3. Layout(free', used') /\ Owned(used', data', size')
        <3>1. free' = Tables!FreeForAlloc(t) /\ used' = Tables!UsedForAlloc(t)
            BY <1>4, <2>1 DEF Tables!FreeForAlloc, Tables!UsedForAlloc
        <3>2. Layout(Tables!FreeForAlloc(t), Tables!UsedForAlloc(t))
              /\ Owned(Tables!UsedForAlloc(t), [data EXCEPT ![t] = 0], size)
            BY <2>2, GivenBack DEF MemoryInv
        <3> QED
            BY <1>1, <2>1, <3>1, <3>2
    <2>4. /\ state \in [Table -> LoadState] /\ DOMAIN index = Table
          /\ state' = [state EXCEPT ![t] = Tables!Entered(t, "unloaded")]
          /\ index' = [index EXCEPT ![t] = Tables!Indexed(t, "unloaded")]
          /\ Tables!Entered(t, "unloaded") = "unloaded"
        BY <1>1 DEF MemoryInv, TableTypes, Tables!ChangeState, Tables!Entered
    <2>5. /\ state' \in [Table -> LoadState] /\ DOMAIN index' = Table
          /\ state'[t] = "unloaded" /\ data' \in Numbers /\ DOMAIN durable' = Table
          /\ durable'[t] = Tables!Nothing
          /\ \A s \in Table : s # t => /\ state'[s] = state[s] /\ index'[s] = index[s]
                                       /\ data'[s] = data[s] /\ durable'[s] = durable[s]
        BY <1>1, <1>2, <2>1, <2>4 DEF LoadState, Numbers
    <2>6. job' \in JobTypes /\ job'.writes = {} /\ job'.phase # "commit"
        BY <1>1, Jobs
    <2>7. TableTypes'
        BY <1>1, <1>2, <2>5, <2>6 DEF MemoryInv, TableTypes, JobTypes, Numbers
    <2>8. WritesInv' /\ BackedInv'
        BY <2>5, <2>6 DEF MemoryInv, WritesInv, BackedInv
    <2>9. \A s \in Table : InUse(s)' => InUse(s) /\ s # t
        BY <2>5 DEF InUse
    <2>10. (~halted => Layout(free, used) /\ Owned(used, data, size))'
        BY <2>3
    <2> QED
        BY <1>1, <2>5, <2>6, <2>7, <2>8, <2>9, <2>10, TablesStep
<1> QED
    BY <1>1, <1>3, <1>4 DEF Tables!Release, Tables!blocks

\* allocTable: the table that is being loaded has other memory, and the others what they had.
LEMMA Allocated ==
    ASSUME MemoryInv, ~halted, NEW t \in Table, state[t] = "loading",
           UNCHANGED <<medium, stored, memory, state, index, durable, completed>>,
           data' \in Numbers, size' \in Numbers, halted' \in BOOLEAN,
           \A s \in Table : s # t => data'[s] = data[s] /\ size'[s] = size[s],
           (~halted => Layout(free, used) /\ Owned(used, data, size))',
           job' \in JobTypes, job'.phase # "commit",
           \A s \in Table, p \in 1 .. NPage : s # t /\ data[s] # 0 /\ p \in job'.writes => ~On(s, p)
    PROVE  MemoryInv'
<1>1. TableTypes'
    BY DEF MemoryInv, TableTypes, JobTypes, Numbers
<1>2. \A s \in Table : InUse(s)' => InUse(s) /\ s # t
    BY DEF InUse
<1>3. WritesInv'
    <2> SUFFICES ASSUME NEW s \in Table, InUse(s)', NEW p \in job'.writes PROVE ~On(s, p)'
        BY DEF WritesInv
    <2>1. s # t /\ data[s] # 0 /\ p \in 1 .. NPage
        BY <1>2 DEF InUse, JobTypes
    <2> QED
        BY <2>1 DEF On
<1>4. BackedInv'
    BY DEF MemoryInv, BackedInv
<1>5. durable[t] = Tables!Nothing
    BY NothingDurable DEF InUse
<1> QED
    BY <1>1, <1>2, <1>3, <1>4, <1>5, TablesStep DEF InUse

LEMMA AllocateStep ==
    ASSUME MemoryInv, NEW t \in Table, NEW n \in 0 .. NPage, NEW doFill \in BOOLEAN,
           Tables!Allocate(t, n, doFill)
    PROVE  MemoryInv'
<1> DEFINE F == Tables!FreeForAlloc(t)
           U == Tables!UsedForAlloc(t)
           none == [data EXCEPT ![t] = 0]
<1>1. /\ ~halted /\ job = Tables!Idle /\ state[t] = "loading"
      /\ UNCHANGED <<medium, stored, memory, state, index, durable, completed>>
    BY DEF Tables!Allocate, Tables!Event, Tables!nvm, Tables!ghosts
<1>2. data \in Numbers /\ size \in Numbers /\ Layout(free, used) /\ Owned(used, data, size) /\ TableTypes
    BY <1>1 DEF MemoryInv, TableTypes, Numbers
<1>3. Layout(F, U) /\ Owned(U, none, size)
    BY <1>2, GivenBack
<1>4. none \in Numbers /\ none[t] = 0 /\ \A s \in Table : s # t => none[s] = data[s]
    BY <1>2 DEF Numbers
<1> HIDE DEF F, U, none
<1>5. CASE n = 0 /\ free' = F /\ used' = U /\ data' = none /\ UNCHANGED <<size, job, halted>>
    <2>1. (~halted => Layout(free, used) /\ Owned(used, data, size))'
        BY <1>3, <1>5
    <2>2. job' \in JobTypes /\ job'.writes = {} /\ job'.phase # "commit"
        BY <1>1, <1>5, Jobs
    <2>3. halted' \in BOOLEAN
        BY <1>2, <1>5 DEF TableTypes
    <2> QED
        BY <1>1, <1>2, <1>4, <1>5, <2>1, <2>2, <2>3, Allocated
<1>6. CASE n # 0 /\ free' = F /\ used' = U /\ data' = none /\ halted' = TRUE /\ UNCHANGED <<size, job>>
    <2>1. (~halted => Layout(free, used) /\ Owned(used, data, size))'
        BY <1>6
    <2>2. job' \in JobTypes /\ job'.writes = {} /\ job'.phase # "commit"
        BY <1>1, <1>6, Jobs
    <2> QED
        BY <1>1, <1>2, <1>4, <1>6, <2>1, <2>2, Allocated
<1> DEFINE f == Tables!Best(F, n)
<1>7. CASE /\ n # 0 /\ Tables!Fits(F, n) # {}
           /\ free' = Tables!FreeWithout(F, f, n) /\ used' = U \cup {Tables!Block(f.address, n)}
           /\ data' = [data EXCEPT ![t] = f.address] /\ size' = [size EXCEPT ![t] = n]
           /\ job' = IF doFill THEN [Tables!Idle EXCEPT !.writes = Tables!PagesOf(Tables!Block(f.address, n))]
                               ELSE job
           /\ UNCHANGED halted
    <2>1. f \in F /\ f.size >= n
        <3>1. F \in SUBSET Blocks
            BY <1>3 DEF Layout
        <3> QED
            BY <1>7, <3>1, BestFits
    <2>2. n \in 1 .. NPage /\ n <= f.size
        <3>1. f.size \in Nat
            BY <1>3, <2>1 DEF Layout, Blocks
        <3> QED
            BY <1>7, <2>1, <3>1
    <2> HIDE DEF f
    <2>3. /\ Layout(Tables!FreeWithout(F, f, n), U \cup {Tables!Block(f.address, n)})
          /\ Owned(U \cup {Tables!Block(f.address, n)}, [none EXCEPT ![t] = f.address], [size EXCEPT ![t] = n])
          /\ f.address \in 1 .. NPage
        BY <1>2, <1>3, <1>4, <2>1, <2>2, TakenTable
    <2>4. [none EXCEPT ![t] = f.address] = [data EXCEPT ![t] = f.address]
        BY <1>2 DEF none, Numbers
    <2>5. Layout(free', used') /\ Owned(used', data', size')
        BY <1>7, <2>3, <2>4
    <2>6. data' \in Numbers /\ size' \in Numbers /\ data'[t] = f.address /\ size'[t] = n
          /\ \A s \in Table : s # t => data'[s] = data[s] /\ size'[s] = size[s]
        BY <1>2, <1>7, <2>3 DEF Numbers
    <2>7. /\ data'[t] + size'[t] <= NPage + 1
          /\ \A s \in Table : s # t /\ data'[s] # 0 =>
                 data'[s] + size'[s] <= data'[t] \/ data'[t] + size'[t] <= data'[s]
        <3> HIDE DEF F, U
        <3>1. data'[t] # 0
            BY <2>3, <2>6
        <3> QED
            BY <2>5, <2>6, <3>1, OwnBlock
    <2>8. /\ job' \in JobTypes /\ job'.phase # "commit"
          /\ \A p \in job'.writes : f.address <= p /\ p < f.address + n
        <3>1. CASE doFill
            <4>1. job' = [Tables!Idle EXCEPT !.writes = f.address .. (f.address + n - 1)]
                BY <1>7, <3>1
            <4>2. f.address .. (f.address + n - 1) \in SUBSET (1 .. NPage)
                BY <2>2, <2>3, <2>6, <2>7
            <4>3. \A p \in f.address .. (f.address + n - 1) : f.address <= p /\ p < f.address + n
                BY <2>2, <2>3
            <4> DEFINE P == f.address .. (f.address + n - 1)
            <4> HIDE DEF P
            <4>4. job' \in JobTypes /\ job'.phase # "commit" /\ job'.writes = P
                BY <4>1, <4>2 DEF JobTypes, Tables!Idle, P
            <4> QED
                BY <4>3, <4>4 DEF P
        <3>2. CASE ~doFill
            BY <1>1, <1>7, <3>2, Jobs
        <3> QED
            BY <3>1, <3>2
    <2>9. ASSUME NEW s \in Table, NEW p \in 1 .. NPage, s # t, data[s] # 0, p \in job'.writes
          PROVE  ~On(s, p)
        <3>1. data[s] + size[s] <= f.address \/ f.address + n <= data[s]
            BY <2>6, <2>7, <2>9
        <3>2. data[s] \in 0 .. NPage /\ size[s] \in 0 .. NPage
            BY <1>2 DEF Numbers
        <3> QED
            BY <2>2, <2>3, <2>8, <2>9, <3>1, <3>2 DEF On
    <2>10. (~halted => Layout(free, used) /\ Owned(used, data, size))'
        BY <2>5
    <2>11. halted' \in BOOLEAN
        BY <1>2, <1>7 DEF TableTypes
    <2> QED
        BY <1>1, <2>6, <2>8, <2>9, <2>10, <2>11, Allocated
<1> QED
    BY <1>5, <1>6, <1>7 DEF Tables!Allocate, F, U, none

LEMMA MemoryWriteStep ==
    ASSUME MemoryInv, NEW t \in Table, NEW i \in 1 .. NPage, NEW content, Tables!MemoryWrite(t, i, content)
    PROVE  MemoryInv'
<1> DEFINE p == data[t] + i - 1
<1>1. /\ ~halted /\ job = Tables!Idle /\ state[t] = "loading" /\ data[t] # 0 /\ i <= size[t]
      /\ Tables!WriteNonVolatileMemory(p, content) /\ job' = job
      /\ UNCHANGED <<medium, free, used, state, data, size, index, halted, completed, durable>>
    BY DEF Tables!MemoryWrite, Tables!blocks, Tables!ram, Tables!ghosts
<1>2. p \in 1 .. NPage /\ On(t, p)
    BY <1>1, UsedPages DEF On
<1>3. \A s \in Table : InUse(s) => ~On(s, p)
    BY <1>1, <1>2, UsedPages DEF InUse
<1>4. job' \in JobTypes /\ job'.phase # "commit"
    BY <1>1, Jobs
<1> HIDE DEF p
<1> QED
    BY <1>1, <1>2, <1>3, <1>4, WriteStep DEF JobTypes

LEMMA FillPageStep ==
    ASSUME MemoryInv, Tables!FillPage
    PROVE  MemoryInv'
<1>1. PICK p \in job.writes : /\ Tables!WriteNonVolatileMemory(p, 0)
                              /\ job' = [job EXCEPT !.writes = @ \ {p}]
    BY DEF Tables!FillPage
<1>2. ~halted /\ UNCHANGED <<medium, free, used, state, data, size, index, halted, completed, durable>>
    BY DEF Tables!FillPage, Tables!blocks, Tables!ram, Tables!ghosts
<1>3. job \in JobTypes /\ p \in 1 .. NPage
    BY DEF MemoryInv, TableTypes, JobTypes
<1>4. job.phase # "commit"
    BY DEF MemoryInv, PhaseInv
<1>5. job' \in JobTypes /\ job'.phase = job.phase /\ job'.writes \subseteq job.writes
    BY <1>1, <1>3 DEF JobTypes
<1>6. \A s \in Table : InUse(s) => ~On(s, p)
    BY DEF MemoryInv, WritesInv
<1> QED
    BY <1>1, <1>2, <1>3, <1>4, <1>5, <1>6, WriteStep DEF JobTypes

\* writeMemory: the metadata is that of the tables.
LEMMA MetadataTerms ==
    ASSUME MemoryInv, ~halted
    PROVE  /\ MetaInv(Tables!Metadata)
           /\ \A t \in Table : /\ Tables!Metadata[t].state = state[t]
                               /\ Tables!Metadata[t].data = data[t]
                               /\ Tables!Metadata[t].size = size[t]
<1> DEFINE m == Tables!Metadata
<1>1. \A t \in Table : /\ m[t].state = state[t] /\ m[t].data = data[t] /\ m[t].size = size[t]
                       /\ m[t].block = IF data[t] = 0 THEN 0 ELSE Tables!UsedAt(used, data[t]).size
    BY DEF Tables!Metadata
<1>2. m = [t \in Table |-> [state |-> m[t].state, size |-> m[t].size, data |-> m[t].data, block |-> m[t].block]]
    BY DEF Tables!Metadata
<1> HIDE DEF m
<1>3. state \in [Table -> LoadState] /\ data \in Numbers /\ size \in Numbers
      /\ Layout(free, used) /\ Owned(used, data, size)
    BY DEF MemoryInv, TableTypes, Numbers
<1>4. ASSUME NEW t \in Table, data[t] # 0
      PROVE  m[t].block = size[t] /\ size[t] \in 1 .. NPage /\ data[t] + size[t] <= NPage + 1
    <2> DEFINE b == [address |-> data[t], size |-> size[t]]
    <2>1. b \in used /\ b.address = data[t] /\ b.size = size[t]
        BY <1>3, <1>4 DEF Owned
    <2>2. Tables!UsedAt(used, b.address) = b
        <3> HIDE DEF b
        <3> QED
            BY <1>3, <2>1, UsedBlocks
    <2>3. m[t].block = size[t]
        BY <1>1, <1>4, <2>1, <2>2
    <2> QED
        BY <1>4, <2>3, UsedPages
<1>5. \A t \in Table : m[t].block \in 0 .. NPage
    BY <1>1, <1>4
<1>6. m \in [Table -> [state : LoadState \cup {"none"}, size : 0 .. NPage, data : 0 .. NPage, block : 0 .. NPage]]
    <2>1. \A t \in Table : [state |-> m[t].state, size |-> m[t].size, data |-> m[t].data, block |-> m[t].block]
              \in [state : LoadState \cup {"none"}, size : 0 .. NPage, data : 0 .. NPage, block : 0 .. NPage]
        BY <1>1, <1>3, <1>5 DEF Numbers
    <2> QED
        BY <1>2, <2>1
<1>7. \A t \in Table : Kind[t] = "objects" /\ state[t] = "loaded" => data[t] # 0
    BY DEF MemoryInv, BackedInv
<1>8. MetaInv(m)
    BY <1>1, <1>3, <1>4, <1>6, <1>7 DEF MetaInv
<1> QED
    BY <1>1, <1>8 DEF m

LEMMA WriteMetadataStep ==
    ASSUME MemoryInv, Tables!WriteMetadata
    PROVE  MemoryInv'
<1>1. /\ ~halted /\ job.writes = {} /\ stored' = Tables!StoredAfterMove(0)
      /\ memory' = [memory EXCEPT !.meta = Tables!Metadata] /\ job' = [job EXCEPT !.phase = "commit"]
      /\ UNCHANGED <<medium, free, used, state, data, size, index, halted, completed, durable>>
    BY DEF Tables!WriteMetadata, Tables!blocks, Tables!ram, Tables!ghosts
<1>2. stored' \in {stored, memory} /\ (medium = "eeprom" => stored' = stored)
    BY <1>1, StoredOrMemory
<1>3. memory' = [meta |-> Tables!Metadata, page |-> memory.page]
      /\ memory'.meta = Tables!Metadata /\ memory'.page = memory.page
    <2>1. memory = [meta |-> memory.meta, page |-> memory.page]
        BY DEF MemoryInv, TableTypes
    <2> QED
        BY <1>1, <2>1
<1>4. Tables!Metadata' = Tables!Metadata
    BY <1>1 DEF Tables!Metadata
<1>5. job' \in JobTypes /\ job'.writes = {}
    BY <1>1 DEF MemoryInv, TableTypes, JobTypes
<1>6. TableTypes'
    <2>1. stored' = [meta |-> stored'.meta, page |-> stored'.page] /\ DOMAIN stored'.page = 1 .. NPage
        BY <1>2 DEF MemoryInv, TableTypes
    <2> QED
        BY <1>1, <1>3, <1>5, <2>1 DEF MemoryInv, TableTypes, JobTypes
<1>7. MetaInv(stored.meta)' /\ MetaInv(memory.meta)'
    <2>1. MetaInv(stored'.meta)
        BY <1>2 DEF MemoryInv
    <2>2. MetaInv(memory'.meta)
        BY <1>1, <1>3, MetadataTerms
    <2> QED
        BY <2>1, <2>2
<1>8. (~halted => Layout(free, used) /\ Owned(used, data, size))'
    BY <1>1 DEF MemoryInv
<1>9. WritesInv' /\ BackedInv' /\ PhaseInv'
    BY <1>1, <1>3, <1>4, <1>5 DEF MemoryInv, WritesInv, BackedInv, PhaseInv
<1>10. DurableInv'
    <2> SUFFICES ASSUME NEW t \in Table, durable[t] # Tables!Nothing
                 PROVE  /\ stored'.meta[t].state = "loaded" /\ Stored(t)' = durable[t]
                        /\ InUse(t)' /\ Describes(stored.meta, t)' /\ Describes(memory.meta, t)'
                        /\ \A q \in 1 .. NPage : On(t, q)' => memory'.page[q] = stored'.page[q]
        BY <1>1 DEF DurableInv
    <2>1. /\ stored'.meta[t].state = "loaded" /\ Stored(t)' = durable[t]
          /\ InUse(t) /\ Describes(stored'.meta, t)
          /\ \A q \in 1 .. NPage : On(t, q) => stored'.page[q] = stored.page[q] /\ memory.page[q] = stored.page[q]
        BY <1>1, <1>2, MovedStep
    <2>2. Describes(stored.meta, t)' /\ Describes(memory.meta, t)' /\ InUse(t)'
        BY <1>1, <1>3, <2>1, MetadataTerms DEF Describes, InUse
    <2>3. \A q \in 1 .. NPage : On(t, q)' => memory'.page[q] = stored'.page[q]
        BY <1>1, <1>3, <2>1 DEF On
    <2> QED
        BY <2>1, <2>2, <2>3
<1>11. HalfInv'
    <2>1. \A t \in Table : InUse(t)' <=> InUse(t)
        BY <1>1 DEF InUse
    <2>2. medium = "eeprom" => \A t \in Table : Stored(t)' = Stored(t)
        BY <1>2 DEF Stored
    <2> QED
        BY <1>1, <1>2, <1>3, <2>1, <2>2 DEF MemoryInv, HalfInv
<1> QED
    BY <1>6, <1>7, <1>8, <1>9, <1>10, <1>11 DEF MemoryInv

LEMMA CommitStep ==
    ASSUME MemoryInv, Tables!Commit
    PROVE  MemoryInv'
<1>1. /\ ~halted /\ stored' = memory
      /\ job' = IF job.restart THEN [job EXCEPT !.phase = "restart"] ELSE Tables!Idle
      /\ durable' = [t \in Table |-> IF InUse(t) THEN Tables!ContentIn(memory.page, data[t], size[t])
                                                 ELSE durable[t]]
      /\ UNCHANGED <<medium, memory, free, used, state, data, size, index, halted, completed>>
    BY DEF Tables!Commit, Tables!blocks, Tables!ram, InUse
<1>2. memory.meta = Tables!Metadata /\ job.writes = {}
    BY DEF Tables!Commit, MemoryInv, PhaseInv
<1>3. job' \in JobTypes /\ job'.writes = {} /\ job'.phase # "commit"
    <2>1. job \in JobTypes
        BY DEF MemoryInv, TableTypes, JobTypes
    <2> QED
        BY <1>1, <1>2, <2>1, Jobs DEF JobTypes
<1>4. TableTypes'
    BY <1>1, <1>3 DEF MemoryInv, TableTypes, JobTypes
<1>5. MetaInv(stored.meta)' /\ MetaInv(memory.meta)' /\ (~halted => Layout(free, used) /\ Owned(used, data, size))'
    BY <1>1 DEF MemoryInv
<1>6. WritesInv' /\ BackedInv' /\ PhaseInv'
    BY <1>1, <1>3 DEF MemoryInv, WritesInv, BackedInv, PhaseInv
<1>7. \A t \in Table : /\ Describes(stored.meta, t)' <=> state[t] = "loaded"
                       /\ stored'.meta[t].state = state[t] /\ stored'.meta[t].data = data[t]
                       /\ Stored(t)' = Tables!ContentIn(memory.page, data[t], size[t])
    BY <1>1, <1>2, MetadataTerms DEF Describes, Stored
<1>8. DurableInv'
    <2> SUFFICES ASSUME NEW t \in Table, durable'[t] # Tables!Nothing
                 PROVE  /\ stored'.meta[t].state = "loaded" /\ Stored(t)' = durable'[t]
                        /\ InUse(t)' /\ Describes(stored.meta, t)' /\ Describes(memory.meta, t)'
                        /\ \A q \in 1 .. NPage : On(t, q)' => memory'.page[q] = stored'.page[q]
        BY <1>1 DEF DurableInv
    <2>1. InUse(t) /\ durable'[t] = Tables!ContentIn(memory.page, data[t], size[t])
        BY <1>1, NothingDurable
    <2>2. InUse(t)' /\ Describes(memory.meta, t)'
        BY <1>1, <1>2, <2>1, MetadataTerms DEF InUse, Describes
    <2> QED
        BY <1>1, <1>7, <2>1, <2>2 DEF InUse
<1>9. HalfInv'
    <2>1. \A t \in Table : InUse(t)' <=> InUse(t)
        BY <1>1 DEF InUse
    <2> QED
        BY <1>1, <1>7, <2>1 DEF MemoryInv, HalfInv, InUse
<1> QED
    BY <1>4, <1>5, <1>6, <1>8, <1>9 DEF MemoryInv

LEMMA SaveTimeoutStep ==
    ASSUME MemoryInv, Tables!SaveTimeout
    PROVE  MemoryInv'
<1>1. /\ ~halted /\ job' = Tables!Saving
      /\ UNCHANGED <<medium, stored, memory, free, used, state, data, size, index, halted, completed, durable>>
    BY DEF Tables!SaveTimeout, Tables!nvm, Tables!blocks, Tables!ram, Tables!ghosts
<1>2. job' \in JobTypes /\ job'.writes = {} /\ job'.phase # "commit"
    BY <1>1, Jobs
<1>3. TableTypes'
    BY <1>1, <1>2 DEF MemoryInv, TableTypes, JobTypes
<1>4. WritesInv' /\ BackedInv'
    BY <1>1, <1>2 DEF MemoryInv, WritesInv, BackedInv
<1>5. (~halted => Layout(free, used) /\ Owned(used, data, size))'
    BY <1>1 DEF MemoryInv
<1> QED
    BY <1>1, <1>2, <1>3, <1>4, <1>5, TablesStep DEF InUse

LEMMA One == \A x : Tables!Cardinality({x}) = 1
<1>1. \A S : Tables!Cardinality(S) = Cardinality(S)
    BY DEF Tables!Cardinality, Cardinality
<1> QED
    BY <1>1, FS_Singleton

\* Nothing is used.
LEMMA AllFree ==
    /\ Layout({Tables!Block(1, NPage)}, {})
    /\ Owned({}, [t \in Table |-> 0], [t \in Table |-> 0])
<1> DEFINE all == [address |-> 1, size |-> NPage]
<1>1. all \in Blocks /\ all.address = 1 /\ all.size = NPage
    BY DEF Blocks
<1>2. Owned({}, [t \in Table |-> 0], [t \in Table |-> 0])
    BY DEF Owned
<1> HIDE DEF all
<1>3. Layout({all}, {})
    BY <1>1 DEF Layout, Covered
<1> QED
    BY <1>2, <1>3 DEF all

\* masterReset: the tables that are reset have no memory, and what is cleared was theirs.
LEMMA MasterResetStep ==
    ASSUME MemoryInv, NEW code, Tables!MasterReset(code)
    PROVE  MemoryInv'
<1> DEFINE reset == Tables!ResetBy(code)
           given == {u \in used : \E t \in reset : data[t] = u.address}
           e == [t \in Table |-> IF t \in reset THEN 0 ELSE data[t]]
           m == [t \in Table |-> IF t \in reset /\ data[t] # 0 THEN 0 ELSE size[t]]
<1>1. /\ ~halted /\ job' = [writes |-> Tables!PagesOfTables(reset), phase |-> "save", restart |-> TRUE]
      /\ state' = [t \in Table |-> IF t \in reset THEN "unloaded" ELSE state[t]]
      /\ index' = [t \in Table |-> IF t \in reset THEN Tables!Unindexed(t) ELSE index[t]]
      /\ used' = used \ given /\ free' = Tables!FreeBeside(used \ given)
      /\ data' = e /\ size' = m
      /\ durable' = [t \in Table |-> IF t \in reset THEN Tables!Nothing ELSE durable[t]]
      /\ UNCHANGED <<medium, stored, memory, halted, completed>>
    BY DEF Tables!MasterReset, Tables!Event, Tables!nvm
<1>2. data \in Numbers /\ size \in Numbers /\ Layout(free, used) /\ Owned(used, data, size)
      /\ state \in [Table -> LoadState]
    BY <1>1 DEF MemoryInv, TableTypes, Numbers
<1>3. reset \in SUBSET Table
    BY DEF Tables!ResetBy
<1> HIDE DEF reset
<1>4. /\ e \in Numbers /\ m \in Numbers
      /\ \A t \in reset : e[t] = 0
      /\ \A t \in Table \ reset : e[t] = data[t] /\ m[t] = size[t]
    BY <1>2, <1>3 DEF Numbers
<1>5. Layout(free', used') /\ Owned(used', data', size')
    <2>1. /\ Layout(Tables!FreeBeside(Remaining(used, data, reset)), Remaining(used, data, reset))
          /\ Owned(Remaining(used, data, reset), e, m)
        <3> HIDE DEF e, m
        <3> QED
            BY <1>2, <1>3, <1>4, ResetTables
    <2>2. used \ given = Remaining(used, data, reset)
        BY DEF Remaining
    <2> HIDE DEF e, m, given
    <2> QED
        BY <1>1, <2>1, <2>2
<1>6. \A t \in Table :
          /\ t \in reset => state'[t] = "unloaded" /\ durable'[t] = Tables!Nothing
          /\ t \notin reset => /\ state'[t] = state[t] /\ data'[t] = data[t] /\ size'[t] = size[t]
                               /\ index'[t] = index[t] /\ durable'[t] = durable[t]
    BY <1>1
<1>7. ASSUME NEW p \in Tables!PagesOfTables(reset)
      PROVE  p \in 1 .. NPage /\ \E t \in reset : data[t] # 0 /\ On(t, p)
    <2>1. PICK b \in used : p \in Tables!PagesOf(b) /\ \E t \in reset : data[t] = b.address
        BY DEF Tables!PagesOfTables
    <2>2. PICK t \in reset : data[t] = b.address
        BY <2>1
    <2>3. b \in Blocks
        BY <1>2 DEF Layout
    <2>4. data[t] # 0
        BY <2>2, <2>3 DEF Blocks
    <2>5. [address |-> data[t], size |-> size[t]] \in used
        BY <1>2, <1>3, <2>4 DEF Owned
    <2> DEFINE c == [address |-> data[t], size |-> size[t]]
    <2>6. c \in used /\ c.address = b.address
        BY <2>2, <2>5
    <2> HIDE DEF c
    <2>7. c = b
        BY <1>2, <2>6, UsedBlocks
    <2>8. b.size = size[t]
        BY <2>7 DEF c
    <2>9. p \in b.address .. (b.address + b.size - 1)
        BY <2>1
    <2> QED
        BY <2>2, <2>3, <2>4, <2>8, <2>9 DEF On, Blocks
<1>8. job' \in JobTypes /\ job'.phase # "commit" /\ job'.writes = Tables!PagesOfTables(reset)
    <2>1. Tables!PagesOfTables(reset) \in SUBSET (1 .. NPage)
        BY <1>7
    <2> QED
        BY <1>1, <2>1 DEF JobTypes
<1>9. TableTypes'
    <2>1. state' \in [Table -> LoadState]
        BY <1>1, <1>2 DEF LoadState
    <2>2. DOMAIN index' = Table /\ DOMAIN durable' = Table
        BY <1>1
    <2>3. data' \in Numbers /\ size' \in Numbers
        BY <1>1, <1>4
    <2> QED
        BY <1>1, <1>8, <2>1, <2>2, <2>3 DEF MemoryInv, TableTypes, JobTypes, Numbers
<1>10. \A t \in Table : InUse(t)' => InUse(t) /\ t \notin reset
    BY <1>6 DEF InUse
<1>11. WritesInv'
    <2> SUFFICES ASSUME NEW s \in Table, InUse(s)', NEW p \in job'.writes PROVE ~On(s, p)'
        BY DEF WritesInv
    <2>1. p \in 1 .. NPage /\ \E t \in reset : data[t] # 0 /\ On(t, p)
        BY <1>7, <1>8
    <2>2. s \notin reset /\ data[s] # 0
        BY <1>10 DEF InUse
    <2>3. ~On(s, p)
        BY <1>1, <1>3, <2>1, <2>2, UsedPages
    <2> QED
        BY <1>6, <2>2, <2>3 DEF On
<1>12. BackedInv'
    BY <1>6 DEF MemoryInv, BackedInv
<1>13. (~halted => Layout(free, used) /\ Owned(used, data, size))'
    BY <1>5
<1> HIDE DEF e, m, given
<1> QED
    BY <1>1, <1>6, <1>8, <1>9, <1>10, <1>11, <1>12, <1>13, TablesStep

\* readMemory: what is stored comes into force again, or nothing does.
LEMMA BootStep ==
    ASSUME MemoryInv, ~halted, NEW check, Tables!Boot(check), UNCHANGED <<medium, stored, completed>>
    PROVE  MemoryInv'
<1> DEFINE meta == stored.meta
<1>1. memory' = stored /\ job' = Tables!Idle
    BY DEF Tables!Boot
<1>2. job' \in JobTypes /\ job'.writes = {} /\ job'.phase # "commit"
    BY <1>1, Jobs
<1>3. MetaInv(meta)
    BY DEF MemoryInv
<1>4. MetaInv(stored.meta)' /\ MetaInv(memory.meta)'
    BY <1>1, <1>3
<1>5. WritesInv' /\ PhaseInv'
    BY <1>2 DEF WritesInv, PhaseInv
<1>6. \A t \in Table : Stored(t)' = Stored(t)
    BY DEF Stored
<1>7. CASE Tables!Restorable(check)
    <2>1. /\ state' = [t \in Table |-> meta[t].state] /\ size' = [t \in Table |-> meta[t].size]
          /\ data' = [t \in Table |-> meta[t].data]
          /\ DOMAIN index' = Table
          /\ \A t \in Table : index'[t] = IF \/ meta[t].data = 0
                                             \/ Kind[t] # "objects" /\ meta[t].state # "loaded"
                                          THEN Tables!Nothing ELSE Stored(t)
          /\ used' = Tables!RestoredUsed(meta) /\ free' = Tables!FreeBeside(Tables!RestoredUsed(meta))
          /\ halted' = ~Tables!Disjoint(meta) /\ durable' = durable
        BY <1>7 DEF Tables!Boot, Stored
    <2>2. meta # Tables!Unwritten
        BY <1>7 DEF Tables!Restorable
    <2> HIDE DEF meta
    <2>3. state' \in [Table -> LoadState] /\ data' \in Numbers /\ size' \in Numbers
        BY <1>3, <2>1, <2>2 DEF MetaInv, Numbers
    <2>4. halted' \in BOOLEAN
        <3>1. Tables!Disjoint(meta) \in BOOLEAN
            BY DEF Tables!Disjoint
        <3> HIDE DEF Tables!Disjoint
        <3> QED
            BY <2>1, <3>1
    <2>5. TableTypes'
        BY <1>1, <1>2, <2>1, <2>3, <2>4 DEF MemoryInv, TableTypes, JobTypes, Numbers
    <2>6. (~halted => Layout(free, used) /\ Owned(used, data, size))'
        BY <1>3, <2>1, RestoredTables
    <2>7. BackedInv'
        BY <1>3, <2>1 DEF MetaInv, BackedInv
    <2>8. DurableInv'
        <3> SUFFICES ASSUME NEW t \in Table, durable[t] # Tables!Nothing
                     PROVE  /\ stored.meta[t].state = "loaded" /\ Stored(t) = durable[t]
                            /\ InUse(t)' /\ Describes(stored.meta, t)' /\ Describes(memory.meta, t)'
            BY <1>1, <1>6, <2>1 DEF DurableInv
        <3>1. /\ stored.meta[t].state = "loaded" /\ Stored(t) = durable[t]
              /\ InUse(t) /\ Describes(stored.meta, t)
            BY DEF MemoryInv, DurableInv
        <3>2. InUse(t)' /\ Describes(stored.meta, t)'
            BY <2>1, <3>1 DEF InUse, Describes, meta
        <3> QED
            BY <1>1, <3>1, <3>2
    <2>9. HalfInv'
        <3> SUFFICES ASSUME medium = "eeprom", NEW t \in Table
                     PROVE  /\ stored.meta[t].state = "loaded" /\ stored.meta[t].data # 0 => Stored(t) \in completed[t]
                            /\ InUse(t)' =>
                                  /\ index'[t] = Tables!ContentIn(memory'.page, data'[t], size'[t])
                                  /\ index'[t] \in completed[t]
            BY <1>6 DEF HalfInv
        <3>1. stored.meta[t].state = "loaded" /\ stored.meta[t].data # 0 => Stored(t) \in completed[t]
            BY DEF MemoryInv, HalfInv
        <3>2. ASSUME InUse(t)'
              PROVE  stored.meta[t].state = "loaded" /\ stored.meta[t].data # 0 /\ index'[t] = Stored(t)
            BY <2>1, <3>2 DEF InUse, meta
        <3>3. Stored(t) = Tables!ContentIn(memory'.page, data'[t], size'[t])
            BY <1>1, <2>1 DEF Stored, meta
        <3> QED
            BY <3>1, <3>2, <3>3
    <2> QED
        BY <1>4, <1>5, <2>5, <2>6, <2>7, <2>8, <2>9 DEF MemoryInv
<1>8. CASE ~Tables!Restorable(check)
    <2>1. /\ state' = [t \in Table |-> "unloaded"] /\ size' = [t \in Table |-> 0] /\ data' = [t \in Table |-> 0]
          /\ index' = [t \in Table |-> Tables!Nothing] /\ durable' = [t \in Table |-> Tables!Nothing]
          /\ used' = {} /\ free' = {Tables!Block(1, NPage)} /\ halted' = FALSE
        BY <1>8 DEF Tables!Boot
    <2>2. TableTypes'
        <3>1. /\ state' \in [Table -> LoadState] /\ DOMAIN index' = Table /\ DOMAIN durable' = Table
              /\ data' \in [Table -> 0 .. NPage] /\ size' \in [Table -> 0 .. NPage]
            BY <2>1 DEF LoadState
        <3> QED
            BY <1>1, <1>2, <2>1, <3>1 DEF MemoryInv, TableTypes, JobTypes
    <2>3. (~halted => Layout(free, used) /\ Owned(used, data, size))'
        BY <2>1, AllFree
    <2>4. BackedInv' /\ DurableInv'
        BY <2>1 DEF BackedInv, DurableInv
    <2>5. \A t \in Table : ~InUse(t)'
        BY <2>1 DEF InUse
    <2>6. HalfInv'
        BY <1>6, <2>5 DEF MemoryInv, HalfInv
    <2> QED
        BY <1>4, <1>5, <2>2, <2>3, <2>4, <2>6 DEF MemoryInv
<1> QED
    BY <1>7, <1>8

-----------------------------------------------------------------------------
(* The theorems *)

LEMMA MemoryInitially == Tables!Init => MemoryInv
<1> SUFFICES ASSUME Tables!Init PROVE MemoryInv
    OBVIOUS
<1>1. /\ stored = [meta |-> Tables!Unwritten, page |-> [p \in 1 .. NPage |-> 0]] /\ memory = stored
      /\ medium \in {"eeprom", "flash"} /\ halted = FALSE /\ job = Tables!Idle
      /\ state = [t \in Table |-> "unloaded"] /\ size = [t \in Table |-> 0] /\ data = [t \in Table |-> 0]
      /\ index = [t \in Table |-> Tables!Nothing] /\ durable = [t \in Table |-> Tables!Nothing]
      /\ completed = [t \in Table |-> {}]
      /\ used = {} /\ free = {Tables!Block(1, NPage)}
    BY DEF Tables!Init
<1>2. stored.meta = Tables!Unwritten /\ memory.meta = Tables!Unwritten
    BY <1>1
<1>3. \A t \in Table : ~InUse(t) /\ stored.meta[t].state = "none"
    BY <1>1 DEF InUse, Tables!Unwritten
<1>4. MetaInv(Tables!Unwritten)
    BY DEF MetaInv, Tables!Unwritten
<1>5. TableTypes
    <2>1. /\ state \in [Table -> LoadState] /\ DOMAIN index = Table /\ DOMAIN durable = Table
          /\ data \in [Table -> 0 .. NPage] /\ size \in [Table -> 0 .. NPage] /\ DOMAIN completed = Table
        BY <1>1 DEF LoadState
    <2>2. stored = [meta |-> stored.meta, page |-> stored.page] /\ DOMAIN stored.page = 1 .. NPage
        BY <1>1
    <2> QED
        BY <1>1, <2>1, <2>2, Jobs DEF TableTypes, JobTypes
<1>6. Layout(free, used) /\ Owned(used, data, size)
    BY <1>1, AllFree
<1>7. WritesInv /\ PhaseInv /\ BackedInv /\ DurableInv /\ HalfInv
    BY <1>1, <1>3, Jobs DEF WritesInv, PhaseInv, BackedInv, DurableInv, HalfInv
<1> QED
    BY <1>2, <1>4, <1>5, <1>6, <1>7 DEF MemoryInv

LEMMA MemoryInductive == MemoryInv /\ [Tables!Next]_(Tables!vars) => MemoryInv'
<1> SUFFICES ASSUME MemoryInv, [Tables!Next]_(Tables!vars) PROVE MemoryInv'
    OBVIOUS
<1>1. CASE UNCHANGED Tables!vars
    <2>1. UNCHANGED <<medium, stored, memory, free, used, state, data, size, index, job, halted, completed, durable>>
        BY <1>1 DEF Tables!vars, Tables!nvm, Tables!blocks, Tables!ram, Tables!ghosts
    <2> QED
        BY <2>1 DEF MemoryInv, TableTypes, MetaInv, WritesInv, PhaseInv, BackedInv, DurableInv, HalfInv,
                    InUse, On, Describes, Stored, Tables!Metadata
<1>2. ASSUME NEW t \in Table, Tables!Load(t) PROVE MemoryInv'
    <2>1. CASE Tables!StartLoading(t) \/ Tables!LoadCompleted(t) \/ Tables!Undefined(t)
        BY <2>1, LoadStateSteps
    <2>2. CASE Tables!Unload(t)
        BY <2>2, UnloadStep
    <2>3. ASSUME NEW n \in 0 .. NPage, NEW doFill \in BOOLEAN, Tables!Allocate(t, n, doFill) PROVE MemoryInv'
        BY <2>3, AllocateStep
    <2>4. ASSUME NEW i \in 1 .. NPage, NEW content \in Versions, Tables!MemoryWrite(t, i, content) PROVE MemoryInv'
        BY <2>4, MemoryWriteStep
    <2> QED
        BY <1>2, <2>1, <2>2, <2>3, <2>4 DEF Tables!Load
<1>3. CASE Tables!Restart
    BY <1>3, BootStep DEF Tables!Restart
<1>4. CASE Tables!Work
    BY <1>3, <1>4, FillPageStep, WriteMetadataStep, CommitStep, SaveTimeoutStep DEF Tables!Work
<1>5. ASSUME NEW check, Tables!PowerLoss(check) PROVE MemoryInv'
    BY <1>5, BootStep DEF Tables!PowerLoss
<1> QED
    BY <1>1, <1>2, <1>4, <1>5, MasterResetStep DEF Tables!Next

LEMMA MemoryAlways == Tables!Spec => []MemoryInv
BY MemoryInitially, MemoryInductive, PTL DEF Tables!Spec

\* No order of allocations, unloads, resets and losses of power loses memory or gives it out
\* twice (addToFreeList, allocMemory, addNewUsedBlock of memory.cpp).
THEOREM BlocksAlwaysPartition == Tables!Spec => []BlocksPartition
<1>1. MemoryInv => BlocksPartition
    <2> SUFFICES ASSUME MemoryInv, ~halted PROVE Tables!BlocksPartition
        BY DEF BlocksPartition, Tables!BlocksPartition
    <2>1. Layout(free, used) /\ Owned(used, data, size) /\ data \in Numbers /\ size \in Numbers
        BY DEF MemoryInv, TableTypes, Numbers
    <2>2. ASSUME NEW p \in 1 .. NPage
          PROVE  Tables!Cardinality({b \in free \cup used : p \in Tables!PagesOf(b)}) = 1
        <3>1. PICK b \in free \cup used : b.address <= p /\ p < b.address + b.size
            BY <2>1 DEF Layout, Covered
        <3>2. b \in Blocks /\ \A c \in free \cup used : c \in Blocks /\ (c # b => Clear(c, b))
            BY <2>1 DEF Layout
        <3>3. p \in Tables!PagesOf(b)
            BY <3>1, <3>2 DEF Blocks
        <3>4. \A c \in free \cup used : p \in Tables!PagesOf(c) => c = b
            BY <3>2, <3>3, ClearBlocks
        <3>5. {c \in free \cup used : p \in Tables!PagesOf(c)} = {b}
            BY <3>3, <3>4
        <3> QED
            BY <3>5, One
    <2>3. ASSUME NEW b \in used PROVE Tables!Cardinality({t \in Table : data[t] = b.address}) = 1
        <3>1. PICK t \in Table : data[t] = b.address
            BY <2>1 DEF Owned
        <3>2. b.address # 0
            BY <2>1 DEF Layout, Blocks
        <3>3. {s \in Table : data[s] = b.address} = {t}
            BY <2>1, <3>1, <3>2 DEF Owned
        <3> QED
            BY <3>3, One
    <2>4. \A t \in Table : data[t] # 0 => \E b \in used : b.address = data[t] /\ b.size = size[t]
        <3> SUFFICES ASSUME NEW t \in Table, data[t] # 0
                     PROVE  \E b \in used : b.address = data[t] /\ b.size = size[t]
            OBVIOUS
        <3>1. [address |-> data[t], size |-> size[t]] \in used
            BY <2>1 DEF Owned
        <3> QED
            BY <3>1
    <2>5. free \cap used = {} /\ \A f, g \in free : f.address + f.size # g.address
        BY <2>1 DEF Layout
    <2> QED
        BY <2>2, <2>3, <2>4, <2>5 DEF Tables!BlocksPartition
<1> QED
    BY <1>1, MemoryAlways, PTL

\* A group object table in use has content, and what a table in use has made of its content
\* is made of that content, as long as the program reads it in RAM (beforeStateChange).
THEOREM TablesAlwaysUsable == Tables!Spec => []TablesUsable
<1>1. MemoryInv => TablesUsable
    <2> SUFFICES ASSUME MemoryInv PROVE Tables!ObjectsBacked /\ Tables!IndexCurrentInRam
        BY DEF TablesUsable, Tables!TablesUsable
    <2>1. Tables!ObjectsBacked
        BY DEF MemoryInv, BackedInv, MetaInv, Tables!ObjectsBacked
    <2>2. ASSUME medium = "eeprom", NEW t \in Table, ~halted, state[t] = "loaded", data[t] # 0
          PROVE  index[t] = Tables!Visible(t)
        <3>1. index[t] = Tables!ContentIn(memory.page, data[t], size[t])
            BY <2>2 DEF MemoryInv, HalfInv, InUse
        <3> QED
            BY <2>2, <3>1 DEF Tables!Visible, Tables!View, Tables!ContentIn
    <2>3. Tables!IndexCurrentInRam
        BY <2>2 DEF Tables!IndexCurrentInRam, Tables!IndexCurrent
    <2> QED
        BY <2>1, <2>3
<1> QED
    BY <1>1, MemoryAlways, PTL

\* A start finds the last download that was saved, whatever was going on when the power
\* failed, and on EEPROM never half a download (commitNonVolatileMemory, readMemory).
THEOREM RestartsAlwaysFaithful == Tables!Spec => []RestartsFaithful
<1>1. MemoryInv => RestartsFaithful
    <2> SUFFICES ASSUME MemoryInv PROVE Tables!DownloadDurable /\ Tables!NoHalfDownload
        BY DEF RestartsFaithful, Tables!RestartsFaithful
    <2>1. Tables!DownloadDurable
        BY DEF MemoryInv, DurableInv, Stored, Tables!DownloadDurable
    <2>2. Tables!NoHalfDownload
        BY DEF MemoryInv, HalfInv, Stored, Tables!NoHalfDownload
    <2> QED
        BY <2>1, <2>2
<1> QED
    BY <1>1, MemoryAlways, PTL

=============================================================================
