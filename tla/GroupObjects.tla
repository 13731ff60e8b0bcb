---------------------------- MODULE GroupObjects ----------------------------
(***************************************************************************)
(* The group objects of a device and their one outstanding telegram:       *)
(* src/src/knx/bau_systemB_device.cpp, with GroupObject (group_object.cpp) *)
(* and the group services of application_layer.cpp.                        *)
(*                                                                         *)
(* The main loop is one thread.  sendNextGroupTelegram calls the updated   *)
(* handler of the object it is about to write, and that handler may use    *)
(* the objects, so the loop's position is kept in at while it runs.  Other *)
(* handlers run at the end of a step; what they do is the step after it.   *)
(*                                                                         *)
(* A telegram is confirmed by the data link layer, at once (KNX IP, or a   *)
(* refusal) or later (KNX TP), and is also indicated to the objects of the *)
(* device itself.  Values are left out; valued is a ghost that says whether *)
(* an object was ever given one.                                           *)
(***************************************************************************)
EXTENDS Naturals, Sequences

CONSTANTS
    EntryCount,             \* group objects, numbered from 1: the ASAPs
    Tsap,                   \* group addresses
    Links,                  \* the association table: pairs <<tsap, asap>>
    Sending,                \* Sending[a]: the first of a's addresses, 0 if it has none
    CommunicationEnable, TransmitEnable, WriteEnable, ReadEnable, ResponseUpdateEnable,
    ReadOnInit,             \* the objects with these flags
    Secured,                \* the objects that use data security
    MaxRevision             \* 2^32 - 1 in the source

Asap == 1 .. EntryCount

ASSUME GroupAssumption ==
    /\ EntryCount \in Nat
    /\ 0 \notin Tsap
    /\ Links \subseteq Tsap \X Asap
    /\ Sending \in [Asap -> Tsap \cup {0}]
    /\ \A a \in Asap : Sending[a] # 0 => <<Sending[a], a>> \in Links
    /\ MaxRevision \in Nat \ {0, 1}

VARIABLES
    flag, initialized, revision,                    \* of each group object
    nextGroupAsap,                                  \* _nextGroupAsap
    at,             \* the loop variable of sendNextGroupTelegram, 0 outside
    callback,       \* the object whose updated handler it is calling, or 0
    pendingAsap, pendingRevision, pendingKind,      \* _pendingAsap, ...
    saved,          \* _savedAsapReadRequest, _savedAsapWriteRequest
    tx,             \* group telegrams given to the data link layer, not confirmed yet
    loaded,         \* configured(): the tables are loaded
    valued,         \* the objects that bus or application gave a value (ghost)
    orphaned        \* a confirmation was lost (ghost)

object == <<flag, initialized, revision, valued>>
loop   == <<nextGroupAsap, at, callback>>
vars   == <<object, loop, pendingAsap, pendingRevision, pendingKind, saved, tx, loaded, orphaned>>
pending == <<pendingAsap, pendingRevision, pendingKind>>

Request == {"ReadRequest", "WriteRequest"}
ComFlag == Request \cup {"Updated", "Transmitting", "Ok", "Error", "Uninitialized"}

Telegram == [kind : Request, asap : Asap, revision : 0 .. MaxRevision, decodable : BOOLEAN]

\* advanceRevision: 0 is skipped
NextRevision(r) == IF r = MaxRevision THEN 1 ELSE r + 1

\* Bound: no object runs through all its revisions while its telegram is pending.
RevisionLeft(a) == pendingAsap = a => NextRevision(revision[a]) # pendingRevision

-----------------------------------------------------------------------------
(* The application: between two calls of loop(), in the updated handler, or in the
   transmitted handler, which the scan calls for a refused write. *)

Others == <<loop, pending, saved, tx, loaded, orphaned>>

\* value(), objectWritten(): a new value, to be sent
ObjectWritten(a) ==
    /\ RevisionLeft(a)
    /\ flag' = [flag EXCEPT ![a] = "WriteRequest"]
    /\ initialized' = [initialized EXCEPT ![a] = TRUE]
    /\ revision' = [revision EXCEPT ![a] = NextRevision(@)]
    /\ valued' = valued \cup {a}
    /\ UNCHANGED Others

RequestObjectRead(a) ==
    /\ RevisionLeft(a)
    /\ flag' = [flag EXCEPT ![a] = "ReadRequest"]
    /\ revision' = [revision EXCEPT ![a] = NextRevision(@)]
    /\ UNCHANGED <<initialized, valued, Others>>

\* cancelPendingWrite with the current revision; it does nothing with another
CancelPendingWrite(a) ==
    /\ RevisionLeft(a)
    /\ flag[a] = "WriteRequest"
    /\ flag' = [flag EXCEPT ![a] = "Ok"]
    /\ revision' = [revision EXCEPT ![a] = NextRevision(@)]
    /\ UNCHANGED <<initialized, valued, Others>>

\* valueNoSend: only the first value changes the flag
ValueNoSend(a) ==
    /\ ~initialized[a]
    /\ flag' = [flag EXCEPT ![a] = "Ok"]
    /\ initialized' = [initialized EXCEPT ![a] = TRUE]
    /\ valued' = valued \cup {a}
    /\ UNCHANGED <<revision, Others>>

\* nextUpdatedObject, or the application itself, takes notice of an update
Processed(a) ==
    /\ flag[a] = "Updated"
    /\ flag' = [flag EXCEPT ![a] = "Ok"]
    /\ UNCHANGED <<initialized, revision, valued, Others>>

-----------------------------------------------------------------------------
(* Indications *)

Linked(t) == {a \in Asap : <<t, a>> \in Links}

\* groupValueWriteIndication, groupValueReadAppLayerConfirm: who takes the value
TakesWrite(t)    == Linked(t) \cap CommunicationEnable \cap WriteEnable
TakesResponse(t) == Linked(t) \cap CommunicationEnable \cap ResponseUpdateEnable

\* groupValueReadIndication: who answers, ready being the initialised objects
Answers(t, ready) == Linked(t) \cap CommunicationEnable \cap ReadEnable \cap ready

\* updateGroupObject: which flags let a value from the device itself in
IsOpen(f) == f \notin {"WriteRequest", "Transmitting"}

\* The objects updated by answers that the objects of R give, each on its own
\* sending address; localOriginAsap keeps an object from its own answer.
Updated(R) == UNION {TakesResponse(Sending[r]) \ {r} : r \in R}

\* Who answers a read, and whom that updates: an object that only becomes
\* initialised by another's answer answers too if the table lists it later.
IsAnswer(t, ready, R) ==
    /\ Answers(t, ready) \subseteq R
    /\ R \subseteq Answers(t, ready \cup Updated(Answers(t, ready)))

\* The flags after a loopback that reaches the objects of U
AfterLoopback(f, U) == [a \in Asap |-> IF a \in U /\ IsOpen(f[a]) THEN "Updated" ELSE f[a]]

Reached(f, U) == {a \in U : IsOpen(f[a])}

Loopback(f, i, v, U) ==
    /\ flag' = AfterLoopback(f, U)
    /\ initialized' = [a \in Asap |-> i[a] \/ a \in Reached(f, U)]
    /\ valued' = v \cup Reached(f, U)

\* A telegram from the bus, at once for all objects linked to its address
FromBus(U) ==
    /\ at = 0 /\ loaded
    /\ \A a \in U : RevisionLeft(a)
    /\ flag' = [a \in Asap |-> IF a \in U THEN "Updated" ELSE flag[a]]
    /\ initialized' = [a \in Asap |-> initialized[a] \/ a \in U]
    /\ revision' = [a \in Asap |-> IF a \in U THEN NextRevision(revision[a]) ELSE revision[a]]
    /\ valued' = valued \cup U
    /\ UNCHANGED Others

BusWrite(t) == FromBus(TakesWrite(t))
BusResponse(t) == FromBus(TakesResponse(t))

Ready(i) == {a \in Asap : i[a]}

BusRead(t) ==
    /\ at = 0 /\ loaded
    /\ \E R \in SUBSET Asap :
          /\ IsAnswer(t, Ready(initialized), R)
          /\ Loopback(flag, initialized, valued, Updated(R))
    /\ UNCHANGED <<revision, Others>>

-----------------------------------------------------------------------------
(* sendNextGroupTelegram *)

\* seeded fault: a telegram may already be pending
MaySendAnyway == loaded /\ callback = 0

MaySend == loaded /\ callback = 0 /\ pendingAsap = 0

Position == IF at = 0 THEN nextGroupAsap ELSE at

Waiting == {a \in Asap : a >= Position /\ flag[a] \in Request}

IsNext(a) == a \in Waiting /\ \A b \in Waiting : a <= b

ScanEnds ==
    /\ MaySend /\ Waiting = {}
    /\ nextGroupAsap' = 1 /\ at' = 0
    /\ UNCHANGED <<object, callback, pending, saved, tx, loaded, orphaned>>

CallHandler(a) ==
    /\ MaySend /\ IsNext(a) /\ flag[a] = "WriteRequest"
    /\ at' = a /\ callback' = a
    /\ UNCHANGED <<object, nextGroupAsap, pending, saved, tx, loaded, orphaned>>

\* a's turn: a read at once, a write when its handler has returned.  The kind was
\* read before the handler was called.
IsTurn(a, kind) ==
    \/ kind = "ReadRequest" /\ MaySend /\ IsNext(a) /\ flag[a] = kind
    \/ kind = "WriteRequest" /\ callback = a

Enabled(a, kind) ==
    a \in CommunicationEnable /\ (kind = "WriteRequest" => a \in TransmitEnable)

\* completeGroupRequest(asap, kind, false) at once; the loop goes on
Refuse(a, kind) ==
    /\ IsTurn(a, kind) /\ ~Enabled(a, kind)
    /\ flag' = [flag EXCEPT ![a] = "Error"]
    /\ pendingAsap' = 0 /\ pendingRevision' = revision[a] /\ pendingKind' = "Ok"
    /\ at' = a + 1 /\ callback' = 0
    /\ UNCHANGED <<initialized, revision, valued, nextGroupAsap, saved, tx, loaded, orphaned>>

\* seeded fault: the next scan starts at the first object
StartAfterFirst(a) == 1

StartAfter(a) == a + 1

\* The telegram is handed down: it is queued, or confirmed or refused at once.
\* An object without an address is refused.
Link == {"queued", "confirmed", "refused"}

FlagAfter(link) ==
    CASE link = "queued" -> "Transmitting" [] link = "confirmed" -> "Ok" [] link = "refused" -> "Error"

Handed(a, kind, link) ==
    IF link = "queued"
    THEN /\ pendingAsap' = a /\ pendingRevision' = revision[a] /\ pendingKind' = kind
         /\ saved' = [saved EXCEPT ![kind] = a]
         /\ tx' = Append(tx, [kind |-> kind, asap |-> a, revision |-> revision[a], decodable |-> TRUE])
    ELSE /\ pendingAsap' = 0 /\ pendingRevision' = revision[a] /\ pendingKind' = "Ok"
         /\ saved' = [saved EXCEPT ![kind] = 0]
         /\ UNCHANGED tx

\* a's flag and whether it is initialised before the telegram is indicated to the
\* device's own objects
Flagged(a, link) == [flag EXCEPT ![a] = FlagAfter(link)]
Known(a, link)   == [initialized EXCEPT ![a] = @ \/ link = "confirmed"]

Send(a, kind, link) ==
    /\ IsTurn(a, kind) /\ Enabled(a, kind)
    /\ Sending[a] = 0 => link = "refused"
    /\ Handed(a, kind, link)
    /\ \/ /\ Sending[a] = 0
          /\ Loopback(Flagged(a, link), Known(a, link), valued, {})
       \/ /\ Sending[a] # 0 /\ kind = "WriteRequest"
          /\ Loopback(Flagged(a, link), Known(a, link), valued, TakesWrite(Sending[a]) \ {a})
       \/ /\ Sending[a] # 0 /\ kind = "ReadRequest"
          /\ \E R \in SUBSET Asap :
                /\ IsAnswer(Sending[a], Ready(Known(a, link)), R)
                /\ Loopback(Flagged(a, link), Known(a, link), valued, Updated(R))
    /\ nextGroupAsap' = StartAfter(a) /\ at' = 0 /\ callback' = 0
    /\ UNCHANGED <<revision, loaded, orphaned>>

-----------------------------------------------------------------------------
\* seeded fault: a confirmation also ends what was requested since
IsCurrentAlways(a) == TRUE

\* completeGroupRequest: nothing was requested or received since
IsCurrent(a) == revision[a] = pendingRevision

Completed(a, success) ==
    IF loaded /\ IsCurrent(a)
    THEN /\ flag' = [flag EXCEPT ![a] = IF success THEN "Ok" ELSE "Error"]
         /\ initialized' = [initialized EXCEPT ![a] = @ \/ success]
    ELSE UNCHANGED <<flag, initialized>>

\* dataConReceived, up to dataGroupConfirm and completeGroupRequest
Confirm(success) ==
    /\ at = 0 /\ tx # <<>>
    /\ Head(tx).decodable
    /\ tx' = Tail(tx)
    /\ saved' = [saved EXCEPT ![Head(tx).kind] = 0]
    /\ IF saved[Head(tx).kind] # 0 /\ pendingAsap = saved[Head(tx).kind]
             /\ pendingKind = Head(tx).kind
       THEN /\ pendingAsap' = 0 /\ pendingKind' = "Ok"
            /\ Completed(pendingAsap, success)
       ELSE UNCHANGED <<pendingAsap, pendingKind, flag, initialized>>
    /\ UNCHANGED <<revision, valued, loop, pendingRevision, loaded, orphaned>>

\* The confirmation of a secured telegram is decrypted first.  When that fails it
\* goes no further.
ConfirmUndecodable ==
    /\ at = 0 /\ tx # <<>>
    /\ ~Head(tx).decodable
    /\ tx' = Tail(tx)
    /\ orphaned' = TRUE
    /\ UNCHANGED <<object, loop, pending, saved, loaded>>

\* ETS changes the group keys, or the individual address.
Rekey ==
    /\ at = 0
    /\ tx' = [i \in DOMAIN tx |-> [tx[i] EXCEPT !.decodable = @ /\ tx[i].asap \notin Secured]]
    /\ UNCHANGED <<object, loop, pending, saved, loaded, orphaned>>

\* ETS unloads the tables, the group object table among them: until the next restart
\* (Init) the device is not configured.
Unload ==
    /\ at = 0
    /\ loaded' = FALSE
    /\ UNCHANGED <<object, loop, pending, saved, tx, orphaned>>

-----------------------------------------------------------------------------
\* After a restart: initGroupObjects
Init ==
    /\ flag = [a \in Asap |-> IF a \in ReadOnInit THEN "ReadRequest" ELSE "Uninitialized"]
    /\ initialized = [a \in Asap |-> FALSE]
    /\ revision = [a \in Asap |-> IF a \in ReadOnInit THEN 1 ELSE 0]
    /\ valued = {}
    /\ nextGroupAsap = 1 /\ at = 0 /\ callback = 0
    /\ pendingAsap = 0 /\ pendingRevision = 0 /\ pendingKind = "Ok"
    /\ saved = [kind \in Request |-> 0]
    /\ tx = <<>>
    /\ loaded = TRUE
    /\ orphaned = FALSE

Application ==
    \E a \in Asap : \/ ObjectWritten(a) \/ RequestObjectRead(a) \/ CancelPendingWrite(a)
                    \/ ValueNoSend(a) \/ Processed(a)

SendNextGroupTelegram ==
    \/ ScanEnds
    \/ \E a \in Asap :
          \/ CallHandler(a)
          \/ \E kind \in Request : Refuse(a, kind) \/ \E link \in Link : Send(a, kind, link)

Confirmation == ConfirmUndecodable \/ \E success \in BOOLEAN : Confirm(success)

Next ==
    \/ Application
    \/ \E t \in Tsap : BusWrite(t) \/ BusResponse(t) \/ BusRead(t)
    \/ SendNextGroupTelegram
    \/ Confirmation
    \/ Rekey \/ Unload

Spec == Init /\ [][Next]_vars

\* loop() is called for ever, and the data link layer confirms every telegram.
FairSpec == Spec /\ WF_vars(SendNextGroupTelegram) /\ WF_vars(Confirmation)

-----------------------------------------------------------------------------
TypeOK ==
    /\ flag \in [Asap -> ComFlag] /\ initialized \in [Asap -> BOOLEAN]
    /\ revision \in [Asap -> 0 .. MaxRevision]
    /\ valued \subseteq Asap
    /\ nextGroupAsap \in 1 .. EntryCount + 1 /\ at \in 0 .. EntryCount + 1
    /\ callback \in Asap \cup {0}
    /\ pendingAsap \in Asap \cup {0} /\ pendingRevision \in 0 .. MaxRevision
    /\ pendingKind \in Request \cup {"Ok"}
    /\ saved \in [Request -> Asap \cup {0}]
    /\ tx \in Seq(Telegram)
    /\ loaded \in BOOLEAN /\ orphaned \in BOOLEAN

\* "The application layer retains one ASAP for each service globally": at most one
\* group telegram is outstanding, and while it is, _pendingAsap and the application
\* layer's saved ASAP both name its object, so that its confirmation, and no other,
\* releases the queue.  Only a confirmation that cannot be decrypted breaks this.
PendingInFlight ==
    IF pendingAsap = 0 \/ orphaned THEN tx = <<>>
    ELSE /\ Len(tx) = 1
         /\ Head(tx).asap = pendingAsap /\ Head(tx).revision = pendingRevision
         /\ Head(tx).kind = pendingKind
         /\ saved[pendingKind] = pendingAsap

\* No object is left Transmitting: one that is has the outstanding telegram, whose
\* confirmation will find the revision it looks for.
TransmittingIsPending ==
    loaded => \A a \in Asap : flag[a] = "Transmitting" =>
        pendingAsap = a /\ revision[a] = pendingRevision

\* Both: the one confirmation that can come finds what it has to release.
OneOutstanding == PendingInFlight /\ TransmittingIsPending

\* A value that the application wants sent is not forgotten: the request ends when
\* it is this object's turn, or by something newer (the revision changes), never
\* by the confirmation of an older telegram or a value from the device itself.
WritesKept ==
    [][\A a \in Asap :
          (flag[a] = "WriteRequest" /\ flag'[a] # "WriteRequest")
              => callback = a \/ revision'[a] # revision[a]]_vars

\* Round robin: every request gets its turn, however busy the other objects are,
\* unless ETS unloads the tables or a confirmation is lost.
RequestsServed ==
    \A a \in Asap : flag[a] \in Request ~> flag[a] \notin Request \/ ~loaded \/ orphaned

\* Does not hold, though the comment at initialized() says "Check if the group object
\* contains a valid value assigned from bus or from application program": commFlag(Ok)
\* counts as a value, also when it follows a read request that nobody answered.
InitializedHasValue ==
    \A a \in Asap : initialized[a] => a \in valued

=============================================================================
