-------------------------- MODULE OutgoingSequence --------------------------
(***************************************************************************)
(* The numbers under which a device sends secured telegrams:               *)
(* src/src/knx/security_interface_object.cpp, from loadOutgoingSequences   *)
(* to reserveOutgoingSequence, with save, restore and masterReset.         *)
(*                                                                         *)
(* A number is used in a nonce, so none may be handed out twice, whatever  *)
(* is lost with the power.  There are two domains, data and tool access,   *)
(* with a counter each.  Three places hold a counter: RAM, the security    *)
(* journal, which survives a power loss and is written record by record,   *)
(* and the image of the object's properties, which Memory writes much      *)
(* later, if at all.                                                       *)
(***************************************************************************)
EXTENDS Naturals, Sequences

CONSTANTS
    Access,         \* the domains: {FALSE, TRUE} (toolAccess) in the source
    MaxSequence,    \* kMaximumSequence: 2^48 - 1 in the source
    Reservation     \* KNX_SECURE_SEQUENCE_RESERVATION: 256 in the source

ASSUME OutgoingAssumption ==
    /\ MaxSequence \in Nat \ {0}
    /\ Reservation \in Nat \ {0}

VARIABLES
    outgoing,           \* outgoing[acc]: the counter of a domain
    journalHealthy,     \* _journalHealthy
    factoryProvisioned  \* _factoryProvisioned

vars == <<outgoing, journalHealthy, factoryProvisioned>>

Sequence == 0 .. MaxSequence

\* next, reserved and property (PID_SEQUENCE_NUMBER_SENDING) are in RAM, journal
\* and image are not volatile.  sent (the numbers handed out, in order) and
\* advertised (the highest number a peer was told to expect) are ghosts.
Counter == [next: 1 .. MaxSequence + 1, reserved: Sequence, property: Sequence,
            journal: Sequence, image: Sequence,
            sent: Seq(1 .. MaxSequence), advertised: Sequence]

Greater(m, n) == IF m > n THEN m ELSE n
Lesser(m, n)  == IF m < n THEN m ELSE n

-----------------------------------------------------------------------------
(* Functions of the counter s of one domain. *)

\* sequenceProperty: an empty or zero property counts as 1
SequenceProperty(s) == Greater(s.property, 1)

\* writeSequenceProperty: what six bytes cannot hold is written as the maximum
WriteSequenceProperty(s, n) == [s EXCEPT !.property = Lesser(n, MaxSequence)]

\* writeSecurityState replaces a record atomically.  It is durable when the
\* platform says so ("ok"); when it does not ("failed") it may be durable all
\* the same ("unsure": nvs_commit fails after nvs_set_blob).
Write == {"ok", "failed", "unsure"}

PersistSequence(s, value, write) ==
    IF write = "failed" THEN s ELSE [s EXCEPT !.journal = value]

\* The object after its constructor
Constructed(s) == [s EXCEPT !.next = 1, !.reserved = 0, !.property = 1]

\* seeded fault: sending resumes within the reservation, below its end
LoadResumes(s) ==
    LET next == Greater(s.journal, Greater(s.next, SequenceProperty(s)))
    IN  WriteSequenceProperty([s EXCEPT !.reserved = Greater(s.journal, @), !.next = next], next)

\* loadOutgoingSequences, when the record can be read
Load(s) ==
    LET reserved == Greater(s.journal, s.reserved)
        next     == Greater(reserved + 1, Greater(s.next, SequenceProperty(s)))
    IN  WriteSequenceProperty([s EXCEPT !.reserved = reserved, !.next = next], next)

\* nextSequenceNumber, while the journal is healthy
NextSequenceNumber(s) ==
    IF s.next > MaxSequence THEN 0 ELSE Greater(SequenceProperty(s), s.next)

-----------------------------------------------------------------------------
(* ensureOutgoingSequenceAtLeast: a higher number is asked for by a peer or by
   the property.  Its predecessors are journalled as used before it is. *)

Floor(s, sequence) == Greater(SequenceProperty(s), sequence)

Raised(s, floor) ==
    WriteSequenceProperty([s EXCEPT !.next = floor, !.reserved = Greater(floor - 1, @)], floor)

Ensured(s, floor, write) ==
    CASE floor <= s.next -> s
      [] floor > s.next /\ floor - 1 <= s.reserved -> Raised(s, floor)
      [] floor > s.next /\ floor - 1 > s.reserved ->
            LET persisted == PersistSequence(s, floor - 1, write)
            IN  IF write = "ok" THEN Raised(persisted, floor) ELSE persisted

IsEnsured(s, floor, write) ==
    \/ floor <= s.next /\ s.next <= MaxSequence
    \/ floor > s.next /\ (floor - 1 > s.reserved => write = "ok")

(* reserveOutgoingSequence *)

HandOut(s) ==
    WriteSequenceProperty([s EXCEPT !.next = @ + 1, !.sent = Append(@, s.next)], s.next + 1)

ReservationEnd(s) == Lesser(s.next + Reservation - 1, MaxSequence)

\* s has a next number: it is within the reservation, or opens a new one.
Taken(s, write) ==
    CASE s.next <= s.reserved -> HandOut(s)
      [] s.next > s.reserved ->
            LET persisted == PersistSequence(s, ReservationEnd(s), write)
            IN  IF write = "ok" THEN HandOut([persisted EXCEPT !.reserved = ReservationEnd(s)])
                ELSE persisted

-----------------------------------------------------------------------------
Becomes(acc, s) ==
    /\ outgoing' = [outgoing EXCEPT ![acc] = s]
    /\ UNCHANGED <<journalHealthy, factoryProvisioned>>

\* secure(): a number for a telegram that is sent now
ReserveOutgoingSequence(acc) ==
    /\ journalHealthy /\ factoryProvisioned
    /\ \E first, second \in Write :
          LET s       == outgoing[acc]
              floor   == SequenceProperty(s)
              ensured == Ensured(s, floor, first)
          IN  \/ /\ ~IsEnsured(s, floor, first) \/ ensured.next > MaxSequence
                 /\ Becomes(acc, ensured)
              \/ /\ IsEnsured(s, floor, first) /\ ensured.next <= MaxSequence
                 /\ Becomes(acc, Taken(ensured, second))

\* receivedSyncResponse: the peer takes no number below this one
EnsureOutgoingSequenceAtLeast(acc, sequence) ==
    /\ journalHealthy
    /\ sequence \in 1 .. MaxSequence
    /\ \E write \in Write :
          Becomes(acc, Ensured(outgoing[acc], Floor(outgoing[acc], sequence), write))

\* sendSyncResponse: a peer is told the next number
Advertise(acc) ==
    LET next == NextSequenceNumber(outgoing[acc])
    IN  /\ journalHealthy
        /\ next # 0
        /\ Becomes(acc, [outgoing[acc] EXCEPT !.advertised = Greater(@, next)])

\* ETS writes the property.
WriteProperty(acc, value) ==
    Becomes(acc, [outgoing[acc] EXCEPT !.property = value])

\* save(), called when Memory writes the image
Save ==
    /\ outgoing' = [acc \in Access |->
          LET s    == outgoing[acc]
              live == Greater(SequenceProperty(s), s.next)
          IN  WriteSequenceProperty(
                  [s EXCEPT !.image = Lesser(Greater(s.reserved + 1, live), MaxSequence)], live)]
    /\ UNCHANGED <<journalHealthy, factoryProvisioned>>

\* masterReset with FactoryReset or FactoryResetWithoutIA: the property is
\* zeroed and then written from the counter, which stays.
MasterReset ==
    /\ outgoing' = [acc \in Access |-> WriteSequenceProperty(outgoing[acc], outgoing[acc].next)]
    /\ UNCHANGED <<journalHealthy, factoryProvisioned>>

Loaded(s, readable) == IF readable THEN Load(s) ELSE s

\* The constructor, bindPlatform and, where Memory accepts the image, restore.
\* The journal is read each time; bound and restored tell whether it could be.
Booted(s, bound, valid, restored) ==
    LET bind == Loaded(Constructed(s), bound)
    IN  IF valid THEN Loaded([bind EXCEPT !.property = bind.image], restored) ELSE bind

HealthyIfAll(readable) == readable = Access

\* Power loss and restart; bound and restored: the domains with readable records.
PowerCycle ==
    \E bound, restored \in SUBSET Access, valid \in BOOLEAN :
        /\ valid => \A acc \in Access : outgoing[acc].image # 0
        /\ outgoing' = [acc \in Access |->
              Booted(outgoing[acc], acc \in bound, valid, acc \in restored)]
        /\ journalHealthy' = (HealthyIfAll(bound) /\ (valid => HealthyIfAll(restored)))
        /\ factoryProvisioned' \in BOOLEAN

-----------------------------------------------------------------------------
\* A device that leaves the factory: empty journal, no image yet (0).
Init ==
    /\ outgoing = [acc \in Access |->
          [next |-> 1, reserved |-> 0, property |-> 1, journal |-> 0, image |-> 0,
           sent |-> <<>>, advertised |-> 0]]
    /\ journalHealthy = TRUE
    /\ factoryProvisioned = TRUE

Next ==
    \/ \E acc \in Access :
          \/ ReserveOutgoingSequence(acc)
          \/ Advertise(acc)
          \/ \E sequence \in Sequence :
                EnsureOutgoingSequenceAtLeast(acc, sequence) \/ WriteProperty(acc, sequence)
    \/ Save \/ MasterReset \/ PowerCycle

Spec == Init /\ [][Next]_vars

-----------------------------------------------------------------------------
TypeOK ==
    /\ outgoing \in [Access -> Counter]
    /\ journalHealthy \in BOOLEAN /\ factoryProvisioned \in BOOLEAN

Increasing(s) == \A i, j \in 1 .. Len(s.sent) : i < j => s.sent[i] < s.sent[j]

\* No number is handed out twice, nor a lower one after a higher one: not after
\* a power loss, a failed write of unknown outcome, a factory reset, a property
\* that ETS lowers, or an old image.
NeverReused == \A acc \in Access : Increasing(outgoing[acc])

\* A device that can send tells its peers only numbers it has not used: a peer
\* that expects a used one would take a recorded telegram for a new one.
AdvertisedIsFresh ==
    journalHealthy => \A acc \in Access :
        LET s == outgoing[acc]
        IN  NextSequenceNumber(s) # 0 =>
                \A i \in 1 .. Len(s.sent) : s.sent[i] < NextSequenceNumber(s)

\* Every number that was used is covered by the journal, so nothing but the
\* journal is needed to go on after a power loss.
JournalCoversSent ==
    \A acc \in Access : \A i \in 1 .. Len(outgoing[acc].sent) :
        outgoing[acc].sent[i] <= outgoing[acc].journal

\* The three together: used numbers are never used again nor offered to a peer, and the
\* journal alone is enough to keep it so after a power loss.
NumbersSafe == NeverReused /\ JournalCoversSent /\ AdvertisedIsFresh

\* Does not hold: "Persist the consumed prefix before advertising a higher next
\* sequence", says the comment in ensureOutgoingSequenceAtLeast, so that what a
\* peer was told to expect is not undercut later.  NextSequenceNumber counts what
\* ETS wrote into the property, which a power loss forgets.
AdvertisedIsKept ==
    [][\A acc \in Access :
          LET sent == outgoing'[acc].sent
          IN  sent # outgoing[acc].sent => sent[Len(sent)] >= outgoing[acc].advertised]_vars

=============================================================================
