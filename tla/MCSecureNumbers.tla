--------------------------- MODULE MCSecureNumbers ---------------------------
(***************************************************************************)
(* What makes nonces fresh: the sequence numbers of one device on its own, *)
(* the same numbers on their way to a second device with synchronisation,  *)
(* and the timers of secure routing.  Each behaviour is one of one of the  *)
(* three; the variables of the others keep their initial values.           *)
(***************************************************************************)
EXTENDS OutgoingSequence

CONSTANTS LinkSequence, LinkReservation, MaxSync,
          Node, Mortal, Key, First, Group, Latency, SyncLatency, SyncDelay, Chunk, MaxTimer, MaxTag,
          ReplayCapacity, MaxFrame, MaxEvent

VARIABLES part,
          \* the receiver of the link
          entries, table, image, journal, receivingHealthy, delivered,
          \* both ends, and the network
          sync, challenges, telegrams, net,
          \* secure routing
          config, record, marker, inForce, timer, late, reserved, synchronized, wait, periodic,
          answer, nextTag, replay, frames, notification, accepted, repeated, events

Link == INSTANCE SecureLink WITH
    MaxSequence <- LinkSequence, Reservation <- LinkReservation,
    sendingHealthy <- journalHealthy, replay <- entries

\* The devices of secure routing that restart also send; the others listen.
Routing == INSTANCE SecureRouting WITH
    MaxSequence <- MaxTimer, MaxFrame <- [n \in Node |-> IF n \in Mortal THEN MaxFrame ELSE 0]

ASSUME LinkAssumption == LinkSequence \in Nat \ {0} /\ LinkReservation \in Nat \ {0}

ASSUME RoutingAssumption == Routing!SecureRoutingAssumption

receiverVars == <<entries, table, image, journal, receivingHealthy, delivered, sync, challenges,
                  telegrams, net>>
routingVars  == <<config, record, marker, inForce, timer, late, reserved, synchronized, wait, periodic,
                  answer, nextTag, replay, frames, notification, accepted, repeated, events>>
allVars      == <<part, vars, receiverVars, routingVars>>

OfNumbers(step) == part = "numbers" /\ step /\ UNCHANGED <<part, receiverVars, routingVars>>
OfLink(step)    == part = "link" /\ step /\ UNCHANGED <<part, routingVars>>
OfRouting(step) == part = "routing" /\ step /\ UNCHANGED <<part, vars, receiverVars>>

\* Which key the group has first does not matter.
MCInit ==
    /\ part \in {"numbers", "link", "routing"}
    /\ Init /\ Link!Init
    /\ Routing!Init /\ \A n \in Node : config[n].key = First

MCNext ==
    \/ OfNumbers(\E acc \in Access :
          \/ ReserveOutgoingSequence(acc)
          \/ Advertise(acc)
          \/ \E sequence \in Sequence :
                EnsureOutgoingSequenceAtLeast(acc, sequence) \/ WriteProperty(acc, sequence))
    \/ OfNumbers(Save) \/ OfNumbers(MasterReset) \/ OfNumbers(PowerCycle)
    \/ OfLink(Link!Next)
    \/ OfRouting(Routing!Next)

MCSpec == MCInit /\ [][MCNext]_allVars

NotLockedOut == Link!NotLockedOut
SyncHeals    == Link!SyncHeals
ImplementsOrderedDelivery == Link!ImplementsOrderedDelivery
NonceFresh   == Routing!NonceFresh
AcceptedOnce == Routing!AcceptedOnce

=============================================================================
