--------------------------- MODULE SecureRouting ---------------------------
(***************************************************************************)
(* Secure routing on a multicast group: IpSecureRouting of                 *)
(* src/src/knx/ip_secure.cpp.  Every frame is encrypted with a nonce made  *)
(* of the sender's timer, serial number and tag; the timers of a group run *)
(* together, and a frame that is older than the latency tolerance is       *)
(* refused.  A timer is used only after a reservation ahead of it has been *)
(* made durable, and a restart continues at the reserved limit.            *)
(*                                                                         *)
(* Time is counted in ticks; loop() is called in every tick.  When exactly *)
(* a notification falls due is left open (any time), so _keeper, which     *)
(* only chooses the delay, and _initialNotified are not here.  Frames may  *)
(* be lost, repeated and delayed for any time, notifications lost or       *)
(* repeated within their tick.                                             *)
(***************************************************************************)
EXTENDS Naturals, FiniteSets

CONSTANTS
    Node,            \* also the serial numbers: one per device
    Mortal,          \* those that restart or are configured anew
    Key, Group,      \* backbone keys, multicast addresses
    Latency,         \* _latency
    SyncLatency,     \* _syncLatency
    SyncDelay,       \* until a node that hears nobody takes its own timer for the group's
    Chunk,           \* 60000 in the source: how far a reservation reaches
    MaxSequence,     \* 2^48 - 1 in the source
    MaxTag,          \* 65535 in the source
    ReplayCapacity,  \* KNX_IPSECURE_REPLAY_CAPACITY
    MaxFrame,        \* bound: frames sent by each node
    MaxEvent         \* bound: restarts, configurations by ETS, failures of the storage

SecureRoutingAssumption ==
    /\ Mortal \subseteq Node
    /\ Latency \in Nat /\ SyncLatency \in Nat /\ SyncDelay \in Nat
    /\ Chunk \in Nat \ {0} /\ MaxSequence \in Nat /\ MaxSequence > Chunk /\ MaxTag \in Nat
    /\ ReplayCapacity \in Nat /\ MaxFrame \in [Node -> Nat] /\ MaxEvent \in Nat

VARIABLES
    config,        \* PID_BACKBONE_KEY and PID_ROUTING_MULTICAST_ADDRESS of each node
    record,        \* durable: the reservation, [key, group, limit]; limit 0: none yet
    marker,        \* durable: which keys a node has used
    inForce,       \* the configuration of RAM; Unconfigured if ~_configured
    timer,         \* _timer
    late,          \* the tick that the node has not yet added to its timer
    reserved,      \* _reserved
    synchronized,  \* _synchronized
    wait,          \* ticks until it is synchronized by itself
    periodic,      \* _periodic
    answer,        \* _notifySerial and _notifyTag
    nextTag,       \* _tag and _tagTimer, together
    replay,        \* _replay: what was accepted in the last Latency ticks
    frames,        \* all frames ever sent
    notification,  \* the notification of this tick
    accepted,      \* ghost: the frames accepted since the start
    repeated,      \* ghost: a node has accepted a frame again
    events         \* number of events so far

durable == <<record, marker>>
tagging == <<answer, nextTag>>
clock   == <<timer, late, reserved>>
network == <<frames, notification>>
ghosts  == <<accepted, repeated>>
vars    == <<config, durable, inForce, clock, synchronized, wait, periodic, tagging, replay,
             network, ghosts, events>>

Unconfigured == [key |-> "none", group |-> "none"]
NoAnswer     == [serial |-> "none", tag |-> 0]
NoNotification == [key |-> "none", group |-> "none", timer |-> 0, serial |-> "none", tag |-> 0,
                   from |-> "none"]

Configured(n) == inForce[n] # Unconfigured

\* configure() finds nothing to do.
IsCurrent(n) == Configured(n) /\ inForce[n] = config[n]

-----------------------------------------------------------------------------
(* Reservations *)

IsReserved(t, limit) == t < limit

CanReserve(t) == t + Chunk < MaxSequence

\* reserve(t) succeeds for a configured node
Reserve(n, t) ==
    /\ CanReserve(t)
    /\ IF IsReserved(t, reserved[n]) THEN UNCHANGED <<record, reserved, events>>
       ELSE /\ record'   = [record EXCEPT ![n] = [key |-> inForce[n].key, group |-> inForce[n].group,
                                                  limit |-> t + Chunk]]
            /\ reserved' = [reserved EXCEPT ![n] = t + Chunk]
            /\ UNCHANGED events

Event == events < MaxEvent /\ events' = events + 1

\* reserve(t) fails, and the node has to be configured anew
ReserveFails(n, t) ==
    /\ \/ ~CanReserve(t) /\ UNCHANGED events
       \/ CanReserve(t) /\ ~IsReserved(t, reserved[n]) /\ Event
    /\ inForce' = [inForce EXCEPT ![n] = Unconfigured]
    /\ UNCHANGED <<record, reserved>>

-----------------------------------------------------------------------------
(* configure() *)

IsSameKey(n) == record[n].limit # 0 /\ record[n].key = config[n].key

\* A key belongs to one group, and is not taken up again after another one.
IsRefused(n) ==
    \/ IsSameKey(n) /\ record[n].group # config[n].group
    \/ ~IsSameKey(n) /\ marker[n][config[n].key] = "used"

StartTimer(n) == IF IsSameKey(n) THEN record[n].limit ELSE 0

\* Three writes, each of which may be the first to fail: the marker (pending), the
\* reservation, the marker (used).
CanReach(n, written) ==
    CASE written = "nothing"     -> marker[n][config[n].key] = "none" /\ Event
      [] written = "marker"      -> IF CanReserve(StartTimer(n)) THEN Event ELSE UNCHANGED events
      [] written = "reservation" -> /\ CanReserve(StartTimer(n)) /\ marker[n][config[n].key] # "used"
                                    /\ Event
      [] written = "all"         -> CanReserve(StartTimer(n)) /\ UNCHANGED events

MarkerAfter(n, written) ==
    CASE written = "nothing" -> marker[n][config[n].key]
      [] written = "all"     -> "used"
      [] OTHER               -> IF marker[n][config[n].key] = "none" THEN "pending"
                                ELSE marker[n][config[n].key]

IsReservationWritten(written) == written \in {"reservation", "all"}

\* What configure() does before it looks at the storage
Unsynchronize(n) ==
    /\ synchronized' = [synchronized EXCEPT ![n] = FALSE]
    /\ periodic'     = [periodic EXCEPT ![n] = TRUE]
    /\ late'         = [late EXCEPT ![n] = 0]

Refuse(n) ==
    /\ ~IsCurrent(n) /\ IsRefused(n)
    /\ Unsynchronize(n)
    /\ inForce'  = [inForce EXCEPT ![n] = Unconfigured]
    /\ timer'    = [timer EXCEPT ![n] = 0]
    /\ reserved' = [reserved EXCEPT ![n] = 0]
    /\ UNCHANGED <<config, durable, wait, answer, nextTag, replay, network, ghosts, events>>

Configure(n, written) ==
    /\ ~IsCurrent(n) /\ ~IsRefused(n)
    /\ CanReach(n, written)
    /\ Unsynchronize(n)
    /\ marker' = [marker EXCEPT ![n] = [@ EXCEPT ![config[n].key] = MarkerAfter(n, written)]]
    /\ record' = [record EXCEPT ![n] =
                     IF IsReservationWritten(written)
                     THEN [key |-> config[n].key, group |-> config[n].group, limit |-> StartTimer(n) + Chunk]
                     ELSE @]
    /\ inForce'  = [inForce EXCEPT ![n] = IF written = "all" THEN config[n] ELSE Unconfigured]
    /\ timer'    = [timer EXCEPT ![n] = IF written = "all" THEN StartTimer(n) ELSE 0]
    /\ reserved' = [reserved EXCEPT ![n] = IF written = "all" THEN StartTimer(n) + Chunk ELSE 0]
    /\ wait'     = [wait EXCEPT ![n] = SyncDelay]
    /\ replay'   = [replay EXCEPT ![n] = {}]
    /\ accepted' = [accepted EXCEPT ![n] = {}]
    /\ UNCHANGED <<config, answer, nextTag, network, repeated>>

-----------------------------------------------------------------------------
(* Time *)

\* Every node has called its loop: it is configured, or cannot be.
HasLooped(n) == IF IsCurrent(n) THEN late[n] = 0 ELSE IsRefused(n) \/ ~CanReserve(StartTimer(n))

Tick ==
    /\ \A n \in Node : HasLooped(n)
    /\ \E n \in Node : Configured(n)
    /\ late' = [n \in Node |-> IF Configured(n) THEN 1 ELSE 0]
    /\ notification' = NoNotification
    /\ UNCHANGED <<config, durable, inForce, timer, reserved, synchronized, wait, periodic, tagging,
                   replay, frames, ghosts, events>>

\* advance(): the first thing loop(), send() and receive() do
Advance(n) ==
    /\ IsCurrent(n) /\ late[n] = 1
    /\ late'  = [late EXCEPT ![n] = 0]
    /\ timer' = [timer EXCEPT ![n] = @ + 1]
    /\ wait'  = [wait EXCEPT ![n] = IF @ = 0 THEN 0 ELSE @ - 1]
    /\ synchronized' = [synchronized EXCEPT ![n] = @ \/ wait[n] <= 1]
    /\ \/ Reserve(n, timer[n] + 1) /\ UNCHANGED inForce
       \/ ReserveFails(n, timer[n] + 1)
    /\ UNCHANGED <<config, marker, periodic, tagging, replay, network, ghosts>>

\* The others' loops of this tick change nothing for n, so they come first.
IsReady(n) == IsCurrent(n) /\ \A m \in Node : late[m] = 0

-----------------------------------------------------------------------------
(* Sending *)

Notify(n, tag) ==
    LET echo == IF periodic[n] THEN [serial |-> n, tag |-> tag] ELSE answer[n] IN
    /\ IsReady(n) /\ notification = NoNotification
    /\ answer'   = [answer EXCEPT ![n] = echo]
    /\ periodic' = [periodic EXCEPT ![n] = TRUE]
    /\ notification' = [key |-> inForce[n].key, group |-> inForce[n].group, timer |-> timer[n],
                        serial |-> echo.serial, tag |-> echo.tag, from |-> n]
    /\ UNCHANGED <<config, durable, inForce, clock, synchronized, wait, nextTag, replay, frames,
                   ghosts, events>>

\* The tags of a tick are used up.
\* seeded fault: the tag wraps around
IsExhaustedNever(n) == FALSE

IsExhausted(n) == nextTag[n].timer = timer[n] /\ nextTag[n].tag > MaxTag

TagOf(n) == IF nextTag[n].timer = timer[n] THEN nextTag[n].tag % (MaxTag + 1) ELSE 0

Transmit(n, t, tag) ==
    /\ frames'  = frames \cup {[key |-> inForce[n].key, group |-> inForce[n].group, timer |-> t,
                                serial |-> n, tag |-> tag, id |-> Cardinality(frames) + 1]}
    /\ nextTag' = [nextTag EXCEPT ![n] = [timer |-> t, tag |-> tag + 1]]
    /\ periodic' = [periodic EXCEPT ![n] = TRUE]

Send(n) ==
    /\ IsReady(n) /\ synchronized[n] /\ Cardinality({f \in frames : f.serial = n}) < MaxFrame[n]
    /\ \/ /\ ~IsExhausted(n)
          /\ Transmit(n, timer[n], TagOf(n))
          /\ UNCHANGED <<record, reserved, timer, events>>
       \/ /\ IsExhausted(n) /\ Reserve(n, timer[n] + 1)
          /\ timer' = [timer EXCEPT ![n] = @ + 1]
          /\ Transmit(n, timer[n] + 1, 0)
    /\ UNCHANGED <<config, marker, inForce, late, synchronized, wait, answer, replay,
                   notification, ghosts>>

-----------------------------------------------------------------------------
(* Receiving *)

IsFor(n, m) == m.key = inForce[n].key /\ m.group = inForce[n].group

\* A notification that echoes what this node has sent
IsAnswer(n, m, isNotification) == isNotification /\ m.serial = n /\ m.tag = answer[n].tag

SynchronizedBy(n, m, isNotification) ==
    synchronized' = [synchronized EXCEPT ![n] = @ \/ IsAnswer(n, m, isNotification)]

\* synchronize(), without the failure of a reservation
Synchronize(n, m, isNotification) ==
    \/ /\ m.timer > timer[n]
       /\ Reserve(n, m.timer)
       /\ timer' = [timer EXCEPT ![n] = m.timer]
       /\ SynchronizedBy(n, m, isNotification)
       /\ periodic' = [periodic EXCEPT ![n] = TRUE]
       /\ UNCHANGED answer
    \/ /\ m.timer <= timer[n] /\ timer[n] - m.timer <= SyncLatency
       /\ SynchronizedBy(n, m, isNotification)
       /\ periodic' = [periodic EXCEPT ![n] = TRUE]
       /\ UNCHANGED <<record, reserved, timer, answer, events>>
    \/ /\ m.timer <= timer[n] /\ timer[n] - m.timer > SyncLatency
       /\ IF timer[n] - m.timer >= Latency /\ periodic[n]
          THEN /\ answer'   = [answer EXCEPT ![n] = [serial |-> m.serial, tag |-> m.tag]]
               /\ periodic' = [periodic EXCEPT ![n] = FALSE]
          ELSE UNCHANGED <<answer, periodic>>
       /\ UNCHANGED <<record, reserved, timer, synchronized, events>>

CannotFollow(n, m) ==
    /\ IsReady(n) /\ IsFor(n, m) /\ m.timer > timer[n]
    /\ ReserveFails(n, m.timer)
    /\ UNCHANGED <<config, marker, timer, late, synchronized, wait, periodic, tagging, replay, network,
                   ghosts>>

HearNotification(n) ==
    /\ IsReady(n) /\ IsFor(n, notification) /\ notification.from # n
    /\ Synchronize(n, notification, TRUE)
    /\ UNCHANGED <<config, marker, inForce, late, wait, nextTag, replay, network, ghosts>>

\* The entries of the replay cache that count
Live(cache, now) == {f \in cache : now - f.timer <= Latency}

\* seeded fault: a full cache makes room for the newcomer
IsFreshIfFull(cache, f) == Cardinality(cache) >= ReplayCapacity \/ f \notin cache

IsFresh(cache, f) == f \notin cache /\ Cardinality(cache) < ReplayCapacity

IsAccepted(n, f, now) == now - f.timer <= Latency /\ IsFresh(Live(replay[n], now), f)

Hear(n, f) ==
    /\ IsReady(n) /\ f.serial # n /\ IsFor(n, f)
    /\ Synchronize(n, f, FALSE)
    /\ IF synchronized[n] /\ IsAccepted(n, f, timer'[n])
       THEN /\ replay'   = [replay EXCEPT ![n] = Live(@, timer'[n]) \cup {f}]
            /\ accepted' = [accepted EXCEPT ![n] = @ \cup {f.id}]
            /\ repeated' = (repeated \/ f.id \in accepted[n])
       ELSE UNCHANGED <<replay, ghosts>>
    /\ UNCHANGED <<config, marker, inForce, late, wait, nextTag, network>>

-----------------------------------------------------------------------------

\* The memory of a node is lost; the storage is not.
Restart(n) ==
    /\ n \in Mortal /\ Event
    /\ inForce'  = [inForce EXCEPT ![n] = Unconfigured]
    /\ timer'    = [timer EXCEPT ![n] = 0]
    /\ late'     = [late EXCEPT ![n] = 0]
    /\ reserved' = [reserved EXCEPT ![n] = 0]
    /\ synchronized' = [synchronized EXCEPT ![n] = FALSE]
    /\ wait'     = [wait EXCEPT ![n] = 0]
    /\ periodic' = [periodic EXCEPT ![n] = TRUE]
    /\ answer'   = [answer EXCEPT ![n] = NoAnswer]
    /\ nextTag'  = [nextTag EXCEPT ![n] = [timer |-> 0, tag |-> 0]]
    /\ replay'   = [replay EXCEPT ![n] = {}]
    /\ accepted' = [accepted EXCEPT ![n] = {}]
    /\ UNCHANGED <<config, durable, network, repeated>>

\* ETS writes the key or the address.
Rekey(n, c) ==
    /\ n \in Mortal /\ Event
    /\ c # config[n]
    /\ config' = [config EXCEPT ![n] = c]
    /\ UNCHANGED <<durable, inForce, clock, synchronized, wait, periodic, tagging, replay, network, ghosts>>

Init ==
    /\ \E c \in [key : Key, group : Group] : config = [n \in Node |-> c]
    /\ record = [n \in Node |-> [key |-> "none", group |-> "none", limit |-> 0]]
    /\ marker = [n \in Node |-> [k \in Key |-> "none"]]
    /\ inForce = [n \in Node |-> Unconfigured]
    /\ timer = [n \in Node |-> 0] /\ late = [n \in Node |-> 0] /\ reserved = [n \in Node |-> 0]
    /\ synchronized = [n \in Node |-> FALSE] /\ wait = [n \in Node |-> 0]
    /\ periodic = [n \in Node |-> TRUE]
    /\ answer = [n \in Node |-> NoAnswer]
    /\ nextTag = [n \in Node |-> [timer |-> 0, tag |-> 0]]
    /\ replay = [n \in Node |-> {}]
    /\ frames = {}
    /\ notification = NoNotification
    /\ accepted = [n \in Node |-> {}] /\ repeated = FALSE
    /\ events = 0

Next ==
    \/ Tick
    \/ \E n \in Node :
        \/ Refuse(n) \/ Advance(n) \/ Send(n) \/ Restart(n)
        \/ \E written \in {"nothing", "marker", "reservation", "all"} : Configure(n, written)
        \/ \E tag \in 1 .. MaxTag : Notify(n, tag)
        \/ \E f \in frames : Hear(n, f) \/ CannotFollow(n, f)
        \/ HearNotification(n) \/ CannotFollow(n, notification)
        \/ \E c \in [key : Key, group : Group] : Rekey(n, c)

Spec == Init /\ [][Next]_vars

-----------------------------------------------------------------------------
(* Properties *)

TypeOK ==
    /\ timer \in [Node -> 0 .. MaxSequence] /\ reserved \in [Node -> 0 .. MaxSequence]
    /\ late \in [Node -> 0 .. 1] /\ wait \in [Node -> 0 .. SyncDelay]
    /\ synchronized \in [Node -> BOOLEAN] /\ periodic \in [Node -> BOOLEAN]

\* No two frames are encrypted under the same key with the same timer, serial number and
\* tag, whatever restarts, failing writes and changes of the key lie between them.
NonceFresh ==
    \A f, g \in frames :
        (f.key = g.key /\ f.timer = g.timer /\ f.serial = g.serial /\ f.tag = g.tag) => f = g

\* A node hands a frame on at most once while it keeps its configuration, however often and
\* late the frame is repeated on the way.
AcceptedOnce == ~repeated

=============================================================================
