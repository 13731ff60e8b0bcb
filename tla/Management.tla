----------------------------- MODULE Management -----------------------------
(***************************************************************************)
(* The management of a device from the bus: src/src/knx/bau_systemB.cpp    *)
(* answers the services that src/src/knx/application_layer.cpp dispatches, *)
(* on the properties of src/src/knx/data_property.cpp,                     *)
(* callback_property.h and function_property.h, on the memory and on the   *)
(* device itself; and the client that restarts another device.             *)
(*                                                                         *)
(* A property is described by Desc[p]:                                     *)
(*   kind       "data", "progmode" and "address" (callbacks), "control"    *)
(*              (PID_LOAD_STATE_CONTROL), "function" (PID_SECURITY_MODE)   *)
(*   size, max  octets of an element, elements                             *)
(*   writable   WriteEnable, what is saved;  readLevel  0 .. 3             *)
(*   secret     "no"; "sensitive": only for the tool; "open": sensitive    *)
(*              but readable; "writeonly"                                  *)
(* Octets are small numbers, numbers of two octets are two of them.        *)
(***************************************************************************)
EXTENDS Integers, Sequences, FiniteSets

Lists == INSTANCE SequencesExt

CONSTANTS
    Client,          \* devices of the bus, with or without tool key
    Desc, Factory,   \* the properties, and the data they are created with
    SaveOrder,       \* the saved data properties, in the order of the buffer
    Control, Domain, Version,  \* PID_DEVICE_CONTROL, PID_RF_DOMAIN_ADDRESS, PID_PROG_VERSION
    Octet,
    MemorySize, AppStart,      \* octets of non-volatile memory; first behind the metadata
    LoadControlSize,           \* octets of LE_ADDITIONAL_LOAD_CONTROLS
    PlainLimit, ExtLimit, MemoryLimit,  \* data octets of an answer
    DefaultAddress, DefaultDomain,
    Request,         \* the requests that may arrive, by service
    MaxEvent         \* bound: number of events

Property     == DOMAIN Desc
DataProperty == {p \in Property : Desc[p].kind = "data"}
Sensitive(p) == Desc[p].secret # "no"

\* The octets a property may hold: whole elements, no more than there may be
Whole(p, v) == v \in Seq(Nat) /\ \E e \in 0 .. Desc[p].max : Len(v) = e * Desc[p].size

ASSUME ManagementAssumption ==
    /\ MaxEvent \in Nat /\ MemorySize \in Nat /\ AppStart \in Nat
    /\ PlainLimit \in Nat /\ ExtLimit \in Nat /\ DefaultAddress \in Nat /\ Octet \subseteq Nat
    /\ {Control, Domain, Version} \subseteq {p \in DataProperty : Desc[p].writable}
    /\ Desc[Version].max = 1
    /\ SaveOrder \in Seq(DataProperty)
    /\ Lists!ToSet(SaveOrder) = {p \in DataProperty : Desc[p].writable}
    /\ \A p \in Property :
          /\ Desc[p].size \in Nat \ {0} /\ Desc[p].max \in Nat \ {0}
          /\ Desc[p].secret \in {"no", "sensitive", "open", "writeonly"}
    /\ \A p \in DataProperty :
          /\ Desc[p].size <= PlainLimit
          /\ Desc[p].reset \in {"kept", "zeroed", "emptied"}
          /\ ~Desc[p].writable => Desc[p].reset = "kept"
          /\ Whole(p, Factory[p])
    /\ Factory \in [DataProperty -> Seq(Nat)]
    /\ DefaultDomain \in Seq(Nat) /\ Len(DefaultDomain) = Desc[Domain].size

\* What the application layer hands on: octets, and the numbers read from them.  A
\* plain write has the frame and the header of its answer: no more octets fit.
ASSUME RequestAssumption ==
    \A s \in DOMAIN Request : s # "none" /\ \A q \in Request[s] :
        /\ q.service = s /\ q.tool \in BOOLEAN
        /\ q.start \in Nat /\ q.count \in Nat /\ q.address \in Nat /\ q.data \in Seq(Nat)
        /\ s = "DomainAddressSerialNumberWrite" => Len(q.data) = Desc[Domain].size
        /\ s = "PropertyValueWrite" /\ q.p \in DataProperty => Len(q.data) <= PlainLimit

VARIABLES
    device,          \* what the services read and change, see Fresh
    provisioned,     \* the device has a factory key or a loaded key table; never changes
    saved,           \* what the non-volatile memory holds
    link,            \* the peer of the transport connection
    connected,       \* _connectedTsap: a client, Own for the number 0, or Nobody
    restartState,    \* _restartState
    target,          \* ghost: the device whose restart was asked for
    events,
    last             \* ghost: the request answered last and the answer

vars == <<device, provisioned, saved, link, connected, restartState, target, events, last>>
view == <<device, provisioned, saved, link, connected, restartState, target, events>>

Nobody == "nobody"
Own    == "own"

-----------------------------------------------------------------------------
(* Properties *)

Elements(p, v) == Len(v) \div Desc[p].size
Word(n)        == <<0, n>>
Got(n, d)      == [count |-> n, data |-> d]
Refused        == Got(0, << >>)

\* DataProperty::read
DataRead(p, v, start, n) ==
    IF start = 0 THEN Got(1, Word(Elements(p, v)))
    ELSE IF n = 0 \/ Elements(p, v) = 0 \/ start > Elements(p, v) \/ n > Elements(p, v) - start + 1
         THEN Refused
         ELSE Got(n, SubSeq(v, (start - 1) * Desc[p].size + 1, (start - 1 + n) * Desc[p].size))

Fits(p, start, n) == n # 0 /\ start <= Desc[p].max /\ start + n <= Desc[p].max + 1

\* CallbackProperty::read with the callbacks of device_object.cpp and table_object.cpp
CallbackRead(p, octet, start, n) ==
    IF ~Fits(p, start, n) THEN Refused
    ELSE IF start = 0 THEN Got(1, Word(1)) ELSE Got(1, <<octet>>)

PropertyRead(dev, p, start, n) ==
    CASE Desc[p].kind = "data"     -> DataRead(p, dev.value[p], start, n)
      [] Desc[p].kind = "progmode" -> CallbackRead(p, dev.progMode, start, n)
      [] Desc[p].kind = "address"  -> CallbackRead(p, dev.address, start, n)
      [] Desc[p].kind = "control"  -> CallbackRead(p, dev.load, start, n)
      [] Desc[p].kind = "function" -> Refused

\* seeded fault: the elements behind the written ones are dropped
SplicedAtEnd(v, first, d) ==
    [i \in 1 .. first + Len(d) |->
        IF i > first THEN d[i - first] ELSE IF i <= Len(v) THEN v[i] ELSE 0]

\* what a write leaves of the octets: those in front, zeroes up to it, those behind
Spliced(v, first, d) ==
    [i \in 1 .. (IF first + Len(d) > Len(v) THEN first + Len(d) ELSE Len(v)) |->
        IF i > first /\ i <= first + Len(d) THEN d[i - first]
        ELSE IF i <= Len(v) THEN v[i] ELSE 0]

Wrote(n, dev, saves) == [count |-> n, device |-> dev, saves |-> saves]

\* DataProperty::write
DataWrite(dev, p, start, n, d) ==
    IF ~Fits(p, start, n) \/ (start = 0 /\ ~(n = 1 /\ d[1] = 0 /\ d[2] = 0))
    THEN Wrote(0, dev, FALSE)
    ELSE IF start = 0 THEN Wrote(1, [dev EXCEPT !.value[p] = << >>], FALSE)
    ELSE Wrote(n, [dev EXCEPT !.value[p] =
                Spliced(@, (start - 1) * Desc[p].size, SubSeq(d, 1, n * Desc[p].size))], FALSE)

-----------------------------------------------------------------------------
(* The load state of the application program *)

Unloaded == 0
Loaded   == 1
Loading  == 2
Failed   == 3

Cleared(dev) ==
    [dev EXCEPT !.memory = [a \in DOMAIN @ |-> IF dev.allocated /\ a >= AppStart THEN 0 ELSE @[a]],
                !.allocated = FALSE, !.armed = @ \/ dev.allocated, !.load = Unloaded]

\* loadEvent; only the completion of a download saves at once
LoadEvent(dev, d) ==
    LET event   == d[1]
        To(s)   == [dev EXCEPT !.load = s]
        invalid == event \notin 0 .. 4
    IN CASE invalid -> Wrote(1, To(Failed), FALSE)
         [] event = 1 /\ dev.load \in {Unloaded, Loaded} -> Wrote(1, To(Loading), FALSE)
         [] event = 2 /\ dev.load = Loading -> Wrote(1, To(Loaded), TRUE)
         [] event = 4 /\ dev.load = Loaded ->
                Wrote(1, [To(Unloaded) EXCEPT !.allocated = FALSE, !.armed = @ \/ dev.allocated], FALSE)
         [] event = 4 /\ dev.load # Loaded -> Wrote(1, To(Unloaded), FALSE)
         [] event = 3 /\ dev.load = Loaded -> Wrote(1, To(Failed), FALSE)
         [] event = 3 /\ dev.load = Loading ->
                Wrote(1, IF d[2] # 11 THEN To(Failed)
                         ELSE [dev EXCEPT !.allocated = d[3] > 0, !.armed = @ \/ dev.allocated], FALSE)
         [] OTHER -> Wrote(1, dev, FALSE)

PropertyWrite(dev, p, start, n, d) ==
    CASE Desc[p].kind = "data" -> DataWrite(dev, p, start, n, d)
      [] Desc[p].kind = "progmode" /\ Fits(p, start, n) ->
            Wrote(1, IF start = 0 THEN dev ELSE [dev EXCEPT !.progMode = d[1]], FALSE)
      [] Desc[p].kind = "control" /\ Fits(p, start, n) -> LoadEvent(dev, d)
      [] OTHER -> Wrote(0, dev, FALSE)

-----------------------------------------------------------------------------
(* Who may do what *)

ProgMode == device.progMode = 1

\* seeded fault: the secure mode does not matter in programming mode
AllowedInProgMode(q) == q.tool \/ ProgMode

ManagementWriteAllowed(q) == q.tool \/ (~device.securityMode /\ ProgMode)

PropertyReadAllowed(dev, p, q) ==
    /\ p \in Property
    /\ Desc[p].secret # "writeonly"
    /\ \/ Desc[p].secret = "open"
       \/ q.tool
       \/ /\ ~Sensitive(p)
          /\ Desc[p].readLevel = 3 \/ (~dev.securityMode /\ dev.progMode = 1)

PropertyCommandAllowed(p, q) ==
    /\ p \in Property /\ ManagementWriteAllowed(q)
    /\ q.tool \/ ~Sensitive(p)

PropertyWriteAllowed(p, q) ==
    /\ p \in Property /\ Desc[p].writable /\ ManagementWriteAllowed(q)
    /\ q.tool \/ ~Sensitive(p)

Populated == \E p \in DataProperty : Desc[p].secret = "writeonly" /\ Elements(p, device.value[p]) # 0

MemoryRange(a, n)            == a + n <= MemorySize
ApplicationMemoryRange(a, n) == n # 0 /\ a >= AppStart /\ MemoryRange(a, n)

MemoryAccessAllowed(q, a, n) ==
    \/ q.tool
    \/ /\ ~provisioned \/ ApplicationMemoryRange(a, n)
       /\ ~Populated /\ ~device.securityMode /\ ProgMode

-----------------------------------------------------------------------------
(* Saving and restarting *)

\* The buffer: the program version in front of its object, then the values, each
\* with its number of elements.
Saved(dev, undefined) ==
    LET version == IF dev.value[Version] = << >> THEN undefined ELSE dev.value[Version]
        append(p, buffer) == buffer \o <<Elements(p, dev.value[p])>> \o dev.value[p]
    IN [buffer |-> version \o <<dev.load, dev.address, IF dev.securityMode THEN 1 ELSE 0>>
                   \o Lists!FoldLeft(LAMBDA buffer, p : append(p, buffer), << >>, SaveOrder),
        memory |-> dev.memory, allocated |-> dev.allocated]

Fresh(memory) ==
    [value |-> Factory, progMode |-> 0, address |-> DefaultAddress, load |-> Unloaded,
     securityMode |-> FALSE, allocated |-> FALSE, armed |-> FALSE, memory |-> memory]

\* seeded fault: a value that the device was created with is not replaced by an empty one
RestoreNonEmpty(parsed, p) ==
    LET octets == Head(parsed.rest) * Desc[p].size
    IN [value |-> IF octets = 0 THEN parsed.value
                  ELSE [parsed.value EXCEPT ![p] = SubSeq(parsed.rest, 2, 1 + octets)],
        rest  |-> SubSeq(parsed.rest, 2 + octets, Len(parsed.rest))]

\* DataProperty::restore: its element count and its octets are taken from the buffer.
RestoreProperty(parsed, p) ==
    LET octets == Head(parsed.rest) * Desc[p].size
    IN [value |-> [parsed.value EXCEPT ![p] = SubSeq(parsed.rest, 2, 1 + octets)],
        rest  |-> SubSeq(parsed.rest, 2 + octets, Len(parsed.rest))]

Restored(nvm) ==
    LET size    == Desc[Version].size
        at(i)   == nvm.buffer[size + i]
        created == [Factory EXCEPT ![Version] = SubSeq(nvm.buffer, 1, size)]
        parsed  == Lists!FoldLeft(RestoreProperty,
                            [value |-> created, rest |-> SubSeq(nvm.buffer, size + 4, Len(nvm.buffer))],
                            SaveOrder)
    IN [Fresh(nvm.memory) EXCEPT !.value = parsed.value, !.load = at(1), !.address = at(2),
                                 !.securityMode = at(3) = 1, !.allocated = nvm.allocated]

EraseCode == {"ConfirmedRestart", "ResetAP", "ResetIA", "ResetLinks", "ResetParam",
              "FactoryReset", "FactoryResetWithoutIA"}

Factories == {"FactoryReset", "FactoryResetWithoutIA"}

AfterFactoryReset(p, v) ==
    IF p = Domain THEN DefaultDomain
    ELSE CASE Desc[p].reset = "zeroed"  -> [i \in 1 .. Desc[p].max * Desc[p].size |-> 0]
           [] Desc[p].reset = "emptied" -> << >>
           [] Desc[p].reset = "kept"    -> v

\* doMasterReset
MasterReset(dev, code) ==
    LET addressed == IF code \in {"ResetIA", "FactoryReset"}
                     THEN [dev EXCEPT !.address = DefaultAddress] ELSE dev
        unloaded  == IF code \in Factories \cup {"ResetAP", "ResetParam"}
                     THEN Cleared(addressed) ELSE addressed
    IN IF code \in Factories
       THEN [unloaded EXCEPT !.value = [p \in DOMAIN @ |-> AfterFactoryReset(p, @[p])],
                             !.securityMode = FALSE]
       ELSE unloaded

-----------------------------------------------------------------------------
(* Answers.  individualSend: over the connection when the asker is the connected
   device, which its own connection with the number 0 never is. *)

Answer(to, code, n, d) == [to |-> to, code |-> code, count |-> n, data |-> d]
Silence                == Answer(<<"nowhere", Nobody>>, "", 0, << >>)
Route(from)            == IF from = connected THEN <<"connection", link>> ELSE <<"individual", from>>
Reply(q, code, n, d)   == Answer(Route(q.from), code, n, d)
Broadcast(d)           == Answer(<<"broadcast", Nobody>>, "", 1, d)

Counted(q, answer) ==
    /\ events < MaxEvent /\ events' = events + 1
    /\ last' = [request |-> q, answer |-> answer]

Garbage == {[i \in 1 .. Desc[Version].size |-> o] : o \in Octet}

\* What a service leaves: the device, saved or not, and its answer.
Finish(q, dev, saves, answer) ==
    /\ Counted(q, answer)
    /\ device' = dev
    /\ saved' \in IF saves THEN {Saved(dev, undefined) : undefined \in Garbage} ELSE {saved}
    /\ UNCHANGED <<provisioned, link, connected, restartState, target>>

Tell(q, answer) == Finish(q, device, FALSE, answer)

-----------------------------------------------------------------------------
(* Property services *)

\* What is answered to a read of n elements
ReadBack(dev, q, n, limit) ==
    LET size    == Desc[q.p].size
        clamped == IF q.start > 0 /\ n * size > limit THEN limit \div size ELSE n
    IN IF PropertyReadAllowed(dev, q.p, q) THEN PropertyRead(dev, q.p, q.start, clamped) ELSE Refused

PlainRead(dev, q, n) == IF n = 0 THEN Refused ELSE ReadBack(dev, q, n, PlainLimit)

PropertyValueRead(q) ==
    LET r == PlainRead(device, q, q.count) IN Tell(q, Reply(q, "", r.count, r.data))

PropertyValueExtRead(q) ==
    LET r == ReadBack(device, q, q.count, ExtLimit) IN Tell(q, Reply(q, "", r.count, r.data))

\* for a data interface on the device itself: no limit, no answer on the bus
LocalRead(q) ==
    LET r == IF PropertyReadAllowed(device, q.p, q)
             THEN PropertyRead(device, q.p, q.start, q.count) ELSE Refused
    IN Tell(q, Answer(<<"local", Nobody>>, "", r.count, r.data))

Short(q) ==
    \/ (IF q.start = 0 THEN 2 ELSE q.count * Desc[q.p].size) > Len(q.data)
    \/ Desc[q.p].kind = "control" /\ Len(q.data) \in 1 .. LoadControlSize - 1 /\ q.data[1] = 3

Written(q) ==
    IF PropertyWriteAllowed(q.p, q) /\ ~Short(q)
    THEN PropertyWrite(device, q.p, q.start, q.count, q.data)
    ELSE Wrote(0, device, FALSE)

\* answered with what a read returns now
PropertyValueWrite(q) ==
    LET w == Written(q)
        r == PlainRead(w.device, q, w.count)
    IN Finish(q, w.device, w.saves, Reply(q, "", r.count, r.data))

ExtWriteCode(q) ==
    CASE q.p \notin Property -> "AddressVoid"
      [] q.p \in Property /\ ~PropertyWriteAllowed(q.p, q) ->
            IF Desc[q.p].writable THEN "AccessDenied" ELSE "AccessReadOnly"
      [] OTHER -> IF Short(q) THEN "DataOverflow"
                  ELSE IF Written(q).count = 0 THEN "DataVoid" ELSE "Success"

PropertyValueExtWrite(q) ==
    LET w == Written(q)
    IN Finish(q, w.device, w.saves,
              IF q.service = "PropertyValueExtWriteUnCon" THEN Silence
              ELSE Reply(q, ExtWriteCode(q), w.count, << >>))

LocalWrite(q) ==
    LET w == Written(q)
    IN Finish(q, w.device, w.saves, Answer(<<"local", Nobody>>, "", w.count, << >>))

\* the callbacks of PID_SECURITY_MODE: reserved octet, service, mode
ModeResult(dev, code, d) == [device |-> dev, code |-> code, data |-> d]

ModeCommand(d) ==
    CASE d = << >> -> ModeResult(device, "", << >>)
      [] Len(d) \notin {0, 3} -> ModeResult(device, "DataVoid", << >>)
      [] Len(d) = 3 /\ d[2] # 0 -> ModeResult(device, "InvalidCommand", << >>)
      [] Len(d) = 3 /\ d[2] = 0 /\ d[3] > 1 -> ModeResult(device, "DataVoid", << >>)
      [] OTHER -> ModeResult([device EXCEPT !.securityMode = d[3] = 1], "Success", <<0>>)

ModeState(d) ==
    CASE d = << >> -> ModeResult(device, "", << >>)
      [] Len(d) \notin {0, 2} -> ModeResult(device, "DataVoid", << >>)
      [] Len(d) = 2 /\ d[2] # 0 -> ModeResult(device, "InvalidCommand", << >>)
      [] OTHER -> ModeResult(device, "Success", <<0, IF device.securityMode THEN 1 ELSE 0>>)

IsFunction(p) == p \in Property /\ Desc[p].kind = "function"

\* No callback of the application is registered: an unknown property stays unanswered.
FunctionPropertyCommand(q) ==
    \/ /\ ~ManagementWriteAllowed(q)
       /\ Tell(q, Reply(q, "AccessDenied", 0, << >>))
    \/ /\ ManagementWriteAllowed(q)
       /\ IsFunction(q.p) /\ PropertyCommandAllowed(q.p, q)
       /\ LET r == ModeCommand(q.data) IN Finish(q, r.device, FALSE, Reply(q, r.code, 1, r.data))
    \/ /\ ManagementWriteAllowed(q)
       /\ ~(IsFunction(q.p) /\ PropertyCommandAllowed(q.p, q))
       /\ Tell(q, IF q.p \in Property THEN Reply(q, "", 0, << >>) ELSE Silence)

FunctionPropertyState(q) ==
    IF IsFunction(q.p) /\ PropertyReadAllowed(device, q.p, q)
    THEN LET r == ModeState(q.data) IN Tell(q, Reply(q, r.code, 1, r.data))
    ELSE Tell(q, IF q.p \in Property THEN Reply(q, "", 0, << >>) ELSE Silence)

\* The load control of an object may be commanded as well; its state is the answer.
\* An input without its reserved octet is dropped.
ControlCommand(q) ==
    LET w == IF Short([q EXCEPT !.start = 1, !.count = 1]) THEN Wrote(0, device, FALSE)
             ELSE PropertyWrite(device, q.p, 1, 1, q.data)
    IN Finish(q, w.device, w.saves,
              IF w.count = 1 THEN Reply(q, "Success", 1, <<w.device.load>>)
              ELSE Reply(q, "AddressVoid", 0, << >>))

FunctionPropertyExtCommand(q) ==
    /\ q.data # << >>
    /\ \/ /\ ~ManagementWriteAllowed(q) \/ q.p \notin Property
          /\ Tell(q, Reply(q, IF ManagementWriteAllowed(q) THEN "AddressVoid" ELSE "AccessDenied", 0, << >>))
       \/ /\ IsFunction(q.p) /\ PropertyCommandAllowed(q.p, q)
          /\ IF q.data[1] # 0 THEN Tell(q, Reply(q, "DataVoid", 0, << >>))
             ELSE LET r == ModeCommand(q.data) IN Finish(q, r.device, FALSE, Reply(q, r.code, 1, r.data))
       \/ /\ q.p \in Property /\ Desc[q.p].kind = "control" /\ PropertyWriteAllowed(q.p, q)
          /\ ControlCommand(q)
       \/ /\ q.p \in Property /\ ManagementWriteAllowed(q)
          /\ ~(IsFunction(q.p) /\ PropertyCommandAllowed(q.p, q))
          /\ ~(Desc[q.p].kind = "control" /\ PropertyWriteAllowed(q.p, q))
          /\ Tell(q, Reply(q, IF Desc[q.p].kind \in {"function", "control"} THEN "AccessDenied"
                              ELSE "DataTypeConflict", 0, << >>))

FunctionPropertyExtState(q) ==
    /\ q.data # << >>
    /\ LET allowed == PropertyReadAllowed(device, q.p, q)
           r       == IF q.data[1] # 0 THEN ModeResult(device, "DataVoid", << >>) ELSE ModeState(q.data)
       IN Tell(q,
          CASE ~allowed -> Reply(q, IF q.p \in Property THEN "AccessDenied" ELSE "AddressVoid", 0, << >>)
            [] allowed /\ IsFunction(q.p) -> Reply(q, r.code, 1, r.data)
            [] allowed /\ Desc[q.p].kind = "control" -> Reply(q, "Success", 1, <<device.load>>)
            [] OTHER -> Reply(q, "DataTypeConflict", 0, << >>))

\* M_FuncProp of a data interface on the device: commands are never let through
LocalFunction(q) ==
    LET r == ModeState(q.data)
        to == <<"local", Nobody>>
    IN Tell(q, IF q.service = "LocalCommand" \/ ~PropertyReadAllowed(device, q.p, q)
               THEN Answer(to, "AccessDenied", 0, << >>)
               ELSE IF IsFunction(q.p) THEN Answer(to, r.code, 1, r.data) ELSE Answer(to, "", 0, << >>))

-----------------------------------------------------------------------------
(* Memory services: "Memory", "Router" and "RoutingTable" share their handler *)

Plain == {"MemoryWrite", "MemoryRouterWrite", "RoutingTableWrite"}

Stored(q) == [device EXCEPT !.memory =
                [a \in DOMAIN @ |-> IF a >= q.address /\ a < q.address + Len(q.data)
                                    THEN q.data[a - q.address + 1] ELSE @[a]]]

MemoryAt(dev, a, n) == [i \in 1 .. n |-> dev.memory[a + i - 1]]

\* verifyMode() of an emptied property reads an octet nobody has set.
VerifyMode == IF device.value[Control] = << >> THEN BOOLEAN
              ELSE {(device.value[Control][1] \div 4) % 2 = 1}

\* Memory::writeMemory ignores what lies outside.
StoredOrNot(q) == IF MemoryRange(q.address, Len(q.data)) THEN Stored(q) ELSE device

MemoryAnswer(q, dev, n) ==
    IF MemoryAccessAllowed(q, q.address, n) /\ MemoryRange(q.address, n)
    THEN Reply(q, "", n, MemoryAt(dev, q.address, n))
    ELSE Reply(q, "", 0, << >>)

\* Only in verify mode is a write answered, with what can be read back.
MemoryWrite(q) ==
    LET n == Len(q.data)
        accepted == /\ MemoryAccessAllowed(q, q.address, n)
                    /\ q.service = "UserMemoryWrite" \/ (n # 0 /\ MemoryRange(q.address, n))
    IN IF accepted
       THEN \E verify \in VerifyMode :
               Finish(q, StoredOrNot(q), FALSE,
                      IF verify THEN MemoryAnswer(q, StoredOrNot(q), n) ELSE Silence)
       ELSE Tell(q, Silence)

MemoryRead(q) ==
    Tell(q, MemoryAnswer(q, device, q.count))

MemoryExtWrite(q) ==
    LET n == Len(q.data)
        code == IF ~MemoryAccessAllowed(q, q.address, n) THEN "AccessDenied"
                ELSE IF n = 0 \/ ~MemoryRange(q.address, n) THEN "AddressVoid" ELSE "Success"
    IN Finish(q, IF code = "Success" THEN Stored(q) ELSE device, FALSE,
              Reply(q, code, IF code = "Success" THEN n ELSE 0, << >>))

\* An answer that does not fit into a frame is not sent.
MemoryExtRead(q) ==
    LET code == IF ~MemoryAccessAllowed(q, q.address, q.count) THEN "AccessDenied"
                ELSE IF ~MemoryRange(q.address, q.count) THEN "AddressVoid" ELSE "Success"
        n    == IF code = "Success" THEN q.count ELSE 0
    IN Tell(q, IF n > MemoryLimit THEN Silence
               ELSE Reply(q, code, n, MemoryAt(device, q.address, n)))

-----------------------------------------------------------------------------
(* The device as a whole *)

\* The individual address is given to whoever is in programming mode.
IndividualAddressWrite(q) ==
    Finish(q, IF ProgMode THEN [device EXCEPT !.address = q.address] ELSE device, FALSE, Silence)

\* q.count: 1 when the serial number in the request is the device's
Meant(q) == q.count = 1

SerialNumberWrite(q) ==
    Finish(q, IF ManagementWriteAllowed(q) /\ Meant(q)
              THEN [device EXCEPT !.address = q.address] ELSE device, FALSE, Silence)

DomainAddressWrite(q) ==
    Finish(q, IF ManagementWriteAllowed(q) /\ Meant(q)
              THEN DataWrite(device, Domain, 1, 1, q.data).device ELSE device, FALSE, Silence)

BroadcastRead(q) ==
    Tell(q,
      CASE q.service = "IndividualAddressRead" ->
             IF ProgMode /\ ManagementWriteAllowed(q) THEN Broadcast(<<device.address>>) ELSE Silence
        [] q.service = "IndividualAddressSerialNumberRead" ->
             IF Meant(q) THEN Broadcast(<<0, device.address>>) ELSE Silence
        [] q.service = "DomainAddressSerialNumberRead" ->
             IF Meant(q) /\ device.value[Domain] # << >>
             THEN Broadcast(SubSeq(device.value[Domain], 1, Desc[Domain].size)) ELSE Silence
        [] q.service = "SystemNetworkParameterRead" ->
             IF ProgMode THEN Broadcast(<< >>) ELSE Silence)

\* Services that only tell something; the level 255 is none.
Enquiry(q) ==
    Tell(q,
      CASE q.service \in {"DeviceDescriptorRead", "ADCRead"} -> Reply(q, "", 1, << >>)
        [] q.service = "AuthorizeRequest" ->
             Reply(q, "", 1, <<IF ManagementWriteAllowed(q) THEN 0 ELSE 255>>)
        [] q.service = "PropertyDescriptionRead" ->
             IF q.p \in Property
             THEN Reply(q, IF Desc[q.p].writable THEN "writable" ELSE "", 1, <<Desc[q.p].max>>)
             ELSE Reply(q, "", 0, <<0>>))

Reboot(nvm) ==
    /\ saved' = nvm
    /\ device' = Restored(nvm)
    /\ link' = Nobody /\ connected' = Nobody /\ restartState' = "Idle"
    /\ UNCHANGED <<provisioned, target>>

\* restartResponse goes to the connected device; without one its number is 65535.
ToConnected == IF connected = Nobody THEN <<"individual", "15.15.255">> ELSE <<"connection", link>>

Restart(q) ==
    \/ /\ ~ManagementWriteAllowed(q)
       /\ Tell(q, IF q.code = "" THEN Silence ELSE Answer(ToConnected, "AccessDenied", 0, << >>))
    \/ /\ ManagementWriteAllowed(q) /\ q.code = ""
       /\ Counted(q, Silence)
       /\ \E undefined \in Garbage : Reboot(Saved(device, undefined))
    \/ /\ ManagementWriteAllowed(q) /\ q.code \notin EraseCode \cup {""}
       /\ Tell(q, Answer(ToConnected, "Unsupported", 0, << >>))
    \/ /\ ManagementWriteAllowed(q) /\ q.code \in EraseCode
       /\ Counted(q, Answer(ToConnected, "Success", 0, << >>))
       /\ \E undefined \in Garbage : Reboot(Saved(MasterReset(device, q.code), undefined))

Asked(services) == UNION {Request[service] : service \in services \cap DOMAIN Request}

\* individualIndication, dataBroadcastIndication and dataSystemBroadcastIndication
Served ==
    \/ \E q \in Asked({"PropertyValueRead"}) : PropertyValueRead(q)
    \/ \E q \in Asked({"PropertyValueExtRead"}) : PropertyValueExtRead(q)
    \/ \E q \in Asked({"LocalRead"}) : LocalRead(q)
    \/ \E q \in Asked({"PropertyValueWrite"}) : PropertyValueWrite(q)
    \/ \E q \in Asked({"PropertyValueExtWriteCon", "PropertyValueExtWriteUnCon"}) : PropertyValueExtWrite(q)
    \/ \E q \in Asked({"LocalWrite"}) : LocalWrite(q)
    \/ \E q \in Asked({"FunctionPropertyCommand"}) : FunctionPropertyCommand(q)
    \/ \E q \in Asked({"FunctionPropertyState"}) : FunctionPropertyState(q)
    \/ \E q \in Asked({"FunctionPropertyExtCommand"}) : FunctionPropertyExtCommand(q)
    \/ \E q \in Asked({"FunctionPropertyExtState"}) : FunctionPropertyExtState(q)
    \/ \E q \in Asked({"LocalCommand", "LocalState"}) : LocalFunction(q)
    \/ \E q \in Asked(Plain \cup {"UserMemoryWrite"}) : MemoryWrite(q)
    \/ \E q \in Asked({"MemoryRead", "RoutingTableRead", "UserMemoryRead"}) : MemoryRead(q)
    \/ \E q \in Asked({"MemoryExtWrite"}) : MemoryExtWrite(q)
    \/ \E q \in Asked({"MemoryExtRead"}) : MemoryExtRead(q)
    \/ \E q \in Asked({"IndividualAddressWrite"}) : IndividualAddressWrite(q)
    \/ \E q \in Asked({"IndividualAddressSerialNumberWrite"}) : SerialNumberWrite(q)
    \/ \E q \in Asked({"DomainAddressSerialNumberWrite"}) : DomainAddressWrite(q)
    \/ \E q \in Asked({"IndividualAddressRead", "IndividualAddressSerialNumberRead",
                       "DomainAddressSerialNumberRead", "SystemNetworkParameterRead"}) : BroadcastRead(q)
    \/ \E q \in Asked({"DeviceDescriptorRead", "ADCRead", "AuthorizeRequest",
                       "PropertyDescriptionRead"}) : Enquiry(q)
    \/ \E q \in Asked({"Restart"}) : Restart(q)

-----------------------------------------------------------------------------
(* What happens on the device itself *)

NoRequest == [service |-> "none", from |-> Nobody, tool |-> FALSE]
Locally   == Counted(NoRequest, Silence)

ProgButton ==
    /\ device' = [device EXCEPT !.progMode = IF ProgMode THEN 0 ELSE 1]
    /\ Locally
    /\ UNCHANGED <<provisioned, saved, link, connected, restartState, target>>

LocalFactoryReset ==
    /\ Locally
    /\ device' = MasterReset(device, "FactoryResetWithoutIA")
    /\ \E undefined \in Garbage : saved' = Saved(device', undefined)
    /\ UNCHANGED <<provisioned, link, connected, restartState, target>>

\* Memory::loop, some time after memory was freed
DelayedSave ==
    /\ device.armed
    /\ device' = [device EXCEPT !.armed = FALSE]
    /\ \E undefined \in Garbage : saved' = Saved(device, undefined)
    /\ Locally
    /\ UNCHANGED <<provisioned, link, connected, restartState, target>>

PowerLoss == Locally /\ Reboot(saved)

-----------------------------------------------------------------------------
(* Connections, and the client that restarts another device *)

Connections == <<device, provisioned, saved>>

PeerConnects(c) ==
    /\ link = Nobody
    /\ link' = c /\ connected' = c
    /\ Locally
    /\ UNCHANGED <<Connections, restartState, target>>

\* T_Disconnect of the peer, or the timeout of the connection
Disconnected ==
    /\ link # Nobody
    /\ link' = Nobody /\ connected' = Nobody
    /\ Locally
    /\ UNCHANGED <<Connections, restartState, target>>

\* The descriptor request that follows is answered or not: nobody waits for it.
RestartRequest(c) ==
    /\ connected = Nobody /\ link = Nobody
    /\ restartState' = "Connecting" /\ target' = c /\ link' = c
    /\ Locally
    /\ UNCHANGED <<Connections, connected>>

ConnectConfirm ==
    /\ link = target /\ connected = Nobody /\ link # Nobody
    /\ connected' = Own
    /\ restartState' = IF restartState = "Connecting" THEN "Connected" ELSE "Idle"
    /\ Locally
    /\ UNCHANGED <<Connections, link, target>>

SendRestart ==
    /\ restartState = "Connected"
    /\ restartState' = "Restarted"
    /\ Counted(NoRequest, Answer(ToConnected, "Restart", 0, << >>))
    /\ UNCHANGED <<Connections, link, connected, target>>

FinishRestart ==
    /\ restartState = "Restarted"
    /\ restartState' = "Idle" /\ link' = Nobody /\ connected' = Nobody
    /\ Locally
    /\ UNCHANGED <<Connections, target>>

-----------------------------------------------------------------------------
Init ==
    /\ provisioned \in BOOLEAN
    /\ device = Fresh([a \in 0 .. MemorySize - 1 |-> 0])
    /\ \E undefined \in Garbage : saved = Saved(device, undefined)
    /\ link = Nobody /\ connected = Nobody /\ restartState = "Idle" /\ target = Nobody
    /\ events = 0
    /\ last = [request |-> NoRequest, answer |-> Silence]

Next ==
    \/ Served
    \/ ProgButton \/ LocalFactoryReset \/ DelayedSave \/ PowerLoss
    \/ \E c \in Client : PeerConnects(c) \/ RestartRequest(c)
    \/ Disconnected \/ ConnectConfirm \/ SendRestart \/ FinishRestart

Spec == Init /\ [][Next]_vars

-----------------------------------------------------------------------------
(* Properties *)

\* The elements of a property: those written, those in front of them that did not
\* exist before, and all others.
WrittenAsAsked(q, n) ==
    LET old == device.value[q.p]  new == device'.value[q.p]  size == Desc[q.p].size
    IN IF q.start = 0 THEN new = << >>
       ELSE /\ DataRead(q.p, new, q.start, n).data = SubSeq(q.data, 1, n * size)
            /\ \A e \in 1 .. Elements(q.p, old) :
                  e \notin q.start .. q.start + n - 1 => DataRead(q.p, new, e, 1) = DataRead(q.p, old, e, 1)
            /\ \A e \in Elements(q.p, old) + 1 .. q.start - 1 :
                  DataRead(q.p, new, e, 1).data = [i \in 1 .. size |-> 0]
            /\ \A p \in DataProperty \ {q.p} : device'.value[p] = device.value[p]

Same == device' = device

(* What is answered is what happened: a positive answer to a write shows octets
   that are stored where they were addressed, and nothing else has changed; after a
   negative one nothing has.  A secret is written without being shown: the plain
   write of it is always answered negatively. *)
AnswersTrue ==
    [][LET q == last'.request  a == last'.answer
       IN CASE q.service \in {"PropertyValueWrite", "PropertyValueExtWriteCon", "LocalWrite"}
               /\ q.p \in DataProperty ->
                    IF a.count > 0 THEN WrittenAsAsked(q, a.count)
                    ELSE Same \/ (q.service = "PropertyValueWrite" /\ Desc[q.p].secret = "writeonly")
            [] q.service = "MemoryExtWrite" ->
                    IF a.code = "Success" THEN MemoryAt(device', q.address, Len(q.data)) = q.data ELSE Same
            [] q.service \in Plain \cup {"UserMemoryWrite"} /\ a.count > 0 ->
                    MemoryAt(device', q.address, a.count) = q.data
            [] q.service \in {"FunctionPropertyCommand", "FunctionPropertyExtCommand"} ->
                    Same \/ a.code = "Success"
            [] q.service = "Restart" -> Same \/ a.code \in {"", "Success"}
            [] OTHER -> TRUE]_vars

(* A request changes the device, or what is saved, only by the hand of the tool or
   in programming mode; a secured device then changes only its address.  Keys are
   shown to nobody, as properties or as memory, and the sensitive only to the tool. *)
ManagedOnlyWhenAllowed ==
    [][LET q == last'.request  a == last'.answer
       IN /\ q.service # "none" /\ <<device', saved'>> # <<device, saved>> =>
                q.tool \/ (ProgMode /\ (device.securityMode => q.service = "IndividualAddressWrite"))
          /\ q.service \in {"PropertyValueRead", "PropertyValueExtRead", "LocalRead", "PropertyValueWrite"}
             /\ q.p \in Property /\ a.count > 0 =>
                \/ Desc[q.p].secret \in {"no", "open"}
                \/ q.tool /\ Desc[q.p].secret = "sensitive"
          /\ q.service \in {"MemoryRead", "UserMemoryRead", "RoutingTableRead", "MemoryExtRead"}
             /\ a.count > 0 /\ ~q.tool =>
                /\ ~device.securityMode
                /\ \A p \in DataProperty : Desc[p].secret = "writeonly" => device.value[p] = << >>
                /\ provisioned => q.address >= AppStart]_vars

(* After a restart everything is as it was but what its erase code names: the
   address, the program, or all settings; of the keys nothing remains then. *)
RestartKeepsSettings ==
    [][LET q == last'.request  code == q.code  new == device'
           kept(p) == new.value[p] = device.value[p]
       IN q.service = "Restart" /\ ManagementWriteAllowed(q) /\ code \in EraseCode \cup {""} =>
          /\ new.address = IF code \in {"ResetIA", "FactoryReset"} THEN DefaultAddress ELSE device.address
          /\ \A p \in DataProperty :
                IF code \in Factories /\ p = Domain THEN new.value[p] = DefaultDomain
                ELSE IF code \in Factories /\ Desc[p].reset # "kept"
                THEN \A i \in DOMAIN new.value[p] : new.value[p][i] = 0
                ELSE kept(p)
          /\ new.securityMode = (device.securityMode /\ code \notin Factories)
          /\ IF code \in Factories \cup {"ResetAP", "ResetParam"} THEN new.load = Unloaded /\ ~new.allocated
             ELSE <<new.load, new.allocated, new.memory>> = <<device.load, device.allocated, device.memory>>
         ]_vars

(* Of the restart client the code says "connection confirmed, we send restartRequest,
   but we wait a moment": the device that was to be restarted gets the request. *)
RestartReachesTarget ==
    [][last'.answer.code = "Restart" => last'.answer.to = <<"connection", target>>]_vars
=============================================================================
