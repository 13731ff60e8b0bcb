------------------------------ MODULE Coupler ------------------------------
(***************************************************************************)
(* Couplers between subnetworks: src/src/knx/network_layer_coupler.cpp,    *)
(* the filter table and settings of src/src/knx/router_object.cpp, and the *)
(* security proxy of src/src/knx/secure_proxy.cpp.                         *)
(*                                                                         *)
(* Lines carry telegrams; every coupler at a line hears each of them once, *)
(* except those it put there itself.  Interface 1 is the main line,        *)
(* interface 2 the sub line (indices 0 and 1 in the source).               *)
(***************************************************************************)
EXTENDS Naturals, Sequences, FiniteSets

CONSTANTS
    Coupler, Line,
    Installations,  \* wirings: who is where, with which settings; and, as a bound, the
                    \* number of changes of the configuration and restarts (edits)
    MaxGroup,       \* group addresses 1 .. MaxGroup (65535 in the source)
    FirstHigh,      \* 0x7000: those from here have settings of their own
    OctetBits,      \* bits of an octet of the filter table (8)
    Hops,           \* hop counts with which devices send
    DefaultHop,     \* hop count of the coupler's own telegrams, PID_ROUTING_COUNT
    OpenHop,        \* PID_HOP_COUNT, for telegrams from an open medium
    Settings,       \* values ETS may give the settings of one direction
    ProxyTables,    \* decoded values ETS may give PID_SECURITY_PROXY_GRP_KEY_TABLE
    Passes,         \* <<source, destination>> the application may let pass for a while
    MaxLease,       \* temporary routes kept at one time (4)
    Used,           \* bound: the groups devices send to
    MaxSend         \* bound: telegrams sent by devices

Unlimited == 7          \* the hop count that is not decremented
Side      == {1, 2}
Other(i)  == 3 - i
Group     == 1 .. MaxGroup

\* An individual address is <<area, line, device>>; 15.15.0 is a coupler's default.
\* The destination of a group telegram is <<group>>.
DefaultAddress == <<15, 15, 0>>
Everyone       == <<0, 0, 0>>     \* the destination of a broadcast
Area(a)   == a[1]
Subnet(a) == <<a[1], a[2]>>

\* How the traffic of one direction is treated: PID_MAIN_ and PID_SUB_LCCONFIG and
\* LCGRPCONFIG.  low and high are the groups below and from FirstHigh.
Treatment == {"unlock", "lock", "route"}
\* ackAll: PHYS_IACK_ALL, every telegram is acknowledged without looking at it.
Setting   == [phys: Treatment, low: Treatment, high: Treatment, broadcastLock: BOOLEAN,
              ackAll: BOOLEAN]

\* A rule of the security proxy: a group that is secured on one side only
Rule == [group: Group, secure: Side, from: SUBSET Side]

Kind == {"individual", "group", "broadcast", "systemService"}

ASSUME CouplerAssumption ==
    /\ MaxGroup \in Nat /\ FirstHigh \in Group /\ OctetBits \in Nat \ {0}
    /\ Hops \subseteq 0 .. Unlimited /\ DefaultHop \in 0 .. Unlimited /\ OpenHop \in 1 .. 6
    /\ Settings \subseteq Setting /\ ProxyTables \subseteq SUBSET Rule
    /\ MaxLease \in Nat /\ MaxSend \in Nat
    /\ "device" \notin Coupler

LoadState == {"unloaded", "loading", "loaded"}

\* A coupler is between two lines; its address is the first of what is below it.  The number 0
\* is a coupler's, the others are for devices.
ASSUME InstallationAssumption ==
    \A w \in Installations :
        /\ DOMAIN w.device \subseteq Line /\ w.open \subseteq Coupler /\ w.edits \in Nat
        /\ w.setting \in Setting /\ w.load \in LoadState /\ w.filter \subseteq Group
        /\ \A l \in DOMAIN w.device : w.device[l][3] # 0
        /\ DOMAIN w.address = Coupler
        /\ \A c \in Coupler :
              /\ w.line[c][1] \in Line /\ w.line[c][2] \in Line /\ w.line[c][1] # w.line[c][2]
              /\ w.address[c][3] = 0 /\ w.table[c] \subseteq Rule

\* Without a ring the lines are in a row, each coupler joins two neighbours, no two of them
\* the same, and the devices from its sub line on are those that have addresses below its own.
BelowInRow(w, c, a) ==
    IF w.address[c][2] = 0 THEN Area(a) = Area(w.address[c]) ELSE Subnet(a) = Subnet(w.address[c])

ASSUME RowAssumption ==
    \A w \in {v \in Installations : ~v.ring} :
        /\ w.order \in Seq(Line)
        /\ \A m, n \in 1 .. Len(w.order) : w.order[m] = w.order[n] => m = n
        /\ \A l \in DOMAIN w.device : \E n \in 1 .. Len(w.order) : w.order[n] = l
        /\ \A c \in Coupler : \E n \in 1 .. Len(w.order) - 1 :
              /\ w.line[c][1] = w.order[n] /\ w.line[c][2] = w.order[n + 1]
              /\ \A m \in 1 .. Len(w.order) : w.order[m] \in DOMAIN w.device =>
                    (BelowInRow(w, c, w.device[w.order[m]]) <=> m > n)
        /\ \A c, d \in Coupler : w.line[c][1] = w.line[d][1] => c = d

VARIABLES
    installation,   \* the wiring; never changes
    address,        \* individualAddress() of each coupler
    couplerType,    \* _couplerType
    settings,       \* the router object's settings per direction
    load,           \* its load state
    filter,         \* the groups whose bit is set in the filter table
    proxyTable,     \* PID_SECURITY_PROXY_GRP_KEY_TABLE
    proxyActive,    \* _proxyTableActive
    rules,          \* SecureProxy::_rules
    leases,         \* SecureProxy::_leases, those that have not expired
    asked,          \* requests a coupler's own stack has yet to answer
    air,            \* telegrams on the lines
    sent,           \* number of telegrams the devices have sent
    edits,          \* number of changes and restarts
    original,       \* ghost: original[n], telegram n as its device sent it
    reached,        \* ghost: reached[n], the lines telegram n has been on
    meant           \* ghost: the groups ETS means to be in the filter table

config  == <<installation, address, settings, load, filter, proxyTable, meant>>
proxy   == <<proxyActive, rules, leases>>
traffic == <<asked, air, sent, original, reached>>
vars    == <<config, couplerType, proxy, traffic, edits>>

LineAt(c, i) == installation.line[c][i]

\* Is the sub line of c an open medium (RF: coupler model 2.0)?
IsOpen(c) == c \in installation.open

-----------------------------------------------------------------------------
(* The type of a coupler, from its individual address *)

EvaluateCouplerType(a, before) ==
    IF a[3] # 0 THEN before ELSE IF a[2] = 0 THEN "backbone" ELSE "line"

\* isRoutedIndividualAddress evaluates it unless the address is that of the constructor.
\* seeded fault: it is never evaluated again
TypeOfConstruction(c) == couplerType[c]

TypeWhenRouting(c) ==
    IF address[c] # DefaultAddress THEN EvaluateCouplerType(address[c], couplerType[c])
                                   ELSE couplerType[c]

\* Is a an address of the part of the network below a coupler of this type?
IsBelow(c, type, a) ==
    IF type = "line" THEN Subnet(a) = Subnet(address[c]) ELSE Area(a) = Area(address[c])

IsRoutedIndividualAddress(c, a, i) ==
    IF i = 1 THEN IsBelow(c, TypeWhenRouting(c), a) ELSE ~IsBelow(c, TypeWhenRouting(c), a)

-----------------------------------------------------------------------------
(* The filter table: one bit for each group address *)

OctetOf(g) == g \div OctetBits
BitOf(g)   == g % OctetBits

\* The bits of octet o that a command for first .. last changes
\* seeded fault: the last octet is changed as a whole
BitsOfWholeEnd(o, first, last) ==
    IF OctetOf(first) = OctetOf(last) THEN BitOf(first) .. BitOf(last)
    ELSE IF o = OctetOf(first) THEN BitOf(first) .. OctetBits - 1 ELSE 0 .. OctetBits - 1

BitsOf(o, first, last) ==
    IF OctetOf(first) = OctetOf(last) THEN BitOf(first) .. BitOf(last)
    ELSE IF o = OctetOf(first) THEN BitOf(first) .. OctetBits - 1
    ELSE IF o = OctetOf(last) THEN 0 .. BitOf(last)
    ELSE 0 .. OctetBits - 1

Addressed(first, last) ==
    {g \in Group : /\ OctetOf(g) \in OctetOf(first) .. OctetOf(last)
                   /\ BitOf(g) \in BitsOf(OctetOf(g), first, last)}

IsGroupAddressInFilterTable(c, g) == load[c] = "loaded" /\ g \in filter[c]

IsRoutedGroupAddress(c, g, i) ==
    LET treatment == IF g < FirstHigh THEN settings[c][i].low ELSE settings[c][i].high IN
    \/ treatment = "unlock"
    \/ treatment = "route" /\ IsGroupAddressInFilterTable(c, g)

-----------------------------------------------------------------------------
(* The security proxy *)

\* The rules of a table can be configured: one for each group, in some direction
IsConfigurable(table) ==
    \A r \in table : r.from # {} /\ (\A s \in table : s.group = r.group => s = r)

\* refreshSecureProxy: what the tables ask for is in force before anything is routed.
RefreshSucceeds(c) ==
    proxyTable[c] # {} => load[c] = "loaded" /\ IsConfigurable(proxyTable[c])

RulesInForce(c) ==
    IF proxyTable[c] # {} THEN (IF RefreshSucceeds(c) THEN proxyTable[c] ELSE rules[c])
    ELSE IF proxyActive[c] THEN {} ELSE rules[c]

\* Configuring other rules takes back the temporary routes.
LeasesInForce(c) == IF RulesInForce(c) = rules[c] THEN leases[c] ELSE {}

RefreshSecureProxy(c) ==
    /\ proxyActive' = [proxyActive EXCEPT ![c] = proxyTable[c] # {}]
    /\ rules'       = [rules EXCEPT ![c] = RulesInForce(c)]
    /\ leases'      = [leases EXCEPT ![c] = LeasesInForce(c)]

NonGroupAllowed(c, t, i) ==
    RulesInForce(c) = {} \/ [source |-> t.source, to |-> t.to, side |-> i] \in LeasesInForce(c)

\* translate: the forms in which t may leave.  Decoding fails for a wrong key or a
\* repeated telegram, encoding when no sequence number can be had.
Translated(c, t, i) ==
    {IF t.form = "secured" THEN "plain" ELSE "secured" :
        r \in {q \in RulesInForce(c) : /\ q.group = t.to[1] /\ i \in q.from
                                       /\ (t.form = "secured") = (i = q.secure)
                                       /\ t.source # address[c]}}

IsRuled(c, g) == \E r \in RulesInForce(c) : r.group = g

-----------------------------------------------------------------------------
(* Telegrams *)

\* number: which one it is; via: who put it on this line; unheard: who has yet to hear it
Telegram(n, via, line, kind, source, to, hop, form) ==
    [number |-> n, via |-> via, line |-> line, kind |-> kind, source |-> source, to |-> to,
     hop |-> hop, form |-> form,
     unheard |-> {c \in Coupler : c # via /\ \E i \in Side : LineAt(c, i) = line}]

NoTelegram == [kind |-> "none"]

\* c has heard t: nobody else has to, and it is gone
Heard(c, t) ==
    (air \ {t}) \cup {u \in {[t EXCEPT !.unheard = @ \ {c}]} : u.unheard # {}}

Put(c, t, new) ==
    /\ air' = Heard(c, t) \cup {u \in new : u.unheard # {}}
    /\ UNCHANGED original
    /\ reached' = [n \in DOMAIN reached |->
                      reached[n] \cup {u.line : u \in {v \in new : v.number = n}}]

-----------------------------------------------------------------------------
(* sendMsgHopCount *)

\* Is the hop count of t replaced because it comes from an open medium?
IsReplaced(c, i) == IsOpen(c) /\ i = 2

\* seeded fault: group telegrams keep the unlimited hop count
HopKept(c, t, i) ==
    IF IsReplaced(c, i) THEN OpenHop ELSE IF t.hop < Unlimited THEN t.hop - 1 ELSE t.hop

HopAfter(c, t, i) ==
    IF IsReplaced(c, i) THEN OpenHop
    ELSE IF t.hop < Unlimited THEN t.hop - 1
    ELSE IF t.kind = "group" THEN Unlimited - 1 ELSE Unlimited

\* The guards of sendMsgHopCount, in their order
\* seeded fault: a table that cannot be used is passed over
MayPassUnrefreshed(c, t, i) ==
    /\ t.kind # "group" => NonGroupAllowed(c, t, i)
    /\ t.kind = "group" => IsRoutedGroupAddress(c, t.to[1], i)
    /\ IsReplaced(c, i) \/ t.hop > 0

MayPass(c, t, i) ==
    /\ RefreshSucceeds(c)
    /\ t.kind # "group" => NonGroupAllowed(c, t, i)
    /\ t.kind = "group" => IsRoutedGroupAddress(c, t.to[1], i)
    /\ IsReplaced(c, i) \/ t.hop > 0

\* t in form f, as c puts it on the line opposite to i.  A translated telegram is the
\* coupler's own.
Passed(c, t, i, f) ==
    Telegram(t.number, c, LineAt(c, Other(i)), t.kind,
             IF f = t.form THEN t.source ELSE address[c], t.to, HopAfter(c, t, i), f)

\* What c may send: nothing, or one telegram
Passing(c, t, i) ==
    IF ~MayPass(c, t, i) THEN {{}}
    ELSE IF t.kind = "group" /\ IsRuled(c, t.to[1])
         THEN {{}} \cup {{Passed(c, t, i, f)} : f \in Translated(c, t, i)}
         ELSE {{Passed(c, t, i, t.form)}}

SendMsgHopCount(c, t, i) ==
    /\ RefreshSecureProxy(c)
    /\ \E new \in Passing(c, t, i) : Put(c, t, new)

\* c does nothing with t but hear it
Ignore(c, t) == Put(c, t, {}) /\ UNCHANGED proxy

-----------------------------------------------------------------------------
(* Indications from the data link layers *)

Hears(c, t, i) == t \in air /\ c \in t.unheard /\ LineAt(c, i) = t.line

\* The TP sub line asks whether to acknowledge before it passes on a telegram, which
\* evaluates the coupler's type unless everything is acknowledged.
IsAckRequired(c, i) ==
    couplerType' = IF i = 2 /\ ~IsOpen(c) /\ ~settings[c][2].ackAll
                   THEN [couplerType EXCEPT ![c] = TypeWhenRouting(c)] ELSE couplerType

\* dataIndication, routeDataIndividual
HearIndividual(c, t, i) ==
    /\ Hears(c, t, i) /\ t.kind = "individual"
    /\ \/ /\ t.to = address[c]
          /\ asked' = [asked EXCEPT ![c] = @ \cup {[source |-> t.source, side |-> i]}]
          /\ Ignore(c, t)
          /\ IsAckRequired(c, i)
       \/ /\ t.to # address[c]
          /\ settings[c][i].phys = "lock"
          /\ Ignore(c, t)
          /\ IsAckRequired(c, i)
          /\ UNCHANGED asked
       \/ /\ t.to # address[c]
          /\ settings[c][i].phys = "unlock"
          /\ SendMsgHopCount(c, t, i)
          /\ IsAckRequired(c, i)
          /\ UNCHANGED asked
       \/ /\ t.to # address[c]
          /\ settings[c][i].phys = "route"
          /\ IF IsRoutedIndividualAddress(c, t.to, i) THEN SendMsgHopCount(c, t, i) ELSE Ignore(c, t)
          /\ couplerType' = [couplerType EXCEPT ![c] = TypeWhenRouting(c)]
          /\ UNCHANGED asked
    /\ UNCHANGED <<config, sent, edits>>

HearGroup(c, t, i) ==
    /\ Hears(c, t, i) /\ t.kind = "group"
    /\ SendMsgHopCount(c, t, i)
    /\ UNCHANGED <<config, couplerType, asked, sent, edits>>

\* broadcastIndication, systemBroadcastIndication: the own stack first.  A system service
\* that comes by a closed medium goes no further.
HearBroadcast(c, t, i) ==
    /\ Hears(c, t, i) /\ t.kind \in {"broadcast", "systemService"}
    /\ \/ /\ settings[c][i].broadcastLock \/ (t.kind = "systemService" /\ ~IsReplaced(c, i))
          /\ Ignore(c, t)
       \/ /\ ~settings[c][i].broadcastLock
          /\ t.kind = "systemService" => IsReplaced(c, i)
          /\ SendMsgHopCount(c, t, i)
    /\ UNCHANGED <<config, couplerType, asked, sent, edits>>

-----------------------------------------------------------------------------
(* Requests of the coupler's own stack and of the devices on the lines *)

\* dataIndividualRequest, routeDataIndividual: the type is not evaluated here.
AnswerSide(c, to) == IF IsBelow(c, couplerType[c], to) THEN 2 ELSE 1

Answer(c) ==
    /\ \E r \in asked[c] :
          /\ asked' = [asked EXCEPT ![c] = @ \ {r}]
          /\ air' = air \cup
                {u \in {Telegram(0, c, LineAt(c, AnswerSide(c, r.source)), "individual", address[c],
                                r.source, DefaultHop, "plain")} : u.unheard # {}}
    /\ UNCHANGED <<config, couplerType, proxy, sent, original, reached, edits>>

\* dataBroadcastRequest, dataSystemBroadcastRequest: both lines, in any case
AnnounceBroadcast(c, kind) ==
    /\ edits < installation.edits /\ edits' = edits + 1
    /\ air' = air \cup {u \in {Telegram(0, c, LineAt(c, i), kind, address[c], Everyone, DefaultHop, "plain") :
                                   i \in Side} : u.unheard # {}}
    /\ UNCHANGED <<config, couplerType, proxy, asked, sent, original, reached>>

\* A device sends.  Groups may be secured by the device itself.
Originate(kind, to, form) ==
    /\ sent < MaxSend /\ sent' = sent + 1
    /\ \E line \in DOMAIN installation.device, hop \in Hops :
          LET t == Telegram(sent + 1, "device", line, kind, installation.device[line], to, hop, form) IN
          /\ kind = "individual" => t.source # to
          /\ air' = air \cup {t}
          /\ original' = [original EXCEPT ![sent + 1] = t]
          /\ reached' = [reached EXCEPT ![sent + 1] = {line}]
    /\ UNCHANGED <<config, couplerType, proxy, asked, edits>>

Devices  == {installation.device[l] : l \in DOMAIN installation.device}
Stations == Devices \cup {address[c] : c \in Coupler}

Send ==
    \/ \E to \in Stations : Originate("individual", to, "plain")
    \/ \E g \in Used, form \in {"plain", "secured"} : Originate("group", <<g>>, form)
    \/ \E kind \in {"broadcast", "systemService"} : Originate(kind, Everyone, "plain")

-----------------------------------------------------------------------------
(* Configuration: ETS, the application, restarts *)

Edit == edits < installation.edits /\ edits' = edits + 1

WriteSettings(c, i, s) ==
    /\ Edit
    /\ settings' = [settings EXCEPT ![c][i] = s]
    /\ UNCHANGED <<installation, address, load, filter, proxyTable, meant, couplerType, proxy, traffic>>

WriteProxyTable(c, table) ==
    /\ Edit
    /\ proxyTable' = [proxyTable EXCEPT ![c] = table]
    /\ UNCHANGED <<installation, address, settings, load, filter, meant, couplerType, proxy, traffic>>

\* Load controls.  The filter table is static: unloading frees nothing, and its bits stay.
LoadControl(c, event) ==
    /\ Edit
    /\ \/ event = "startLoading" /\ load[c] \in {"unloaded", "loaded"}
          /\ load' = [load EXCEPT ![c] = "loading"]
       \/ event = "loadCompleted" /\ load[c] = "loading"
          /\ load' = [load EXCEPT ![c] = "loaded"]
       \/ event = "unload" /\ load[c] # "unloaded"
          /\ load' = [load EXCEPT ![c] = "unloaded"]
    /\ UNCHANGED <<installation, address, settings, filter, proxyTable, meant, couplerType, proxy, traffic>>

\* PID_ROUTETABLE_CONTROL: only while loading
RouteTableControl(c, first, last, set) ==
    /\ Edit /\ load[c] = "loading" /\ first <= last
    /\ filter' = [filter EXCEPT ![c] = IF set THEN @ \cup Addressed(first, last) ELSE @ \ Addressed(first, last)]
    /\ meant'  = [meant EXCEPT ![c] = IF set THEN @ \cup (first .. last) ELSE @ \ (first .. last)]
    /\ UNCHANGED <<installation, address, settings, load, proxyTable, couplerType, proxy, traffic>>

\* The services for the whole table
RoutingTableControl(c, set) ==
    /\ Edit /\ load[c] = "loading"
    /\ filter' = [filter EXCEPT ![c] = IF set THEN Group ELSE {}]
    /\ meant'  = [meant EXCEPT ![c] = IF set THEN Group ELSE {}]
    /\ UNCHANGED <<installation, address, settings, load, proxyTable, couplerType, proxy, traffic>>

\* The application allows a device to pass, for a while
AllowTemporaryRoute(c, source, to, i) ==
    /\ Edit
    /\ Cardinality(leases[c]) < MaxLease
    /\ leases' = [leases EXCEPT ![c] = @ \cup {[source |-> source, to |-> to, side |-> i]}]
    /\ UNCHANGED <<config, couplerType, proxyActive, rules, traffic>>

Expire(c) ==
    /\ \E l \in leases[c] : leases' = [leases EXCEPT ![c] = @ \ {l}]
    /\ UNCHANGED <<config, couplerType, proxyActive, rules, traffic, edits>>

\* The application's own rules, in place of a table
ConfigureSecureProxy(c, table) ==
    /\ Edit /\ IsConfigurable(table)
    /\ rules'  = [rules EXCEPT ![c] = table]
    /\ leases' = [leases EXCEPT ![c] = IF table = rules[c] THEN @ ELSE {}]
    /\ UNCHANGED <<config, couplerType, proxyActive, traffic>>

\* The constructor runs before the address is restored.
Constructed == EvaluateCouplerType(DefaultAddress, "line")

Restarted(c) ==
    /\ couplerType' = [couplerType EXCEPT ![c] = Constructed]
    /\ proxyActive' = [proxyActive EXCEPT ![c] = FALSE]
    /\ rules'       = [rules EXCEPT ![c] = {}]
    /\ leases'      = [leases EXCEPT ![c] = {}]
    /\ asked'       = [asked EXCEPT ![c] = {}]
    /\ air'         = {u \in {[t EXCEPT !.unheard = @ \ {c}] : t \in air} : u.unheard # {}}

\* A basic restart saves everything first.
Restart(c) ==
    /\ Edit
    /\ Restarted(c)
    /\ UNCHANGED <<config, sent, original, reached>>

\* The table a factory reset leaves: as many records as there can be, all zero
Blank == {[group |-> 1, secure |-> 1, from |-> {}]}

FactoryReset(c, withoutIA) ==
    /\ Edit
    /\ address'    = IF withoutIA THEN address ELSE [address EXCEPT ![c] = DefaultAddress]
    /\ load'       = [load EXCEPT ![c] = "unloaded"]
    /\ proxyTable' = [proxyTable EXCEPT ![c] = Blank]
    /\ Restarted(c)
    /\ UNCHANGED <<installation, settings, filter, meant, sent, original, reached>>

IndividualAddressWrite(c) ==
    /\ Edit
    /\ address' = [address EXCEPT ![c] = installation.address[c]]
    /\ UNCHANGED <<installation, settings, load, filter, proxyTable, meant, couplerType, proxy, traffic>>

-----------------------------------------------------------------------------

Init ==
    /\ installation \in Installations
    /\ address      = installation.address
    /\ couplerType  = [c \in Coupler |-> Constructed]
    /\ settings     = [c \in Coupler |-> [i \in Side |-> installation.setting]]
    /\ load         = [c \in Coupler |-> installation.load]
    /\ filter       = [c \in Coupler |-> installation.filter]
    /\ meant        = filter
    /\ proxyTable   = [c \in Coupler |-> installation.table[c]]
    /\ proxyActive  = [c \in Coupler |-> FALSE]
    /\ rules        = [c \in Coupler |-> {}]
    /\ leases       = [c \in Coupler |-> {}]
    /\ asked        = [c \in Coupler |-> {}]
    /\ air          = {}
    /\ sent         = 0
    /\ edits        = 0
    /\ original     = [n \in 1 .. MaxSend |-> NoTelegram]
    /\ reached      = [n \in 1 .. MaxSend |-> {}]

Hear(c) ==
    \E t \in air, i \in Side :
        HearIndividual(c, t, i) \/ HearGroup(c, t, i) \/ HearBroadcast(c, t, i)

Configure(c) ==
    \/ \E i \in Side, s \in Settings : WriteSettings(c, i, s)
    \/ \E table \in ProxyTables : WriteProxyTable(c, table) \/ ConfigureSecureProxy(c, table)
    \/ \E event \in {"startLoading", "loadCompleted", "unload"} : LoadControl(c, event)
    \/ \E first, last \in Group, set \in BOOLEAN : RouteTableControl(c, first, last, set)
    \/ \E pass \in Passes, i \in Side : AllowTemporaryRoute(c, pass[1], pass[2], i)
    \/ \E kind \in {"broadcast", "systemService"} : AnnounceBroadcast(c, kind)
    \/ \E set \in BOOLEAN : RoutingTableControl(c, set)
    \/ \E withoutIA \in BOOLEAN : FactoryReset(c, withoutIA)
    \/ IndividualAddressWrite(c) \/ Restart(c)

Next ==
    \/ Send
    \/ \E c \in Coupler : Hear(c) \/ Answer(c) \/ Expire(c) \/ Configure(c)

Spec == Init /\ [][Next]_vars

\* The lines deliver what is put on them, and the couplers' loops handle it.
FairSpec == Spec /\ WF_vars(\E c \in Coupler : Hear(c))

-----------------------------------------------------------------------------
(* Properties *)

TypeOK ==
    /\ couplerType \in [Coupler -> {"line", "backbone"}]
    /\ load \in [Coupler -> LoadState]
    /\ filter \in [Coupler -> SUBSET Group]
    /\ \A c \in Coupler : Cardinality(leases[c]) <= MaxLease
    /\ \A t \in air : t.hop \in 0 .. Unlimited /\ t.unheard \subseteq Coupler /\ t.kind \in Kind

\* The bits of the filter table are the groups ETS has set and not cleared, although the
\* commands work octet by octet with a mask for the first and the last one.
FilterExact == filter = meant

\* In a network without rings whose couplers route, an individually addressed telegram is
\* seen on no line that is not between its sender and its destination: the couplers' types
\* and address comparisons agree with each other.
Position(l) == CHOOSE n \in DOMAIN installation.order : installation.order[n] = l
LineOfStation(a) == CHOOSE l \in Line : l \in DOMAIN installation.device /\ installation.device[l] = a

Between(l, k, m) ==
    LET p == Position(l)  a == Position(k)  b == Position(m) IN
    (a <= p /\ p <= b) \/ (b <= p /\ p <= a)

AsInstalled == ~installation.ring /\ address = installation.address

StaysOnPath ==
    \A n \in 1 .. MaxSend : LET t == original[n] IN
        (/\ AsInstalled /\ edits = 0 /\ t.kind = "individual" /\ t.to \in Devices
         /\ \A c \in Coupler, i \in Side : settings[c][i].phys = "route")
        => \A l \in reached[n] : Between(l, t.line, LineOfStation(t.to))

RoutingConsistent == TypeOK /\ FilterExact /\ StaysOnPath

\* A group with a rule in the proxy's table (or, without a table, in the rules the
\* application gave) never leaves the coupler unsecured on the side the rule secures, nor
\* secured on the other, in any load state, after any restart, and for any other table
\* before: a table that cannot be used blocks, it never downgrades.
RulesMeant(c) ==
    IF proxyTable[c] # {} THEN proxyTable[c] ELSE IF proxyActive[c] THEN {} ELSE rules[c]

NeverDowngraded ==
    [][\A t \in air' \ air : \A c \in Coupler : \A r \in RulesMeant(c) :
          (/\ t.via = c /\ t.kind = "group" /\ t.to = <<r.group>>
           /\ ~\E u \in air : u.number = t.number /\ u.line = t.line)
          => (t.form = "secured") = (t.line = LineAt(c, r.secure))]_vars

\* What a coupler's own stack answers goes to the side the request came from, although the
\* type of the coupler is not evaluated when it sends: the sub line that delivered the request
\* has evaluated it.  A backbone coupler whose sub line never does (an open medium, or one
\* where everything is acknowledged) answers on the wrong side, and so does one whose address
\* was taken away and given back while the request was waiting, which takes two edits.
EvaluatesType(c) ==
    \/ address[c][2] # 0
    \/ ~IsOpen(c) /\ ~installation.setting.ackAll /\ ~settings[c][2].ackAll

AnswersReturn ==
    AsInstalled /\ edits <= 1 =>
        \A c \in Coupler : EvaluatesType(c) =>
            \A r \in asked[c] : AnswerSide(c, r.source) = r.side

\* Also in a ring of couplers, every telegram that is not both unlimited and outside the
\* groups is gone in the end: the hop count stops it.
Limited(t) == t.hop < Unlimited \/ t.kind = "group"
TelegramsDie == \A n \in 1 .. MaxSend :
    (\E t \in air : t.number = n /\ Limited(t)) ~> ~\E t \in air : t.number = n /\ Limited(t)

\* In a network without rings, an individually addressed telegram with hops enough comes to
\* the line of its destination, if nobody changes the configuration.
MayArrive(n) ==
    /\ AsInstalled /\ edits = 0
    /\ \A c \in Coupler : proxyTable[c] = {}
    /\ original[n].kind = "individual" /\ original[n].hop >= 2 /\ original[n].to \in Devices

ArrivesAtDestination ==
    \A n \in 1 .. MaxSend :
        MayArrive(n) ~> (~MayArrive(n) \/ LineOfStation(original[n].to) \in reached[n])

\* Both: no telegram stays on its way for ever, and none is lost on it.
TelegramsSettle == TelegramsDie /\ ArrivesAtDestination

=============================================================================
