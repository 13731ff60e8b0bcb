--------------------------- MODULE CouplerProofs ---------------------------
(***************************************************************************)
(* For any couplers, lines, settings, tables and telegrams: the filter     *)
(* table has the groups ETS put there, routed telegrams stay between their *)
(* sender and their destination, a coupler's answers go back to where the  *)
(* request came from, and the security proxy never downgrades.             *)
(***************************************************************************)
EXTENDS Coupler, FiniteSetTheorems, TLAPS

-----------------------------------------------------------------------------
(* The invariant *)

ConfigInv ==
    /\ installation \in Installations /\ edits \in Nat
    /\ couplerType \in [Coupler -> {"line", "backbone"}]
    /\ settings \in [Coupler -> [Side -> Setting]]
    /\ load \in [Coupler -> LoadState]
    /\ filter \in [Coupler -> SUBSET Group] /\ filter = meant
    /\ proxyTable \in [Coupler -> SUBSET Rule]

Lease == [source : {p[1] : p \in Passes}, to : {p[2] : p \in Passes}, side : Side]

ProxyInv ==
    /\ proxyActive \in [Coupler -> BOOLEAN]
    /\ rules \in [Coupler -> SUBSET Rule]
    /\ leases \in [Coupler -> SUBSET Lease]
    /\ \A c \in Coupler :
          /\ IsConfigurable(rules[c])
          /\ IsFiniteSet(leases[c]) /\ Cardinality(leases[c]) <= MaxLease

IsTelegram(t) ==
    /\ t = [number |-> t.number, via |-> t.via, line |-> t.line, kind |-> t.kind,
            source |-> t.source, to |-> t.to, hop |-> t.hop, form |-> t.form,
            unheard |-> t.unheard]
    /\ t.kind \in Kind /\ t.hop \in 0 .. Unlimited /\ t.unheard \subseteq Coupler

\* A telegram is a device's that has come so far, or a coupler's own.
Follows(t) ==
    t.number # 0 =>
        /\ t.number \in 1 .. sent
        /\ original[t.number].kind = t.kind /\ original[t.number].to = t.to
        /\ t.line \in reached[t.number]

TrafficInv ==
    /\ sent \in 0 .. MaxSend
    /\ original = [n \in 1 .. MaxSend |-> original[n]]
    /\ reached = [n \in 1 .. MaxSend |-> reached[n]]
    /\ \A t \in air : IsTelegram(t) /\ Follows(t)
    /\ \A n \in 1 .. MaxSend : original[n].kind = "none" \/ original[n].line \in DOMAIN installation.device

\* Until somebody changes it, everything is as it was built.
AsBuilt ==
    edits = 0 =>
        /\ address = installation.address
        /\ \A c \in Coupler : address[c] = DefaultAddress => couplerType[c] = "line"

\* Between and LineOfStation, for a wiring w
Place(w, l) == CHOOSE n \in DOMAIN w.order : w.order[n] = l

Within(w, l, k, m) ==
    (Place(w, k) <= Place(w, l) /\ Place(w, l) <= Place(w, m))
        \/ (Place(w, m) <= Place(w, l) /\ Place(w, l) <= Place(w, k))

Home(w, a) == CHOOSE l \in Line : l \in DOMAIN w.device /\ w.device[l] = a

Homes(w) == {w.device[l] : l \in DOMAIN w.device}

Routes(s) == \A c \in Coupler, i \in Side : s[c][i].phys = "route"

OnPath ==
    edits = 0 /\ ~installation.ring /\ Routes(settings) =>
        \A n \in 1 .. MaxSend :
            original[n].kind = "individual" /\ original[n].to \in Homes(installation) =>
                \A l \in reached[n] :
                    Within(installation, l, original[n].line, Home(installation, original[n].to))

CouplerInv == ConfigInv /\ ProxyInv /\ TrafficInv /\ AsBuilt /\ OnPath

USE CouplerAssumption

-----------------------------------------------------------------------------
(* The filter table *)


LEMMA DivMod ==
    ASSUME NEW g \in Nat, NEW b \in Nat \ {0}
    PROVE  /\ g = b * (g \div b) + (g % b) /\ g \div b \in Nat /\ g % b \in 0 .. b - 1
OBVIOUS

LEMMA Product ==
    ASSUME NEW b \in Nat, NEW m \in Nat, NEW n \in Nat, m < n
    PROVE  b * m + b <= b * n
<1>1. PICK k \in Nat : n = m + 1 + k
    <2>1. n - m - 1 \in Nat /\ n = m + 1 + (n - m - 1)
        OBVIOUS
    <2> QED BY <2>1
<1>2. b * n = b * m + b + b * k
    BY <1>1
<1>3. b * k \in Nat
    OBVIOUS
<1>4. b * m \in Nat /\ b * n \in Nat
    OBVIOUS
<1> QED BY <1>2, <1>3, <1>4

\* A group address is ordered by its octet, and within it by its bit.
LEMMA OctetOrder ==
    ASSUME NEW g \in Nat, NEW h \in Nat
    PROVE  g <= h <=> OctetOf(g) < OctetOf(h) \/ (OctetOf(g) = OctetOf(h) /\ BitOf(g) <= BitOf(h))
<1>1. /\ g = OctetBits * OctetOf(g) + BitOf(g) /\ h = OctetBits * OctetOf(h) + BitOf(h)
      /\ OctetOf(g) \in Nat /\ OctetOf(h) \in Nat
      /\ BitOf(g) \in 0 .. OctetBits - 1 /\ BitOf(h) \in 0 .. OctetBits - 1
    BY DivMod DEF OctetOf, BitOf
<1>2. OctetBits * OctetOf(g) \in Nat /\ OctetBits * OctetOf(h) \in Nat
    BY <1>1
<1>3. CASE OctetOf(g) < OctetOf(h)
    <2>1. OctetBits * OctetOf(g) + OctetBits <= OctetBits * OctetOf(h)
        BY <1>1, <1>3, Product
    <2> QED BY <1>1, <1>2, <1>3, <2>1
<1>4. CASE OctetOf(h) < OctetOf(g)
    <2>1. OctetBits * OctetOf(h) + OctetBits <= OctetBits * OctetOf(g)
        BY <1>1, <1>4, Product
    <2> QED BY <1>1, <1>2, <1>4, <2>1
<1>5. CASE OctetOf(g) = OctetOf(h)
    BY <1>1, <1>2, <1>5
<1> QED BY <1>1, <1>3, <1>4, <1>5

LEMMA AddressedIsRange ==
    ASSUME NEW first \in Group, NEW last \in Group, first <= last
    PROVE  Addressed(first, last) = first .. last
<1>1. ASSUME NEW g \in Group
      PROVE  g \in Addressed(first, last) <=> first <= g /\ g <= last
    <2>1. g \in Nat /\ first \in Nat /\ last \in Nat
        BY DEF Group
    <2>2. /\ first <= g <=> OctetOf(first) < OctetOf(g) \/ (OctetOf(first) = OctetOf(g) /\ BitOf(first) <= BitOf(g))
          /\ g <= last <=> OctetOf(g) < OctetOf(last) \/ (OctetOf(g) = OctetOf(last) /\ BitOf(g) <= BitOf(last))
          /\ OctetOf(first) < OctetOf(last) \/ (OctetOf(first) = OctetOf(last) /\ BitOf(first) <= BitOf(last))
        BY <2>1, OctetOrder
    <2>3. /\ OctetOf(g) \in Nat /\ OctetOf(first) \in Nat /\ OctetOf(last) \in Nat
          /\ BitOf(g) \in 0 .. OctetBits - 1 /\ BitOf(first) \in 0 .. OctetBits - 1
          /\ BitOf(last) \in 0 .. OctetBits - 1
        BY <2>1, DivMod DEF OctetOf, BitOf
    <2>4. g \in Addressed(first, last) <=>
             /\ OctetOf(first) <= OctetOf(g) /\ OctetOf(g) <= OctetOf(last)
             /\ BitOf(g) \in BitsOf(OctetOf(g), first, last)
        BY <2>3 DEF Addressed
    <2>5. CASE OctetOf(first) = OctetOf(last)
        BY <2>2, <2>3, <2>4, <2>5 DEF BitsOf
    <2>6. CASE OctetOf(first) # OctetOf(last) /\ OctetOf(g) = OctetOf(first)
        BY <2>2, <2>3, <2>4, <2>6 DEF BitsOf
    <2>7. CASE OctetOf(first) # OctetOf(last) /\ OctetOf(g) # OctetOf(first) /\ OctetOf(g) = OctetOf(last)
        BY <2>2, <2>3, <2>4, <2>7 DEF BitsOf
    <2>8. CASE OctetOf(first) # OctetOf(last) /\ OctetOf(g) # OctetOf(first) /\ OctetOf(g) # OctetOf(last)
        BY <2>2, <2>3, <2>4, <2>8 DEF BitsOf
    <2> QED BY <2>5, <2>6, <2>7, <2>8
<1>2. Addressed(first, last) \subseteq Group /\ first .. last \subseteq Group
    BY DEF Addressed, Group
<1>3. ASSUME NEW g \in Group
      PROVE  g \in first .. last <=> first <= g /\ g <= last
    BY DEF Group
<1> QED BY <1>1, <1>2, <1>3

-----------------------------------------------------------------------------
(* The security proxy *)

LEMMA RulesInForceFacts ==
    ASSUME ConfigInv, ProxyInv, NEW c \in Coupler
    PROVE  /\ RulesInForce(c) \subseteq Rule /\ IsConfigurable(RulesInForce(c))
           /\ RefreshSucceeds(c) => RulesInForce(c) = RulesMeant(c)
           /\ LeasesInForce(c) \in {leases[c], {}}
<1>1. IsConfigurable({})
    BY DEF IsConfigurable
<1>2. /\ proxyTable[c] \subseteq Rule /\ rules[c] \subseteq Rule /\ IsConfigurable(rules[c])
      /\ proxyActive[c] \in BOOLEAN
    BY DEF ConfigInv, ProxyInv
<1>3. LeasesInForce(c) \in {leases[c], {}}
    BY DEF LeasesInForce
<1> HIDE DEF IsConfigurable
<1>4. RulesInForce(c) \subseteq Rule /\ IsConfigurable(RulesInForce(c))
    BY <1>1, <1>2 DEF RulesInForce, RefreshSucceeds
<1>5. RefreshSucceeds(c) => RulesInForce(c) = RulesMeant(c)
    BY <1>2 DEF RulesInForce, RulesMeant
<1> QED BY <1>3, <1>4, <1>5

\* What a coupler makes of its rules and leases keeps the invariant.
LEMMA ProxyChanged ==
    ASSUME ConfigInv, ProxyInv, NEW c \in Coupler, NEW active \in BOOLEAN,
           NEW table \in SUBSET Rule, IsConfigurable(table),
           NEW routes \in SUBSET Lease, IsFiniteSet(routes), Cardinality(routes) <= MaxLease,
           proxyActive' = [proxyActive EXCEPT ![c] = active],
           rules' = [rules EXCEPT ![c] = table],
           leases' = [leases EXCEPT ![c] = routes]
    PROVE  ProxyInv'
<1>1. /\ proxyActive' \in [Coupler -> BOOLEAN] /\ rules' \in [Coupler -> SUBSET Rule]
      /\ leases' \in [Coupler -> SUBSET Lease]
    BY DEF ProxyInv
<1>2. ASSUME NEW d \in Coupler
      PROVE  /\ IsConfigurable(rules'[d])
             /\ IsFiniteSet(leases'[d]) /\ Cardinality(leases'[d]) <= MaxLease
    <2>1. CASE d = c
        <3>1. rules'[d] = table /\ leases'[d] = routes
            BY <2>1 DEF ProxyInv
        <3> QED BY <3>1
    <2>2. CASE d # c
        <3>1. rules'[d] = rules[d] /\ leases'[d] = leases[d]
            BY <2>2 DEF ProxyInv
        <3> QED BY <3>1 DEF ProxyInv
    <2> QED BY <2>1, <2>2
<1> QED BY <1>1, <1>2 DEF ProxyInv

LEMMA NoRoutes == {} \in SUBSET Lease /\ IsFiniteSet({}) /\ Cardinality({}) <= MaxLease
BY FS_EmptySet

LEMMA Refreshed ==
    ASSUME ConfigInv, ProxyInv, NEW c \in Coupler, RefreshSecureProxy(c)
    PROVE  ProxyInv'
<1>1. /\ RulesInForce(c) \in SUBSET Rule /\ IsConfigurable(RulesInForce(c))
      /\ LeasesInForce(c) \in {leases[c], {}}
    BY RulesInForceFacts
<1>2. /\ leases[c] \in SUBSET Lease /\ IsFiniteSet(leases[c]) /\ Cardinality(leases[c]) <= MaxLease
    BY DEF ProxyInv
<1>3. /\ LeasesInForce(c) \in SUBSET Lease /\ IsFiniteSet(LeasesInForce(c))
      /\ Cardinality(LeasesInForce(c)) <= MaxLease
    BY <1>1, <1>2, NoRoutes
<1>4. (proxyTable[c] # {}) \in BOOLEAN
    OBVIOUS
<1>5. /\ proxyActive' = [proxyActive EXCEPT ![c] = proxyTable[c] # {}]
      /\ rules' = [rules EXCEPT ![c] = RulesInForce(c)]
      /\ leases' = [leases EXCEPT ![c] = LeasesInForce(c)]
    BY DEF RefreshSecureProxy
<1> QED BY <1>1, <1>3, <1>4, <1>5, ProxyChanged

LEMMA ProxyUnchanged == ProxyInv /\ UNCHANGED proxy => ProxyInv'
BY DEF ProxyInv, proxy

-----------------------------------------------------------------------------
(* Telegrams *)

\* t is u after some couplers have heard it.
Fades(t, u) == t = [u EXCEPT !.unheard = t.unheard] /\ t.unheard \subseteq u.unheard

LEMMA FadedTelegram ==
    ASSUME NEW t, NEW u, Fades(t, u), IsTelegram(u)
    PROVE  /\ IsTelegram(t)
           /\ t.number = u.number /\ t.line = u.line /\ t.kind = u.kind /\ t.to = u.to
           /\ t.via = u.via /\ t.source = u.source
BY DEF Fades, IsTelegram

LEMMA HeardFades ==
    ASSUME TrafficInv, NEW c \in Coupler, NEW t \in air, NEW u \in Heard(c, t)
    PROVE  \E v \in air : Fades(u, v)
<1>1. CASE u \in air
    <2>1. IsTelegram(u)
        BY <1>1 DEF TrafficInv
    <2>2. Fades(u, u)
        BY <2>1 DEF Fades, IsTelegram
    <2> QED BY <1>1, <2>2
<1>2. CASE u \notin air
    <2>1. u = [t EXCEPT !.unheard = @ \ {c}]
        BY <1>2 DEF Heard
    <2>2. IsTelegram(t)
        BY DEF TrafficInv
    <2>3. Fades(u, t)
        BY <2>1, <2>2 DEF Fades, IsTelegram
    <2> QED BY <2>3
<1> QED BY <1>1, <1>2

\* A coupler is forgotten by all telegrams.
WithoutHearer(c) == {[t EXCEPT !.unheard = @ \ {c}] : t \in air}

LEMMA WithoutFades ==
    ASSUME TrafficInv, NEW c \in Coupler, NEW u \in WithoutHearer(c)
    PROVE  \E v \in air : Fades(u, v)
<1>1. PICK t \in air : u = [t EXCEPT !.unheard = @ \ {c}]
    BY DEF WithoutHearer
<1>2. IsTelegram(t)
    BY DEF TrafficInv
<1>3. Fades(u, t)
    BY <1>1, <1>2 DEF Fades, IsTelegram
<1> QED BY <1>3

LEMMA TelegramFields ==
    ASSUME NEW n, NEW via, NEW line, NEW kind \in Kind, NEW source, NEW to, NEW hop \in 0 .. Unlimited,
           NEW form
    PROVE  LET t == Telegram(n, via, line, kind, source, to, hop, form) IN
           /\ IsTelegram(t) /\ t.number = n /\ t.via = via /\ t.line = line /\ t.kind = kind
           /\ t.source = source /\ t.to = to /\ t.hop = hop /\ t.form = form
BY DEF Telegram, IsTelegram

\* What a coupler sends on is the telegram it has heard.
LEMMA PassedFields ==
    ASSUME TrafficInv, NEW c \in Coupler, NEW t \in air, NEW i \in Side, MayPass(c, t, i), NEW f
    PROVE  LET u == Passed(c, t, i, f) IN
           /\ IsTelegram(u)
           /\ u.number = t.number /\ u.kind = t.kind /\ u.to = t.to /\ u.form = f /\ u.via = c
           /\ u.line = LineAt(c, Other(i))
<1>1. t.kind \in Kind /\ t.hop \in 0 .. Unlimited
    BY DEF TrafficInv, IsTelegram
<1>2. HopAfter(c, t, i) \in 0 .. Unlimited
    BY <1>1 DEF HopAfter, MayPass, Unlimited
<1> QED BY <1>1, <1>2, TelegramFields DEF Passed

\* One telegram is passed on, or none.
LEMMA OnePasses ==
    ASSUME NEW c \in Coupler, NEW t \in air, NEW i \in Side, NEW new \in Passing(c, t, i),
           NEW u \in new
    PROVE  /\ MayPass(c, t, i)
           /\ \E f : /\ new = {Passed(c, t, i, f)} /\ u = Passed(c, t, i, f)
                     /\ t.kind = "group" /\ IsRuled(c, t.to[1]) => f \in Translated(c, t, i)
<1>1. CASE ~MayPass(c, t, i)
    BY <1>1 DEF Passing
<1>2. CASE MayPass(c, t, i) /\ t.kind = "group" /\ IsRuled(c, t.to[1])
    BY <1>2 DEF Passing
<1>3. CASE MayPass(c, t, i) /\ ~(t.kind = "group" /\ IsRuled(c, t.to[1]))
    BY <1>3 DEF Passing
<1> QED BY <1>1, <1>2, <1>3

LEMMA PutKeeps ==
    ASSUME TrafficInv, NEW c \in Coupler, NEW t \in air, NEW i \in Side,
           NEW new, new \in Passing(c, t, i) \/ new = {}, Put(c, t, new),
           UNCHANGED <<installation, sent>>
    PROVE  /\ TrafficInv'
           /\ \A n \in 1 .. MaxSend :
                 reached'[n] = reached[n] \cup {u.line : u \in {v \in new : v.number = n}}
<1>1. /\ DOMAIN reached = 1 .. MaxSend /\ original' = original
      /\ reached' = [n \in DOMAIN reached |->
                        reached[n] \cup {u.line : u \in {v \in new : v.number = n}}]
    BY DEF Put, TrafficInv
<1>2. \A n \in 1 .. MaxSend :
          reached'[n] = reached[n] \cup {u.line : u \in {v \in new : v.number = n}}
    BY <1>1
<1>3. reached' = [n \in 1 .. MaxSend |-> reached'[n]]
    BY <1>1
<1>4. sent' = sent /\ sent \in 0 .. MaxSend
    BY DEF TrafficInv
<1>5. ASSUME NEW u \in air'
      PROVE  IsTelegram(u) /\ Follows(u)'
    <2>1. CASE u \in new
        <3>1. PICK f : MayPass(c, t, i) /\ u = Passed(c, t, i, f)
            BY <2>1, OnePasses
        <3>2. /\ IsTelegram(u) /\ u.number = t.number /\ u.kind = t.kind /\ u.to = t.to
            BY <3>1, PassedFields
        <3>3. Follows(t)
            BY DEF TrafficInv
        <3>4. u.number \in 1 .. MaxSend => u.line \in reached'[u.number]
            BY <1>2, <2>1
        <3> QED BY <1>1, <1>4, <3>2, <3>3, <3>4 DEF Follows
    <2>2. CASE u \notin new
        <3>1. u \in Heard(c, t)
            BY <2>2 DEF Put
        <3>2. PICK v \in air : Fades(u, v)
            BY <3>1, HeardFades
        <3>3. IsTelegram(v) /\ Follows(v)
            BY DEF TrafficInv
        <3>4. /\ IsTelegram(u) /\ u.number = v.number /\ u.kind = v.kind /\ u.to = v.to
              /\ u.line = v.line
            BY <3>2, <3>3, FadedTelegram
        <3> QED BY <1>1, <1>2, <1>4, <3>3, <3>4 DEF Follows
    <2> QED BY <2>1, <2>2
<1>6. \A n \in 1 .. MaxSend : original'[n].kind = "none" \/ original'[n].line \in DOMAIN installation'.device
    BY <1>1 DEF TrafficInv
<1>7. original' = [n \in 1 .. MaxSend |-> original'[n]]
    BY <1>1 DEF TrafficInv
<1> QED BY <1>2, <1>3, <1>4, <1>5, <1>6, <1>7 DEF TrafficInv

\* Telegrams that only fade, and telegrams of a coupler's own
LEMMA OwnTelegrams ==
    ASSUME TrafficInv, UNCHANGED <<installation, sent, original, reached>>,
           \A u \in air' : \/ \E v \in air : Fades(u, v)
                           \/ IsTelegram(u) /\ u.number = 0
    PROVE  TrafficInv'
<1>1. ASSUME NEW u \in air'
      PROVE  IsTelegram(u) /\ Follows(u)'
    <2>1. CASE IsTelegram(u) /\ u.number = 0
        BY <2>1 DEF Follows
    <2>2. ASSUME NEW v \in air, Fades(u, v)
          PROVE  IsTelegram(u) /\ Follows(u)'
        <3>1. IsTelegram(v) /\ Follows(v)
            BY DEF TrafficInv
        <3>2. /\ IsTelegram(u) /\ u.number = v.number /\ u.kind = v.kind /\ u.to = v.to
              /\ u.line = v.line
            BY <2>2, <3>1, FadedTelegram
        <3> QED BY <3>1, <3>2 DEF Follows
    <2> QED BY <2>1, <2>2
<1> QED BY <1>1 DEF TrafficInv

LEMMA TrafficUnchanged == TrafficInv /\ UNCHANGED <<traffic, installation>> => TrafficInv'
<1> SUFFICES ASSUME TrafficInv, UNCHANGED <<traffic, installation>> PROVE TrafficInv'
    OBVIOUS
<1>1. UNCHANGED <<air, sent, original, reached>>
    BY DEF traffic
<1>2. \A t \in air : Follows(t) => Follows(t)'
    BY <1>1 DEF Follows
<1> QED BY <1>1, <1>2 DEF TrafficInv

-----------------------------------------------------------------------------
(* The way of an individually addressed telegram *)

\* A coupler whose address ends in 0 has the type that its address says.
LEMMA TypeAsBuilt ==
    ASSUME ConfigInv, AsBuilt, edits = 0, NEW c \in Coupler
    PROVE  /\ address[c] = installation.address[c] /\ address[c][3] = 0
           /\ TypeWhenRouting(c) = (IF address[c][2] = 0 THEN "backbone" ELSE "line")
<1>1. address[c] = installation.address[c] /\ address[c][3] = 0
    BY InstallationAssumption DEF ConfigInv, AsBuilt
<1>2. address[c] = DefaultAddress => address[c][2] = 15 /\ couplerType[c] = "line"
    BY DEF AsBuilt, DefaultAddress
<1> QED BY <1>1, <1>2 DEF TypeWhenRouting, EvaluateCouplerType

LEMMA BelowAsBuilt ==
    ASSUME ConfigInv, AsBuilt, edits = 0, NEW c \in Coupler, NEW a
    PROVE  IsBelow(c, TypeWhenRouting(c), a) <=> BelowInRow(installation, c, a)
BY TypeAsBuilt DEF IsBelow, BelowInRow

\* The lines of a network without a ring have a position each.
LEMMA Positions ==
    ASSUME ConfigInv, ~installation.ring
    PROVE  \E length \in Nat :
              /\ DOMAIN installation.order = 1 .. length
              /\ \A n \in 1 .. length : Position(installation.order[n]) = n
              /\ \A l \in DOMAIN installation.device :
                    Position(l) \in 1 .. length /\ installation.order[Position(l)] = l
              /\ \A c \in Coupler : \E n \in 1 .. length - 1 :
                    /\ LineAt(c, 1) = installation.order[n] /\ LineAt(c, 2) = installation.order[n + 1]
                    /\ \A l \in DOMAIN installation.device :
                          BelowInRow(installation, c, installation.device[l]) <=> Position(l) > n
<1>1. installation \in {v \in Installations : ~v.ring}
    BY DEF ConfigInv
<1>2. PICK length \in Nat :
        /\ DOMAIN installation.order = 1 .. length
        /\ \A m, n \in 1 .. length : installation.order[m] = installation.order[n] => m = n
        /\ \A l \in DOMAIN installation.device : \E n \in 1 .. length : installation.order[n] = l
        /\ \A c \in Coupler : \E n \in 1 .. length - 1 :
              /\ installation.line[c][1] = installation.order[n]
              /\ installation.line[c][2] = installation.order[n + 1]
              /\ \A m \in 1 .. length : installation.order[m] \in DOMAIN installation.device =>
                    (BelowInRow(installation, c, installation.device[installation.order[m]]) <=> m > n)
    <2>1. Len(installation.order) \in Nat /\ DOMAIN installation.order = 1 .. Len(installation.order)
        BY <1>1, RowAssumption
    <2> QED BY <1>1, <2>1, RowAssumption
<1>3. ASSUME NEW n \in 1 .. length
      PROVE  Position(installation.order[n]) = n
    <2>1. /\ Position(installation.order[n]) \in 1 .. length
          /\ installation.order[Position(installation.order[n])] = installation.order[n]
        BY <1>2 DEF Position
    <2> QED BY <1>2, <2>1
<1>4. ASSUME NEW l \in DOMAIN installation.device
      PROVE  Position(l) \in 1 .. length /\ installation.order[Position(l)] = l
    BY <1>2, <1>3
<1>5. ASSUME NEW c \in Coupler
      PROVE  \E n \in 1 .. length - 1 :
                /\ LineAt(c, 1) = installation.order[n] /\ LineAt(c, 2) = installation.order[n + 1]
                /\ \A l \in DOMAIN installation.device :
                      BelowInRow(installation, c, installation.device[l]) <=> Position(l) > n
    <2>1. PICK n \in 1 .. length - 1 :
              /\ installation.line[c][1] = installation.order[n]
              /\ installation.line[c][2] = installation.order[n + 1]
              /\ \A m \in 1 .. length : installation.order[m] \in DOMAIN installation.device =>
                    (BelowInRow(installation, c, installation.device[installation.order[m]]) <=> m > n)
        BY <1>2
    <2>2. \A l \in DOMAIN installation.device :
              BelowInRow(installation, c, installation.device[l]) <=> Position(l) > n
        BY <1>4, <2>1
    <2> QED BY <2>1, <2>2 DEF LineAt
<1> QED BY <1>2, <1>3, <1>4, <1>5

LEMMA DestinationLine ==
    ASSUME ConfigInv, NEW a \in Devices
    PROVE  LineOfStation(a) \in DOMAIN installation.device /\ installation.device[LineOfStation(a)] = a
BY InstallationAssumption DEF ConfigInv, Devices, LineOfStation

\* A coupler that routes puts a telegram on the line that is one nearer to its destination.
LEMMA RightWay ==
    ASSUME ConfigInv, AsBuilt, edits = 0, ~installation.ring,
           NEW c \in Coupler, NEW i \in Side, NEW k \in DOMAIN installation.device, NEW a \in Devices,
           Between(LineAt(c, i), k, LineOfStation(a)),
           IsRoutedIndividualAddress(c, a, i)
    PROVE  Between(LineAt(c, Other(i)), k, LineOfStation(a))
<1> DEFINE m == LineOfStation(a)
<1>1. m \in DOMAIN installation.device /\ installation.device[m] = a
    BY DestinationLine
<1>2. PICK length \in Nat :
        /\ \A n \in 1 .. length : Position(installation.order[n]) = n
        /\ \A l \in DOMAIN installation.device : Position(l) \in 1 .. length
        /\ \A d \in Coupler : \E n \in 1 .. length - 1 :
              /\ LineAt(d, 1) = installation.order[n] /\ LineAt(d, 2) = installation.order[n + 1]
              /\ \A l \in DOMAIN installation.device :
                    BelowInRow(installation, d, installation.device[l]) <=> Position(l) > n
    BY Positions
<1>3. PICK n \in 1 .. length - 1 :
        /\ LineAt(c, 1) = installation.order[n] /\ LineAt(c, 2) = installation.order[n + 1]
        /\ \A l \in DOMAIN installation.device :
              BelowInRow(installation, c, installation.device[l]) <=> Position(l) > n
    BY <1>2
<1>4. n \in 1 .. length /\ n + 1 \in 1 .. length
    OBVIOUS
<1>5. Position(LineAt(c, 1)) = n /\ Position(LineAt(c, 2)) = n + 1
    BY <1>2, <1>3, <1>4
<1>6. Position(k) \in Nat /\ Position(m) \in Nat
    BY <1>1, <1>2
<1>7. IsBelow(c, TypeWhenRouting(c), a) <=> Position(m) > n
    BY <1>1, <1>3, BelowAsBuilt
<1> HIDE DEF m
<1>8. CASE i = 1
    <2>1. Position(m) > n
        BY <1>7, <1>8 DEF IsRoutedIndividualAddress
    <2> QED BY <1>4, <1>5, <1>6, <1>8, <2>1 DEF Between, Other, m
<1>9. CASE i = 2
    <2>1. ~(Position(m) > n)
        BY <1>7, <1>9 DEF IsRoutedIndividualAddress
    <2> QED BY <1>4, <1>5, <1>6, <1>9, <2>1 DEF Between, Other, m
<1> QED BY <1>8, <1>9 DEF Side

LEMMA PathNames ==
    /\ Devices = Homes(installation)
    /\ \A a : LineOfStation(a) = Home(installation, a)
    /\ \A l, k, m : Between(l, k, m) <=> Within(installation, l, k, m)
<1>1. Devices = Homes(installation)
    BY DEF Devices, Homes
<1>2. \A a : LineOfStation(a) = Home(installation, a)
    BY DEF LineOfStation, Home
<1>3. \A l : Position(l) = Place(installation, l)
    BY DEF Position, Place
<1>4. \A l, k, m : Between(l, k, m) <=> Within(installation, l, k, m)
    BY <1>3 DEF Between, Within
<1> QED BY <1>1, <1>2, <1>4

\* Where telegrams have been changes only by what couplers send.
LEMMA PathKept ==
    ASSUME UNCHANGED installation, OnPath,
           edits' = 0 => edits = 0 /\ UNCHANGED <<settings, original, reached>>
    PROVE  OnPath'
BY DEF OnPath

LEMMA PutKeepsPath ==
    ASSUME CouplerInv, NEW c \in Coupler, NEW t \in air, NEW i \in Side, Hears(c, t, i),
           NEW new, new \in Passing(c, t, i) \/ new = {}, Put(c, t, new),
           UNCHANGED <<installation, settings, sent, edits>>,
           edits = 0 /\ Routes(settings) /\ t.kind = "individual" /\ new # {} =>
               IsRoutedIndividualAddress(c, t.to, i)
    PROVE  OnPath'
<1>1. original' = original
    BY DEF Put
<1>2. \A n \in 1 .. MaxSend :
          reached'[n] = reached[n] \cup {u.line : u \in {v \in new : v.number = n}}
    BY PutKeeps DEF CouplerInv
<1>3. SUFFICES ASSUME edits = 0, ~installation.ring, Routes(settings),
                      NEW n \in 1 .. MaxSend, original[n].kind = "individual",
                      original[n].to \in Homes(installation),
                      NEW l \in reached'[n]
               PROVE  Within(installation, l, original[n].line, Home(installation, original[n].to))
    BY <1>1 DEF OnPath
<1>4. CASE l \in reached[n]
    BY <1>3, <1>4 DEF OnPath, CouplerInv
<1>5. CASE l \notin reached[n]
    <2>1. PICK u \in new : u.number = n /\ u.line = l
        BY <1>2, <1>5
    <2>2. PICK f : MayPass(c, t, i) /\ u = Passed(c, t, i, f)
        BY <2>1, OnePasses
    <2>3. u.number = t.number /\ u.kind = t.kind /\ u.to = t.to /\ u.line = LineAt(c, Other(i))
        BY <2>2, PassedFields DEF CouplerInv
    <2>4. Follows(t)
        BY DEF CouplerInv, TrafficInv
    <2>5. original[n].kind = t.kind /\ original[n].to = t.to /\ t.line \in reached[n]
        BY <2>1, <2>3, <2>4 DEF Follows
    <2>6. IsRoutedIndividualAddress(c, t.to, i)
        BY <1>3, <2>1, <2>5
    <2>7. original[n].line \in DOMAIN installation.device
        BY <1>3 DEF CouplerInv, TrafficInv
    <2>8. Within(installation, LineAt(c, i), original[n].line, Home(installation, t.to))
        BY <1>3, <2>5 DEF OnPath, CouplerInv, Hears
    <2>9. Between(LineAt(c, i), original[n].line, LineOfStation(t.to)) /\ t.to \in Devices
        BY <1>3, <2>5, <2>8, PathNames
    <2>10. ConfigInv /\ AsBuilt
        BY DEF CouplerInv
    <2>11. Between(LineAt(c, Other(i)), original[n].line, LineOfStation(t.to))
        BY <1>3, <2>6, <2>7, <2>9, <2>10, RightWay
    <2> QED BY <2>1, <2>3, <2>5, <2>11, PathNames
<1> QED BY <1>4, <1>5

-----------------------------------------------------------------------------
(* The steps *)

LEMMA TypeRange ==
    ASSUME ConfigInv, NEW c \in Coupler
    PROVE  /\ TypeWhenRouting(c) \in {"line", "backbone"}
           /\ address[c] = DefaultAddress => TypeWhenRouting(c) = couplerType[c]
BY DEF TypeWhenRouting, EvaluateCouplerType, ConfigInv

\* Hearing a telegram, a coupler evaluates its type at most.
LEMMA TypeEvaluated ==
    ASSUME ConfigInv, AsBuilt, NEW c \in Coupler, UNCHANGED <<config, edits>>,
           \/ couplerType' = couplerType
           \/ couplerType' = [couplerType EXCEPT ![c] = TypeWhenRouting(c)]
    PROVE  ConfigInv' /\ AsBuilt'
<1>1. couplerType' \in [Coupler -> {"line", "backbone"}]
    BY TypeRange DEF ConfigInv
<1>2. UNCHANGED <<installation, address, settings, load, filter, proxyTable, meant>>
    BY DEF config
<1>3. ConfigInv'
    BY <1>1, <1>2 DEF ConfigInv
<1>4. ASSUME NEW d \in Coupler, edits = 0, address[d] = DefaultAddress
      PROVE  couplerType'[d] = "line"
    <2>1. couplerType[d] = "line"
        BY <1>4 DEF AsBuilt
    <2>2. couplerType'[d] = couplerType[d]
        BY <1>4, TypeRange DEF ConfigInv
    <2> QED BY <2>1, <2>2
<1>5. AsBuilt'
    BY <1>2, <1>4 DEF AsBuilt
<1> QED BY <1>3, <1>5

\* A telegram is heard: passed on, or not.
LEMMA HeardKeeps ==
    ASSUME CouplerInv, NEW c \in Coupler, NEW t \in air, NEW i \in Side, Hears(c, t, i),
           UNCHANGED <<config, sent, edits>>,
           \/ couplerType' = couplerType
           \/ couplerType' = [couplerType EXCEPT ![c] = TypeWhenRouting(c)],
           \/ Ignore(c, t)
           \/ /\ SendMsgHopCount(c, t, i)
              /\ edits = 0 /\ Routes(settings) /\ t.kind = "individual" =>
                     IsRoutedIndividualAddress(c, t.to, i)
    PROVE  CouplerInv'
<1>1. ConfigInv' /\ AsBuilt'
    BY TypeEvaluated DEF CouplerInv
<1>2. ConfigInv /\ ProxyInv /\ TrafficInv
    BY DEF CouplerInv
<1>3. UNCHANGED <<installation, settings>>
    BY DEF config
<1>4. CASE Ignore(c, t)
    <2>1. ProxyInv'
        BY <1>2, <1>4, ProxyUnchanged DEF Ignore
    <2>2. TrafficInv' /\ OnPath'
        BY <1>2, <1>3, <1>4, PutKeeps, PutKeepsPath DEF Ignore
    <2> QED BY <1>1, <2>1, <2>2 DEF CouplerInv
<1>5. CASE /\ SendMsgHopCount(c, t, i)
           /\ edits = 0 /\ Routes(settings) /\ t.kind = "individual" =>
                  IsRoutedIndividualAddress(c, t.to, i)
    <2>1. ProxyInv'
        BY <1>2, <1>5, Refreshed DEF SendMsgHopCount
    <2>2. PICK new \in Passing(c, t, i) : Put(c, t, new)
        BY <1>5 DEF SendMsgHopCount
    <2>3. TrafficInv' /\ OnPath'
        BY <1>2, <1>3, <1>5, <2>2, PutKeeps, PutKeepsPath
    <2> QED BY <1>1, <2>1, <2>3 DEF CouplerInv
<1> QED BY <1>4, <1>5

LEMMA HearKeeps ==
    ASSUME CouplerInv, NEW c \in Coupler, Hear(c)
    PROVE  CouplerInv'
<1>1. PICK t \in air, i \in Side : HearIndividual(c, t, i) \/ HearGroup(c, t, i) \/ HearBroadcast(c, t, i)
    BY DEF Hear
<1>2. CASE HearIndividual(c, t, i)
    <2>1. /\ Hears(c, t, i) /\ t.kind = "individual" /\ UNCHANGED <<config, sent, edits>>
        BY <1>2 DEF HearIndividual
    <2>2. \/ couplerType' = couplerType
          \/ couplerType' = [couplerType EXCEPT ![c] = TypeWhenRouting(c)]
        BY <1>2 DEF HearIndividual, IsAckRequired
    <2>3. Routes(settings) => settings[c][i].phys = "route"
        BY DEF Routes
    <2>4. \/ Ignore(c, t)
          \/ /\ SendMsgHopCount(c, t, i)
             /\ edits = 0 /\ Routes(settings) =>
                    IsRoutedIndividualAddress(c, t.to, i)
        BY <1>2, <2>3 DEF HearIndividual
    <2> QED BY <2>1, <2>2, <2>4, HeardKeeps
<1>3. CASE HearGroup(c, t, i)
    BY <1>3, HeardKeeps DEF HearGroup
<1>4. CASE HearBroadcast(c, t, i)
    <2>1. t.kind # "individual" /\ Hears(c, t, i) /\ UNCHANGED <<config, couplerType, sent, edits>>
        BY <1>4 DEF HearBroadcast
    <2>2. Ignore(c, t) \/ SendMsgHopCount(c, t, i)
        BY <1>4 DEF HearBroadcast
    <2> QED BY <2>1, <2>2, HeardKeeps
<1> QED BY <1>1, <1>2, <1>3, <1>4

\* Steps that leave the configuration, the types and the number of changes alone
LEMMA ConfigUnchanged ==
    ASSUME ConfigInv, AsBuilt, UNCHANGED <<config, couplerType, edits>>
    PROVE  ConfigInv' /\ AsBuilt'
BY DEF ConfigInv, AsBuilt, config

LEMMA SendKeeps ==
    ASSUME CouplerInv, Send
    PROVE  CouplerInv'
<1>0. PICK kind \in Kind : \E to, form : Originate(kind, to, form)
    BY DEF Send, Kind
<1>1. PICK to, form : Originate(kind, to, form)
    BY <1>0
<1>2. /\ sent < MaxSend /\ sent' = sent + 1
      /\ UNCHANGED <<config, couplerType, proxy, edits>>
    BY <1>1 DEF Originate
<1>3. UNCHANGED <<installation, settings>>
    BY <1>2 DEF config
<1>4. PICK line \in DOMAIN installation.device, hop \in Hops :
        LET t == Telegram(sent + 1, "device", line, kind, installation.device[line], to, hop, form) IN
        /\ air' = air \cup {t}
        /\ original' = [original EXCEPT ![sent + 1] = t]
        /\ reached' = [reached EXCEPT ![sent + 1] = {line}]
    BY <1>1 DEF Originate
<1> DEFINE t == Telegram(sent + 1, "device", line, kind, installation.device[line], to, hop, form)
<1>5. IsTelegram(t) /\ t.number = sent + 1 /\ t.line = line /\ t.kind = kind /\ t.to = to
    BY TelegramFields
<1>6. air' = air \cup {t} /\ original' = [original EXCEPT ![sent + 1] = t]
      /\ reached' = [reached EXCEPT ![sent + 1] = {line}]
    BY <1>4
<1> HIDE DEF t
<1>7. TrafficInv
    BY DEF CouplerInv
<1>8. /\ sent + 1 \in 1 .. MaxSend /\ sent' \in 0 .. MaxSend /\ sent \in Nat
      /\ original = [n \in 1 .. MaxSend |-> original[n]] /\ reached = [n \in 1 .. MaxSend |-> reached[n]]
    BY <1>2, <1>7 DEF TrafficInv
<1>9. /\ original'[sent + 1] = t /\ reached'[sent + 1] = {line}
      /\ \A n \in 1 .. MaxSend : n # sent + 1 => original'[n] = original[n] /\ reached'[n] = reached[n]
      /\ original' = [n \in 1 .. MaxSend |-> original'[n]] /\ reached' = [n \in 1 .. MaxSend |-> reached'[n]]
    BY <1>6, <1>8
<1>10. ASSUME NEW u \in air'
       PROVE  IsTelegram(u) /\ Follows(u)'
    <2>1. CASE u = t
        BY <1>2, <1>5, <1>8, <1>9, <2>1 DEF Follows
    <2>2. CASE u \in air
        <3>1. IsTelegram(u) /\ Follows(u)
            BY <1>7, <2>2 DEF TrafficInv
        <3>2. u.number # 0 => u.number \in 1 .. sent /\ u.number # sent + 1 /\ u.number \in 1 .. MaxSend
            BY <1>8, <3>1 DEF Follows
        <3> QED BY <1>2, <1>8, <1>9, <3>1, <3>2 DEF Follows
    <2> QED BY <1>6, <2>1, <2>2
<1>11. ASSUME NEW n \in 1 .. MaxSend
       PROVE  original'[n].kind = "none" \/ original'[n].line \in DOMAIN installation.device
    BY <1>5, <1>7, <1>9 DEF TrafficInv
<1>12. TrafficInv'
    BY <1>3, <1>8, <1>9, <1>10, <1>11 DEF TrafficInv
<1>13. ConfigInv' /\ ProxyInv' /\ AsBuilt'
    BY <1>2, ConfigUnchanged, ProxyUnchanged DEF CouplerInv
<1>14. ASSUME edits = 0, ~installation.ring, Routes(settings),
              NEW n \in 1 .. MaxSend, original'[n].kind = "individual",
              original'[n].to \in Homes(installation), NEW l \in reached'[n]
       PROVE  Within(installation, l, original'[n].line, Home(installation, original'[n].to))
    <2>1. CASE n = sent + 1
        <3>1. l = line /\ original'[n].line = line
            BY <1>5, <1>9, <2>1
        <3>2. original'[n].to \in Devices
            BY <1>14, PathNames
        <3>3. ConfigInv
            BY DEF CouplerInv
        <3>4. Home(installation, original'[n].to) \in DOMAIN installation.device
            BY <3>2, <3>3, DestinationLine, PathNames
        <3>5. \A k \in DOMAIN installation.device : Position(k) \in Nat
            BY <1>14, <3>3, Positions
        <3>6. /\ Place(installation, line) \in Nat
              /\ Place(installation, Home(installation, original'[n].to)) \in Nat
            BY <3>4, <3>5 DEF Position, Place
        <3> QED BY <3>1, <3>6 DEF Within
    <2>2. CASE n # sent + 1
        BY <1>9, <1>14, <2>2 DEF OnPath, CouplerInv
    <2> QED BY <2>1, <2>2
<1>15. OnPath'
    BY <1>2, <1>3, <1>14 DEF OnPath
<1> QED BY <1>12, <1>13, <1>15 DEF CouplerInv

LEMMA AnswerKeeps ==
    ASSUME CouplerInv, NEW c \in Coupler, Answer(c)
    PROVE  CouplerInv'
<1>1. /\ UNCHANGED <<config, couplerType, proxy, edits>>
      /\ UNCHANGED <<sent, original, reached>>
    BY DEF Answer
<1>2. UNCHANGED <<installation, settings>>
    BY <1>1 DEF config
<1>3. PICK r \in asked[c] :
        air' = air \cup
            {u \in {Telegram(0, c, LineAt(c, AnswerSide(c, r.source)), "individual", address[c],
                             r.source, DefaultHop, "plain")} : u.unheard # {}}
    BY DEF Answer
<1>4. ASSUME NEW u \in air'
      PROVE  (\E v \in air : Fades(u, v)) \/ (IsTelegram(u) /\ u.number = 0)
    <2>1. CASE u \in air
        <3>1. IsTelegram(u)
            BY <2>1 DEF CouplerInv, TrafficInv
        <3>2. Fades(u, u)
            BY <3>1 DEF Fades, IsTelegram
        <3> QED BY <2>1, <3>2
    <2>2. CASE u \notin air
        <3>1. u = Telegram(0, c, LineAt(c, AnswerSide(c, r.source)), "individual", address[c],
                           r.source, DefaultHop, "plain")
            BY <1>3, <2>2
        <3> QED BY <3>1, TelegramFields DEF Kind
    <2> QED BY <2>1, <2>2
<1>5. TrafficInv'
    BY <1>1, <1>2, <1>4, OwnTelegrams DEF CouplerInv
<1>6. ConfigInv' /\ ProxyInv' /\ AsBuilt'
    BY <1>1, ConfigUnchanged, ProxyUnchanged DEF CouplerInv
<1>7. OnPath'
    BY <1>1, <1>2, PathKept DEF CouplerInv
<1> QED BY <1>5, <1>6, <1>7 DEF CouplerInv

\* Routes that expire, and routes, rules and tables that come from outside
LEMMA RouteAdded ==
    ASSUME ProxyInv, NEW c \in Coupler, NEW l \in Lease, Cardinality(leases[c]) < MaxLease
    PROVE  /\ leases[c] \cup {l} \in SUBSET Lease /\ IsFiniteSet(leases[c] \cup {l})
           /\ Cardinality(leases[c] \cup {l}) <= MaxLease
<1>1. leases[c] \in SUBSET Lease /\ IsFiniteSet(leases[c])
    BY DEF ProxyInv
<1>2. /\ IsFiniteSet(leases[c] \cup {l}) /\ Cardinality(leases[c]) \in Nat
      /\ \/ Cardinality(leases[c] \cup {l}) = Cardinality(leases[c])
         \/ Cardinality(leases[c] \cup {l}) = Cardinality(leases[c]) + 1
    BY <1>1, FS_AddElement, FS_CardinalityType
<1> QED BY <1>1, <1>2

LEMMA RouteRemoved ==
    ASSUME ProxyInv, NEW c \in Coupler, NEW l \in leases[c]
    PROVE  /\ leases[c] \ {l} \in SUBSET Lease /\ IsFiniteSet(leases[c] \ {l})
           /\ Cardinality(leases[c] \ {l}) <= MaxLease
<1>1. leases[c] \in SUBSET Lease /\ IsFiniteSet(leases[c]) /\ Cardinality(leases[c]) <= MaxLease
    BY DEF ProxyInv
<1>2. /\ IsFiniteSet(leases[c] \ {l}) /\ Cardinality(leases[c]) \in Nat
      /\ Cardinality(leases[c] \ {l}) = Cardinality(leases[c]) - 1
    BY <1>1, FS_RemoveElement, FS_CardinalityType
<1> QED BY <1>1, <1>2

\* The table, the rules or the routes of c change, nothing else of the proxy.
LEMMA RoutesChanged ==
    ASSUME ConfigInv, ProxyInv, NEW c \in Coupler,
           NEW routes \in SUBSET Lease, IsFiniteSet(routes), Cardinality(routes) <= MaxLease,
           UNCHANGED <<proxyActive, rules>>, leases' = [leases EXCEPT ![c] = routes]
    PROVE  ProxyInv'
<1>1. /\ proxyActive[c] \in BOOLEAN /\ rules[c] \in SUBSET Rule /\ IsConfigurable(rules[c])
      /\ proxyActive' = [proxyActive EXCEPT ![c] = proxyActive[c]]
      /\ rules' = [rules EXCEPT ![c] = rules[c]]
    BY DEF ProxyInv
<1> QED BY <1>1, ProxyChanged

LEMMA ExpireKeeps ==
    ASSUME CouplerInv, NEW c \in Coupler, Expire(c)
    PROVE  CouplerInv'
<1>1. UNCHANGED <<config, couplerType, proxyActive, rules, traffic, edits>>
    BY DEF Expire
<1>2. UNCHANGED <<installation, settings, original, reached>>
    BY <1>1 DEF config, traffic
<1>3. PICK l \in leases[c] : leases' = [leases EXCEPT ![c] = @ \ {l}]
    BY DEF Expire
<1>4. leases' = [leases EXCEPT ![c] = leases[c] \ {l}]
    BY <1>3 DEF CouplerInv, ProxyInv
<1>5. ProxyInv'
    BY <1>1, <1>4, RouteRemoved, RoutesChanged DEF CouplerInv
<1>6. ConfigInv' /\ AsBuilt'
    BY <1>1, ConfigUnchanged DEF CouplerInv
<1>7. TrafficInv' /\ OnPath'
    BY <1>1, <1>2, TrafficUnchanged, PathKept DEF CouplerInv
<1> QED BY <1>5, <1>6, <1>7 DEF CouplerInv

\* After a change, what was as built does not matter.
LEMMA Edited ==
    ASSUME CouplerInv, Edit, ConfigInv', ProxyInv', TrafficInv'
    PROVE  CouplerInv'
<1>1. edits' # 0
    BY DEF Edit, CouplerInv, ConfigInv
<1>2. AsBuilt' /\ OnPath'
    BY <1>1 DEF AsBuilt, OnPath
<1> QED BY <1>2 DEF CouplerInv

LEMMA EditedSettings ==
    ASSUME CouplerInv, NEW c \in Coupler,
           \/ \E i \in Side, s \in Settings : WriteSettings(c, i, s)
           \/ \E table \in ProxyTables : WriteProxyTable(c, table)
           \/ \E event \in {"startLoading", "loadCompleted", "unload"} : LoadControl(c, event)
           \/ IndividualAddressWrite(c)
    PROVE  CouplerInv'
<1>1. Edit /\ edits' \in Nat
    BY DEF WriteSettings, WriteProxyTable, LoadControl, IndividualAddressWrite, Edit, CouplerInv, ConfigInv
<1>2. UNCHANGED <<installation, filter, meant, couplerType, proxy, traffic>>
    BY DEF WriteSettings, WriteProxyTable, LoadControl, IndividualAddressWrite
<1> DEFINE ConfigTyped ==
                /\ settings \in [Coupler -> [Side -> Setting]] /\ load \in [Coupler -> LoadState]
                /\ proxyTable \in [Coupler -> SUBSET Rule]
<1>3. ConfigTyped
    BY DEF CouplerInv, ConfigInv
<1>4. ConfigTyped'
    <2>1. ASSUME NEW i \in Side, NEW s \in Settings, WriteSettings(c, i, s)
          PROVE  ConfigTyped'
        <3>1. s \in Setting /\ settings' = [settings EXCEPT ![c] = [settings[c] EXCEPT ![i] = s]]
            BY <1>3, <2>1 DEF WriteSettings
        <3>2. settings' \in [Coupler -> [Side -> Setting]]
            BY <1>3, <3>1
        <3> QED BY <1>3, <2>1, <3>2 DEF WriteSettings
    <2>2. ASSUME NEW table \in ProxyTables, WriteProxyTable(c, table)
          PROVE  ConfigTyped'
        BY <1>3, <2>2 DEF WriteProxyTable
    <2>3. ASSUME NEW event, LoadControl(c, event)
          PROVE  ConfigTyped'
        BY <1>3, <2>3 DEF LoadControl, LoadState
    <2>4. CASE IndividualAddressWrite(c)
        BY <1>3, <2>4 DEF IndividualAddressWrite
    <2> QED BY <2>1, <2>2, <2>3, <2>4
<1>5. ConfigInv'
    BY <1>1, <1>2, <1>3, <1>4 DEF CouplerInv, ConfigInv
<1>6. ProxyInv' /\ TrafficInv'
    BY <1>2, ProxyUnchanged, TrafficUnchanged DEF CouplerInv
<1> QED BY <1>1, <1>5, <1>6, Edited

\* The commands for the filter table
LEMMA EditedFilter ==
    ASSUME CouplerInv, NEW c \in Coupler,
           \/ \E first, last \in Group, set \in BOOLEAN : RouteTableControl(c, first, last, set)
           \/ \E set \in BOOLEAN : RoutingTableControl(c, set)
    PROVE  CouplerInv'
<1>1. Edit /\ edits' \in Nat
    BY DEF RouteTableControl, RoutingTableControl, Edit, CouplerInv, ConfigInv
<1>2. UNCHANGED <<installation, settings, load, proxyTable, couplerType, proxy, traffic>>
    BY DEF RouteTableControl, RoutingTableControl
<1>3. filter \in [Coupler -> SUBSET Group] /\ filter = meant
    BY DEF CouplerInv, ConfigInv
<1>4. filter' \in [Coupler -> SUBSET Group] /\ filter' = meant'
    <2>1. ASSUME NEW first \in Group, NEW last \in Group, NEW set \in BOOLEAN,
                 RouteTableControl(c, first, last, set)
          PROVE  filter' \in [Coupler -> SUBSET Group] /\ filter' = meant'
        <3>1. Addressed(first, last) = first .. last /\ Addressed(first, last) \subseteq Group
            BY <2>1, AddressedIsRange DEF RouteTableControl, Addressed
        <3> QED BY <1>3, <2>1, <3>1 DEF RouteTableControl
    <2>2. ASSUME NEW set \in BOOLEAN, RoutingTableControl(c, set)
          PROVE  filter' \in [Coupler -> SUBSET Group] /\ filter' = meant'
        BY <1>3, <2>2 DEF RoutingTableControl
    <2> QED BY <2>1, <2>2
<1>5. ConfigInv'
    BY <1>1, <1>2, <1>4 DEF CouplerInv, ConfigInv
<1>6. ProxyInv' /\ TrafficInv'
    BY <1>2, ProxyUnchanged, TrafficUnchanged DEF CouplerInv
<1> QED BY <1>1, <1>5, <1>6, Edited

\* The application's routes and rules
LEMMA EditedProxy ==
    ASSUME CouplerInv, NEW c \in Coupler,
           \/ \E pass \in Passes, i \in Side : AllowTemporaryRoute(c, pass[1], pass[2], i)
           \/ \E table \in ProxyTables : ConfigureSecureProxy(c, table)
    PROVE  CouplerInv'
<1>1. Edit /\ edits' \in Nat
    BY DEF AllowTemporaryRoute, ConfigureSecureProxy, Edit, CouplerInv, ConfigInv
<1>2. UNCHANGED <<config, couplerType, proxyActive, traffic>>
    BY DEF AllowTemporaryRoute, ConfigureSecureProxy
<1>3. UNCHANGED <<installation, address, settings, load, filter, proxyTable, meant>>
    BY <1>2 DEF config
<1>4. ConfigInv /\ ProxyInv
    BY DEF CouplerInv
<1>5. ProxyInv'
    <2>1. ASSUME NEW pass \in Passes, NEW i \in Side, AllowTemporaryRoute(c, pass[1], pass[2], i)
          PROVE  ProxyInv'
        <3> DEFINE l == [source |-> pass[1], to |-> pass[2], side |-> i]
        <3>1. l \in Lease
            BY DEF Lease
        <3>2. Cardinality(leases[c]) < MaxLease /\ UNCHANGED <<proxyActive, rules>>
            BY <2>1 DEF AllowTemporaryRoute
        <3>3. leases' = [leases EXCEPT ![c] = leases[c] \cup {l}]
            BY <1>4, <2>1 DEF AllowTemporaryRoute, ProxyInv
        <3> HIDE DEF l
        <3> QED BY <1>4, <3>1, <3>2, <3>3, RouteAdded, RoutesChanged
    <2>2. ASSUME NEW table \in ProxyTables, ConfigureSecureProxy(c, table)
          PROVE  ProxyInv'
        <3> DEFINE routes == IF table = rules[c] THEN leases[c] ELSE {}
        <3>1. /\ IsConfigurable(table) /\ rules' = [rules EXCEPT ![c] = table]
              /\ proxyActive' = proxyActive
            BY <2>2 DEF ConfigureSecureProxy
        <3>2. leases' = [leases EXCEPT ![c] = routes]
            BY <1>4, <2>2 DEF ConfigureSecureProxy, ProxyInv
        <3>3. proxyActive[c] \in BOOLEAN /\ proxyActive' = [proxyActive EXCEPT ![c] = proxyActive[c]]
            BY <1>4, <3>1 DEF ProxyInv
        <3>4. routes \in SUBSET Lease /\ IsFiniteSet(routes) /\ Cardinality(routes) <= MaxLease
            BY <1>4, NoRoutes DEF ProxyInv
        <3>5. table \in SUBSET Rule
            OBVIOUS
        <3> HIDE DEF routes
        <3> QED BY <1>4, <3>1, <3>2, <3>3, <3>4, <3>5, ProxyChanged
    <2> QED BY <2>1, <2>2
<1>6. ConfigInv'
    BY <1>1, <1>2, <1>3, <1>4 DEF ConfigInv
<1>7. TrafficInv'
    BY <1>2, <1>3, TrafficUnchanged DEF CouplerInv
<1> QED BY <1>1, <1>5, <1>6, <1>7, Edited

LEMMA RestartedFacts ==
    ASSUME CouplerInv, NEW c \in Coupler, Restarted(c), UNCHANGED <<installation, sent, original, reached>>
    PROVE  /\ couplerType' \in [Coupler -> {"line", "backbone"}]
           /\ ProxyInv' /\ TrafficInv'
<1>1. couplerType' \in [Coupler -> {"line", "backbone"}]
    <2>1. Constructed \in {"line", "backbone"}
        BY DEF Constructed, EvaluateCouplerType
    <2> QED BY <2>1 DEF Restarted, CouplerInv, ConfigInv
<1>2. ProxyInv'
    <2>1. /\ proxyActive' = [proxyActive EXCEPT ![c] = FALSE] /\ rules' = [rules EXCEPT ![c] = {}]
          /\ leases' = [leases EXCEPT ![c] = {}]
        BY DEF Restarted
    <2>2. IsConfigurable({})
        BY DEF IsConfigurable
    <2> QED BY <2>1, <2>2, NoRoutes, ProxyChanged DEF CouplerInv
<1>3. ASSUME NEW u \in air'
      PROVE  \E v \in air : Fades(u, v)
    <2>1. u \in WithoutHearer(c)
        BY DEF Restarted, WithoutHearer
    <2> QED BY <2>1, WithoutFades DEF CouplerInv
<1>4. TrafficInv'
    BY <1>3, OwnTelegrams DEF CouplerInv
<1> QED BY <1>1, <1>2, <1>4

LEMMA EditedByRestart ==
    ASSUME CouplerInv, NEW c \in Coupler,
           Restart(c) \/ \E withoutIA \in BOOLEAN : FactoryReset(c, withoutIA)
    PROVE  CouplerInv'
<1>1. Edit /\ edits' \in Nat /\ Restarted(c)
    BY DEF Restart, FactoryReset, Edit, CouplerInv, ConfigInv
<1>2. UNCHANGED <<installation, settings, filter, meant, sent, original, reached>>
    BY DEF Restart, FactoryReset, config
<1>3. /\ couplerType' \in [Coupler -> {"line", "backbone"}]
      /\ ProxyInv' /\ TrafficInv'
    BY <1>1, <1>2, RestartedFacts
<1>4. Blank \in SUBSET Rule
    BY DEF Blank, Rule, Group, Side
<1>5. proxyTable' \in [Coupler -> SUBSET Rule] /\ load' \in [Coupler -> LoadState]
    BY <1>4 DEF Restart, FactoryReset, config, LoadState, CouplerInv, ConfigInv
<1>6. ConfigInv'
    BY <1>1, <1>2, <1>3, <1>5 DEF CouplerInv, ConfigInv
<1> QED BY <1>1, <1>3, <1>6, Edited

LEMMA AnnounceKeeps ==
    ASSUME CouplerInv, NEW c \in Coupler, NEW kind \in {"broadcast", "systemService"},
           AnnounceBroadcast(c, kind)
    PROVE  CouplerInv'
<1>1. /\ Edit /\ edits' \in Nat
      /\ UNCHANGED <<config, couplerType, proxy, sent, original, reached>>
    BY DEF AnnounceBroadcast, Edit, CouplerInv, ConfigInv
<1>2. UNCHANGED <<installation, settings, load, filter, meant, proxyTable>>
    BY <1>1 DEF config
<1>3. ASSUME NEW u \in air'
      PROVE  (\E v \in air : Fades(u, v)) \/ (IsTelegram(u) /\ u.number = 0)
    <2>1. CASE u \in air
        <3>1. IsTelegram(u)
            BY <2>1 DEF CouplerInv, TrafficInv
        <3>2. Fades(u, u)
            BY <3>1 DEF Fades, IsTelegram
        <3> QED BY <2>1, <3>2
    <2>2. CASE u \notin air
        <3>1. PICK i \in Side :
                u = Telegram(0, c, LineAt(c, i), kind, address[c], Everyone, DefaultHop, "plain")
            BY <2>2 DEF AnnounceBroadcast
        <3> QED BY <3>1, TelegramFields DEF Kind
    <2> QED BY <2>1, <2>2
<1>4. TrafficInv'
    BY <1>1, <1>2, <1>3, OwnTelegrams DEF CouplerInv
<1>5. ConfigInv'
    BY <1>1, <1>2 DEF CouplerInv, ConfigInv
<1>6. ProxyInv'
    BY <1>1, ProxyUnchanged DEF CouplerInv
<1> QED BY <1>1, <1>4, <1>5, <1>6, Edited

LEMMA ConfigureKeeps ==
    ASSUME CouplerInv, NEW c \in Coupler, Configure(c)
    PROVE  CouplerInv'
BY EditedSettings, EditedFilter, EditedProxy, EditedByRestart, AnnounceKeeps DEF Configure

-----------------------------------------------------------------------------
(* The theorems *)

LEMMA NextKeeps == CouplerInv /\ [Next]_vars => CouplerInv'
<1> SUFFICES ASSUME CouplerInv, [Next]_vars PROVE CouplerInv'
    OBVIOUS
<1>1. CASE Send
    BY <1>1, SendKeeps
<1>2. ASSUME NEW c \in Coupler, Hear(c) \/ Answer(c) \/ Expire(c) \/ Configure(c)
      PROVE  CouplerInv'
    BY <1>2, HearKeeps, AnswerKeeps, ExpireKeeps, ConfigureKeeps
<1>3. CASE UNCHANGED vars
    <2>1. UNCHANGED <<config, couplerType, edits, proxy, traffic>>
        BY <1>3 DEF vars, proxy, traffic
    <2>2. UNCHANGED <<installation, settings, original, reached>>
        BY <2>1 DEF config, traffic
    <2>3. ConfigInv' /\ AsBuilt' /\ ProxyInv' /\ TrafficInv'
        BY <2>1, <2>2, ConfigUnchanged, ProxyUnchanged, TrafficUnchanged DEF CouplerInv
    <2>4. OnPath'
        BY <2>1, <2>2, PathKept DEF CouplerInv
    <2> QED BY <2>3, <2>4 DEF CouplerInv
<1> QED BY <1>1, <1>2, <1>3 DEF Next

LEMMA InitMakes == Init => CouplerInv
<1> SUFFICES ASSUME Init PROVE CouplerInv
    OBVIOUS
<1>1. /\ installation \in Installations /\ installation.setting \in Setting
      /\ installation.load \in LoadState /\ installation.filter \subseteq Group
      /\ \A c \in Coupler : installation.table[c] \subseteq Rule
    BY InstallationAssumption DEF Init
<1>2. Constructed = "line"
    BY DEF Constructed, EvaluateCouplerType, DefaultAddress
<1>3. ConfigInv
    BY <1>1, <1>2 DEF Init, ConfigInv
<1>4. IsConfigurable({})
    BY DEF IsConfigurable
<1>5. ProxyInv
    BY <1>4, NoRoutes DEF Init, ProxyInv
<1>6. TrafficInv
    BY DEF Init, TrafficInv, NoTelegram
<1>7. AsBuilt
    BY <1>2 DEF Init, AsBuilt
<1>8. OnPath
    BY DEF Init, OnPath
<1> QED BY <1>3, <1>5, <1>6, <1>7, <1>8 DEF CouplerInv

\* The invariant of couplers and telegrams holds in every reachable state.
THEOREM CouplerAlways == Spec => []CouplerInv
BY InitMakes, NextKeeps, PTL DEF Spec

\* The filter table has exactly the groups ETS has set and not cleared, whatever the width of
\* an octet; and as long as nobody changes a network without rings, an individually addressed
\* telegram is seen only between its sender and its destination.
THEOREM RoutingAlwaysConsistent == Spec => []RoutingConsistent
<1>1. CouplerInv => TypeOK
    BY DEF CouplerInv, ConfigInv, ProxyInv, TrafficInv, IsTelegram, TypeOK
<1>2. CouplerInv => FilterExact
    BY DEF CouplerInv, ConfigInv, FilterExact
<1>3. CouplerInv => StaysOnPath
    <2> SUFFICES ASSUME CouplerInv, NEW n \in 1 .. MaxSend, AsInstalled, edits = 0,
                        original[n].kind = "individual", original[n].to \in Devices,
                        \A c \in Coupler, i \in Side : settings[c][i].phys = "route",
                        NEW l \in reached[n]
                 PROVE  Between(l, original[n].line, LineOfStation(original[n].to))
        BY DEF StaysOnPath
    <2>1. Routes(settings)
        BY DEF Routes
    <2> QED BY <2>1, PathNames DEF CouplerInv, OnPath, AsInstalled
<1>4. CouplerInv => RoutingConsistent
    BY <1>1, <1>2, <1>3 DEF RoutingConsistent
<1> QED BY <1>4, CouplerAlways, PTL

-----------------------------------------------------------------------------
(* The security proxy never downgrades *)

\* What is new on the lines in a step comes from a device, from a coupler's own stack, or is
\* what a coupler passes on; the rest was there before.
Comes(u) ==
    \/ \E v \in air : Fades(u, v)
    \/ u.via = "device"
    \/ IsTelegram(u) /\ u.kind # "group"
    \/ \E c \in Coupler, t \in air, i \in Side : \E new \in Passing(c, t, i) : u \in new

\* The changes that leave the lines alone
EditsOnly(c) ==
    \/ \E i \in Side, s \in Settings : WriteSettings(c, i, s)
    \/ \E table \in ProxyTables : WriteProxyTable(c, table) \/ ConfigureSecureProxy(c, table)
    \/ \E event \in {"startLoading", "loadCompleted", "unload"} : LoadControl(c, event)
    \/ \E first, last \in Group, set \in BOOLEAN : RouteTableControl(c, first, last, set)
    \/ \E pass \in Passes, i \in Side : AllowTemporaryRoute(c, pass[1], pass[2], i)
    \/ \E set \in BOOLEAN : RoutingTableControl(c, set)
    \/ IndividualAddressWrite(c)

LEMMA StayingFades ==
    ASSUME TrafficInv, NEW u \in air
    PROVE  Comes(u)
<1>1. IsTelegram(u)
    BY DEF TrafficInv
<1>2. Fades(u, u)
    BY <1>1 DEF Fades, IsTelegram
<1> QED BY <1>2 DEF Comes

LEMMA HeardComes ==
    ASSUME TrafficInv, NEW c \in Coupler, Hear(c), NEW u \in air'
    PROVE  Comes(u)
<1>1. PICK t \in air, i \in Side : HearIndividual(c, t, i) \/ HearGroup(c, t, i) \/ HearBroadcast(c, t, i)
    BY DEF Hear
<1>2. Ignore(c, t) \/ SendMsgHopCount(c, t, i)
    BY <1>1 DEF HearIndividual, HearGroup, HearBroadcast
<1>3. PICK new : Put(c, t, new) /\ (new = {} \/ new \in Passing(c, t, i))
    BY <1>2 DEF Ignore, SendMsgHopCount
<1>4. CASE u \in new
    BY <1>3, <1>4 DEF Comes
<1>5. CASE u \in Heard(c, t)
    BY <1>5, HeardFades DEF Comes
<1> QED BY <1>3, <1>4, <1>5 DEF Put

LEMMA RestComes ==
    ASSUME TrafficInv, NEW c \in Coupler, Answer(c) \/ Expire(c) \/ Configure(c), NEW u \in air'
    PROVE  Comes(u)
<1>1. CASE u \in air
    BY <1>1, StayingFades
<1>2. ASSUME Answer(c), u \notin air
      PROVE  Comes(u)
    <2>1. PICK r \in asked[c] :
            u = Telegram(0, c, LineAt(c, AnswerSide(c, r.source)), "individual", address[c],
                         r.source, DefaultHop, "plain")
        BY <1>2 DEF Answer
    <2> QED BY <2>1, TelegramFields DEF Comes, Kind
<1>3. ASSUME NEW kind \in {"broadcast", "systemService"}, AnnounceBroadcast(c, kind), u \notin air
      PROVE  Comes(u)
    <2>1. PICK i \in Side :
            u = Telegram(0, c, LineAt(c, i), kind, address[c], Everyone, DefaultHop, "plain")
        BY <1>3 DEF AnnounceBroadcast
    <2> QED BY <2>1, TelegramFields DEF Comes, Kind
<1>4. CASE Restart(c) \/ \E withoutIA \in BOOLEAN : FactoryReset(c, withoutIA)
    <2>1. u \in WithoutHearer(c)
        BY <1>4 DEF Restart, FactoryReset, Restarted, WithoutHearer
    <2> QED BY <2>1, WithoutFades DEF Comes
<1>5. CASE Expire(c) \/ EditsOnly(c)
    <2>1. air' = air
        BY <1>5 DEF Expire, EditsOnly, WriteSettings, WriteProxyTable, ConfigureSecureProxy, LoadControl,
                    RouteTableControl, AllowTemporaryRoute, RoutingTableControl, IndividualAddressWrite, traffic
    <2> QED BY <2>1, StayingFades
<1> QED BY <1>1, <1>2, <1>3, <1>4, <1>5 DEF Configure, EditsOnly

\* A telegram that a coupler passes on in a group with a rule has the form the rule asks for.
LEMMA PassedAsMeant ==
    ASSUME ConfigInv, ProxyInv, TrafficInv, NEW c \in Coupler, NEW t \in air, NEW i \in Side,
           NEW new \in Passing(c, t, i), NEW u \in new, u.kind = "group",
           NEW r \in RulesMeant(c), u.to = <<r.group>>
    PROVE  (u.form = "secured") = (u.line = LineAt(c, r.secure))
<1>1. MayPass(c, t, i)
    BY OnePasses
<1>2. PICK f : /\ u = Passed(c, t, i, f)
               /\ t.kind = "group" /\ IsRuled(c, t.to[1]) => f \in Translated(c, t, i)
    BY OnePasses
<1>3. u.kind = t.kind /\ u.to = t.to /\ u.form = f /\ u.line = LineAt(c, Other(i))
    BY <1>1, <1>2, PassedFields
<1>4. /\ RulesInForce(c) = RulesMeant(c) /\ RulesInForce(c) \subseteq Rule
      /\ IsConfigurable(RulesInForce(c))
    BY <1>1, RulesInForceFacts DEF MayPass
<1>5. r \in RulesInForce(c) /\ r \in Rule /\ r.group = t.to[1]
    BY <1>3, <1>4
<1>6. f \in Translated(c, t, i)
    BY <1>2, <1>3, <1>5 DEF IsRuled
<1>7. PICK q \in RulesInForce(c) :
        /\ q.group = t.to[1] /\ (t.form = "secured") = (i = q.secure)
        /\ f = (IF t.form = "secured" THEN "plain" ELSE "secured")
    BY <1>6 DEF Translated
<1>8. q = r
    BY <1>4, <1>5, <1>7 DEF IsConfigurable
<1>9. r.secure \in Side
    BY <1>5 DEF Rule
<1>10. LineAt(c, 1) # LineAt(c, 2)
    BY InstallationAssumption DEF ConfigInv, LineAt
<1>11. (f = "secured") <=> (Other(i) = r.secure)
    BY <1>7, <1>8, <1>9 DEF Side, Other
<1>12. (LineAt(c, Other(i)) = LineAt(c, r.secure)) <=> (Other(i) = r.secure)
    BY <1>9, <1>10 DEF Side, Other
<1> QED BY <1>3, <1>11, <1>12

\* In no load state, after no restart, and whatever table there was before, does a group with a
\* rule leave a coupler unsecured on the side its rule secures, or secured on the other.
THEOREM ProxyNeverDowngrades == Spec => NeverDowngraded
<1>1. ASSUME CouplerInv, [Next]_vars,
             NEW u \in air' \ air, NEW c \in Coupler, NEW r \in RulesMeant(c),
             u.via = c, u.kind = "group", u.to = <<r.group>>,
             ~\E v \in air : v.number = u.number /\ v.line = u.line
      PROVE  (u.form = "secured") = (u.line = LineAt(c, r.secure))
    <2>1. ConfigInv /\ ProxyInv /\ TrafficInv
        BY <1>1 DEF CouplerInv
    <2>2. Comes(u)
        <3>1. CASE Send
            <4>0. PICK kind \in Kind : \E to, form : Originate(kind, to, form)
                BY <3>1 DEF Send, Kind
            <4>1. PICK to, form : Originate(kind, to, form)
                BY <4>0
            <4>2. PICK line \in DOMAIN installation.device, hop \in Hops :
                    air' = air \cup {Telegram(sent + 1, "device", line, kind, installation.device[line], to, hop, form)}
                BY <4>1 DEF Originate
            <4> QED BY <1>1, <4>2, TelegramFields DEF Comes
        <3>2. ASSUME NEW d \in Coupler, Hear(d) \/ Answer(d) \/ Expire(d) \/ Configure(d)
              PROVE  Comes(u)
            BY <1>1, <2>1, <3>2, HeardComes, RestComes
        <3>3. CASE UNCHANGED vars
            BY <1>1, <3>3 DEF vars, traffic
        <3> QED BY <1>1, <3>1, <3>2, <3>3 DEF Next
    <2>3. ASSUME NEW v \in air, Fades(u, v)
          PROVE  FALSE
        BY <1>1, <2>1, <2>3, FadedTelegram DEF TrafficInv
    <2>4. PICK d \in Coupler, t \in air, i \in Side : \E new \in Passing(d, t, i) : u \in new
        BY <1>1, <2>2, <2>3 DEF Comes
    <2>5. d = c
        BY <1>1, <2>1, <2>4, OnePasses, PassedFields
    <2> QED BY <1>1, <2>1, <2>4, <2>5, PassedAsMeant
<1>2. CouplerInv /\ [Next]_vars =>
        \A t \in air' \ air : \A c \in Coupler : \A r \in RulesMeant(c) :
          (/\ t.via = c /\ t.kind = "group" /\ t.to = <<r.group>>
           /\ ~\E u \in air : u.number = t.number /\ u.line = t.line)
          => (t.form = "secured") = (t.line = LineAt(c, r.secure))
    BY <1>1
<1> QED BY <1>2, CouplerAlways, PTL DEF Spec, NeverDowngraded

-----------------------------------------------------------------------------
(* Answers return *)

\* Line l is on side i of coupler c, for a wiring w without rings.
OnSide(w, c, i, l) ==
    \/ i = 1 /\ Place(w, l) <= Place(w, w.line[c][1])
    \/ i = 2 /\ Place(w, w.line[c][2]) <= Place(w, l)

\* t is on line l, or whoever put it where it is had line l on his other side.
ComesFrom(w, t, l) ==
    \/ t.line = l
    \/ \E i \in Side :
          t.via \in Coupler /\ t.line = w.line[t.via][Other(i)] /\ OnSide(w, t.via, i, l)

\* What couplers answer is for devices; what devices send moves away from where they are.
Outward(w, t) ==
    t.kind = "individual" =>
        /\ t.via \notin t.unheard
        /\ t.number = 0 => t.to \in Homes(w)
        /\ t.number # 0 => \E l \in DOMAIN w.device : t.source = w.device[l] /\ ComesFrom(w, t, l)

\* Request r has come to coupler c from the side its sender is on.
Arrived(w, c, r) ==
    /\ r.side \in Side
    /\ \E l \in DOMAIN w.device : r.source = w.device[l] /\ OnSide(w, c, r.side, l)

\* A backbone coupler that evaluates its type has done so when it has a request from below.
InTime(c) ==
    /\ couplerType[c] = "backbone" => address[c][2] = 0
    /\ address[c][2] = 0 /\ EvaluatesType(c) /\ (\E r \in asked[c] : r.side = 2) =>
           couplerType[c] = "backbone"

Numbered ==
    /\ DOMAIN asked = Coupler /\ DOMAIN address = Coupler
    /\ \A c \in Coupler : address[c][3] = 0

Untouched ==
    edits = 0 =>
        /\ address = installation.address
        /\ \A c \in Coupler, i \in Side : settings[c][i] = installation.setting

Timely == edits <= 1 /\ address = installation.address => \A c \in Coupler : InTime(c)

FromOutside ==
    ~installation.ring =>
        /\ \A t \in air : Outward(installation, t)
        /\ \A c \in Coupler : \A r \in asked[c] : Arrived(installation, c, r)

AnswersInv == Numbered /\ Untouched /\ Timely /\ FromOutside

\* Where a coupler is in the row
LEMMA CouplerPlace ==
    ASSUME ConfigInv, ~installation.ring
    PROVE  /\ \A l \in DOMAIN installation.device : Place(installation, l) \in Nat
           /\ \A c \in Coupler :
                 /\ Place(installation, LineAt(c, 1)) \in Nat
                 /\ Place(installation, LineAt(c, 2)) = Place(installation, LineAt(c, 1)) + 1
                 /\ \A l \in DOMAIN installation.device :
                       BelowInRow(installation, c, installation.device[l])
                           <=> Place(installation, l) > Place(installation, LineAt(c, 1))
           /\ \A c, d \in Coupler :
                 Place(installation, LineAt(c, 1)) = Place(installation, LineAt(d, 1)) => c = d
<1>1. PICK length \in Nat :
        /\ \A n \in 1 .. length : Position(installation.order[n]) = n
        /\ \A l \in DOMAIN installation.device : Position(l) \in 1 .. length
        /\ \A c \in Coupler : \E n \in 1 .. length - 1 :
              /\ LineAt(c, 1) = installation.order[n] /\ LineAt(c, 2) = installation.order[n + 1]
              /\ \A l \in DOMAIN installation.device :
                    BelowInRow(installation, c, installation.device[l]) <=> Position(l) > n
    BY Positions
<1>2. \A l : Position(l) = Place(installation, l)
    BY DEF Position, Place
<1>3. ASSUME NEW c \in Coupler
      PROVE  /\ Position(LineAt(c, 1)) \in Nat
             /\ Position(LineAt(c, 2)) = Position(LineAt(c, 1)) + 1
             /\ LineAt(c, 1) = installation.order[Position(LineAt(c, 1))]
             /\ LineAt(c, 2) = installation.order[Position(LineAt(c, 1)) + 1]
             /\ \A l \in DOMAIN installation.device :
                   BelowInRow(installation, c, installation.device[l])
                       <=> Position(l) > Position(LineAt(c, 1))
    <2>1. PICK n \in 1 .. length - 1 :
              /\ LineAt(c, 1) = installation.order[n] /\ LineAt(c, 2) = installation.order[n + 1]
              /\ \A l \in DOMAIN installation.device :
                    BelowInRow(installation, c, installation.device[l]) <=> Position(l) > n
        BY <1>1
    <2>2. n \in 1 .. length /\ n + 1 \in 1 .. length
        OBVIOUS
    <2>3. Position(LineAt(c, 1)) = n /\ Position(LineAt(c, 2)) = n + 1
        BY <1>1, <2>1, <2>2
    <2> QED BY <2>1, <2>2, <2>3
<1>4. ASSUME NEW c \in Coupler, NEW d \in Coupler, Position(LineAt(c, 1)) = Position(LineAt(d, 1))
      PROVE  c = d
    <2>1. installation.line[c][1] = installation.line[d][1]
        BY <1>3, <1>4 DEF LineAt
    <2>2. installation \in {v \in Installations : ~v.ring}
        BY DEF ConfigInv
    <2> QED BY <2>1, <2>2, RowAssumption
<1>5. \A l \in DOMAIN installation.device : Position(l) \in Nat
    BY <1>1
<1> QED BY <1>2, <1>3, <1>4, <1>5

\* Who hears a device's telegram has its sender on the side he hears it from.
LEMMA HeardFromItsSide ==
    ASSUME ConfigInv, ~installation.ring, NEW c \in Coupler, NEW t, NEW i \in Side,
           LineAt(c, i) = t.line, c # t.via,
           NEW l \in DOMAIN installation.device, ComesFrom(installation, t, l)
    PROVE  OnSide(installation, c, i, l)
<1> DEFINE P(k) == Place(installation, k)
<1>1. /\ P(l) \in Nat
      /\ \A d \in Coupler : P(LineAt(d, 1)) \in Nat /\ P(LineAt(d, 2)) = P(LineAt(d, 1)) + 1
      /\ \A d, e \in Coupler : P(LineAt(d, 1)) = P(LineAt(e, 1)) => d = e
    BY CouplerPlace
<1>2. \A d \in Coupler, j \in Side :
          OnSide(installation, d, j, l) <=> \/ j = 1 /\ P(l) <= P(LineAt(d, 1))
                                            \/ j = 2 /\ P(LineAt(d, 2)) <= P(l)
    BY DEF OnSide, LineAt
<1>3. CASE t.line = l
    <2>1. LineAt(c, i) = l
        BY <1>3
    <2>2. P(LineAt(c, i)) = P(l)
        BY <2>1
    <2>3. i = 1 \/ i = 2
        BY DEF Side
    <2> HIDE DEF P
    <2> QED BY <1>1, <1>2, <2>2, <2>3
<1>4. ASSUME NEW j \in Side, t.via \in Coupler, t.line = LineAt(t.via, Other(j)),
             OnSide(installation, t.via, j, l)
      PROVE  OnSide(installation, c, i, l)
    <2>1. P(LineAt(c, i)) = P(LineAt(t.via, Other(j)))
        BY <1>4
    <2>2. (i = 1 \/ i = 2) /\ ((j = 1 /\ Other(j) = 2) \/ (j = 2 /\ Other(j) = 1))
        BY DEF Side, Other
    <2>3. P(LineAt(c, 1)) # P(LineAt(t.via, 1))
        BY <1>1, <1>4
    <2> HIDE DEF P
    <2> QED BY <1>1, <1>2, <1>4, <2>1, <2>2, <2>3
<1> QED BY <1>3, <1>4 DEF ComesFrom, LineAt

\* A telegram that fades stays what it is.
LEMMA OutwardFades ==
    ASSUME NEW w, NEW u, NEW v, Fades(u, v), IsTelegram(v), Outward(w, v)
    PROVE  Outward(w, u)
<1>1. /\ u.number = v.number /\ u.line = v.line /\ u.kind = v.kind /\ u.to = v.to
      /\ u.via = v.via /\ u.source = v.source /\ u.unheard \subseteq v.unheard
    BY FadedTelegram DEF Fades
<1> QED BY ONLY <1>1, Outward(w, v) DEF Outward, ComesFrom

\* And so does one that is passed on.
LEMMA OutwardPassed ==
    ASSUME ConfigInv, TrafficInv, ~installation.ring, NEW c \in Coupler, NEW t \in air, NEW i \in Side,
           Hears(c, t, i), Outward(installation, t), NEW new \in Passing(c, t, i), NEW u \in new
    PROVE  Outward(installation, u)
<1> SUFFICES ASSUME u.kind = "individual" PROVE Outward(installation, u)
    BY DEF Outward
<1>1. MayPass(c, t, i) /\ t.kind = "individual"
    BY OnePasses, PassedFields
<1>2. u = Passed(c, t, i, t.form)
    BY <1>1 DEF Passing
<1>3. /\ u.number = t.number /\ u.to = t.to /\ u.via = c /\ u.line = LineAt(c, Other(i))
    BY <1>1, <1>2, PassedFields
<1>4. u.source = t.source /\ c \notin u.unheard
    BY <1>2 DEF Passed, Telegram
<1>5. t.via # c /\ LineAt(c, i) = t.line
    BY <1>1 DEF Outward, Hears
<1>6. ASSUME NEW l \in DOMAIN installation.device, t.source = installation.device[l],
             ComesFrom(installation, t, l)
      PROVE  ComesFrom(installation, u, l)
    <2>1. OnSide(installation, c, i, l)
        BY <1>5, <1>6, HeardFromItsSide
    <2> QED BY <1>3, <2>1 DEF ComesFrom, LineAt
<1> QED BY <1>1, <1>3, <1>4, <1>6 DEF Outward

\* Where nothing of the configuration changes
LEMMA NumberedKept ==
    ASSUME Numbered, UNCHANGED address, DOMAIN asked' = Coupler
    PROVE  Numbered'
BY DEF Numbered

LEMMA UntouchedKept ==
    ASSUME Untouched, UNCHANGED <<installation, address, settings, edits>>
    PROVE  Untouched'
BY DEF Untouched

LEMMA FromOutsideKept ==
    ASSUME TrafficInv, FromOutside, UNCHANGED installation,
           \A u \in air' : (\E v \in air : Fades(u, v)) \/ (~installation.ring => Outward(installation, u)),
           \A c \in Coupler : \A r \in asked'[c] :
               r \in asked[c] \/ (~installation.ring => Arrived(installation, c, r))
    PROVE  FromOutside'
<1> SUFFICES ASSUME ~installation.ring
             PROVE  /\ \A u \in air' : Outward(installation, u)
                    /\ \A c \in Coupler : \A r \in asked'[c] : Arrived(installation, c, r)
    BY DEF FromOutside
<1>1. ASSUME NEW u \in air', NEW v \in air, Fades(u, v)
      PROVE  Outward(installation, u)
    <2>1. IsTelegram(v) /\ Outward(installation, v)
        BY DEF TrafficInv, FromOutside
    <2> QED BY <1>1, <2>1, OutwardFades
<1> QED BY <1>1 DEF FromOutside

LEMMA StayingTelegrams ==
    ASSUME TrafficInv, NEW u \in air
    PROVE  \E v \in air : Fades(u, v)
<1>1. IsTelegram(u)
    BY DEF TrafficInv
<1> QED BY <1>1 DEF Fades, IsTelegram

\* Type, address and settings as they were, and no new requests
LEMMA TimelyKept ==
    ASSUME Timely, UNCHANGED <<installation, address, settings, couplerType>>,
           edits' <= 1 => edits <= 1,
           \A c \in Coupler : asked'[c] \subseteq asked[c]
    PROVE  Timely'
<1>1. ASSUME NEW c \in Coupler, InTime(c)
      PROVE  InTime(c)'
    <2>1. EvaluatesType(c)' <=> EvaluatesType(c)
        BY DEF EvaluatesType, IsOpen
    <2> QED BY <1>1, <2>1 DEF InTime
<1> QED BY <1>1 DEF Timely

\* The type is evaluated, or it was not to be; a request has come from its side.
LEMMA RequestHeard ==
    ASSUME ConfigInv, TrafficInv, AnswersInv, NEW c \in Coupler, NEW t \in air, NEW i \in Side,
           Hears(c, t, i), t.kind = "individual", t.to = address[c], ~installation.ring
    PROVE  Arrived(installation, c, [source |-> t.source, side |-> i])
<1>1. Outward(installation, t)
    BY DEF AnswersInv, FromOutside
<1>2. t.to \notin Homes(installation)
    BY InstallationAssumption DEF AnswersInv, Numbered, ConfigInv, Homes
<1>3. PICK l \in DOMAIN installation.device : t.source = installation.device[l] /\ ComesFrom(installation, t, l)
    BY <1>1, <1>2 DEF Outward
<1>4. c # t.via /\ LineAt(c, i) = t.line
    BY <1>1 DEF Outward, Hears
<1>5. OnSide(installation, c, i, l)
    BY <1>3, <1>4, HeardFromItsSide
<1> QED BY <1>3, <1>5 DEF Arrived

\* Evaluating the type at any time does no harm.
LEMMA TypeOfInstalled ==
    ASSUME ConfigInv, NEW c \in Coupler, address = installation.address,
           couplerType[c] = "backbone" => address[c][2] = 0
    PROVE  TypeWhenRouting(c) = (IF address[c][2] = 0 THEN "backbone" ELSE "line")
<1>1. address[c][3] = 0
    BY InstallationAssumption DEF ConfigInv
<1>2. address[c] = DefaultAddress => address[c][2] = 15
    BY DEF DefaultAddress
<1>3. couplerType[c] \in {"line", "backbone"}
    BY DEF ConfigInv
<1> QED BY <1>1, <1>2, <1>3 DEF TypeWhenRouting, EvaluateCouplerType

LEMMA HeardInTime ==
    ASSUME ConfigInv, AnswersInv, NEW c \in Coupler, NEW i \in Side,
           UNCHANGED <<config, edits>>,
           IsAckRequired(c, i) \/ couplerType' = [couplerType EXCEPT ![c] = TypeWhenRouting(c)]
               \/ (couplerType' = couplerType /\ asked' = asked),
           NEW more, asked'[c] = asked[c] \cup more, \A r \in more : r.side = i,
           \A d \in Coupler \ {c} : asked'[d] = asked[d],
           more = {} \/ IsAckRequired(c, i)
    PROVE  Timely'
<1>1. UNCHANGED <<installation, address, settings>>
    BY DEF config
<1>2. SUFFICES ASSUME edits <= 1, address = installation.address, NEW d \in Coupler
               PROVE  InTime(d)'
    BY <1>1 DEF Timely
<1>3. InTime(d)
    BY <1>2 DEF AnswersInv, Timely
<1>4. EvaluatesType(d)' <=> EvaluatesType(d)
    BY <1>1 DEF EvaluatesType, IsOpen
<1>5. DOMAIN couplerType = Coupler /\ DOMAIN asked = Coupler
    BY DEF ConfigInv, AnswersInv, Numbered
<1>6. CASE d # c
    <2>1. couplerType'[d] = couplerType[d]
        BY <1>5, <1>6 DEF IsAckRequired
    <2>2. asked'[d] = asked[d]
        BY <1>5, <1>6
    <2> QED BY <1>1, <1>3, <1>4, <2>1, <2>2 DEF InTime
<1>7. CASE d = c
    <2>1. TypeWhenRouting(c) = (IF address[c][2] = 0 THEN "backbone" ELSE "line")
        BY <1>2, <1>3, <1>7, TypeOfInstalled DEF InTime
    <2>2. couplerType'[c] \in {couplerType[c], TypeWhenRouting(c)}
        BY <1>5 DEF IsAckRequired
    <2>3. asked'[c] = asked[c] \cup more
        BY <1>5
    <2>4. couplerType'[c] = "backbone" => address[c][2] = 0
        BY <1>3, <1>7, <2>1, <2>2 DEF InTime
    <2>5. ASSUME address[c][2] = 0, EvaluatesType(c), NEW r \in asked'[c], r.side = 2
          PROVE  couplerType'[c] = "backbone"
        <3>1. CASE r \in asked[c]
            BY <1>3, <1>7, <2>1, <2>2, <2>5, <3>1 DEF InTime
        <3>2. CASE r \notin asked[c]
            <4>1. IsAckRequired(c, 2)
                BY <2>3, <2>5, <3>2
            <4>2. couplerType'[c] = TypeWhenRouting(c)
                BY <1>5, <2>5, <4>1 DEF IsAckRequired, EvaluatesType
            <4> QED BY <2>1, <2>5, <4>2
        <3> QED BY <3>1, <3>2
    <2> QED BY <1>1, <1>4, <1>7, <2>4, <2>5 DEF InTime
<1> QED BY <1>6, <1>7

LEMMA PutFromOutside ==
    ASSUME ConfigInv, TrafficInv, FromOutside, NEW c \in Coupler, NEW t \in air, NEW i \in Side,
           Hears(c, t, i), Ignore(c, t) \/ SendMsgHopCount(c, t, i)
    PROVE  \A u \in air' : (\E v \in air : Fades(u, v)) \/ (~installation.ring => Outward(installation, u))
<1>1. PICK new : Put(c, t, new) /\ (new = {} \/ new \in Passing(c, t, i))
    BY DEF Ignore, SendMsgHopCount
<1>2. ASSUME NEW u \in new, ~installation.ring
      PROVE  Outward(installation, u)
    <2>1. Outward(installation, t)
        BY <1>2 DEF FromOutside
    <2> QED BY <1>1, <1>2, <2>1, OutwardPassed
<1>3. ASSUME NEW u \in Heard(c, t)
      PROVE  \E v \in air : Fades(u, v)
    BY <1>3, HeardFades
<1>4. \A u \in air' : u \in Heard(c, t) \/ u \in new
    BY <1>1 DEF Put
<1> QED BY <1>2, <1>3, <1>4

LEMMA HearAnswers ==
    ASSUME ConfigInv, TrafficInv, AnswersInv, NEW c \in Coupler, Hear(c)
    PROVE  AnswersInv'
<1>1. PICK t \in air, i \in Side : HearIndividual(c, t, i) \/ HearGroup(c, t, i) \/ HearBroadcast(c, t, i)
    BY DEF Hear
<1>2. /\ Hears(c, t, i) /\ UNCHANGED <<config, edits>>
      /\ Ignore(c, t) \/ SendMsgHopCount(c, t, i)
    BY <1>1 DEF HearIndividual, HearGroup, HearBroadcast
<1>3. UNCHANGED <<installation, address, settings, edits>>
    BY <1>2 DEF config
<1>4. /\ Numbered /\ Untouched /\ Timely /\ FromOutside /\ DOMAIN asked = Coupler
    BY DEF AnswersInv, Numbered
<1>5. \A u \in air' : (\E v \in air : Fades(u, v)) \/ (~installation.ring => Outward(installation, u))
    BY <1>2, <1>4, PutFromOutside
<1>6. Untouched'
    BY <1>3, <1>4, UntouchedKept
<1>7. CASE t.kind = "individual" /\ t.to = address[c]
    <2> DEFINE r == [source |-> t.source, side |-> i]
    <2>1. asked' = [asked EXCEPT ![c] = @ \cup {r}] /\ IsAckRequired(c, i)
        BY <1>1, <1>7 DEF HearIndividual, HearGroup, HearBroadcast
    <2>2. ~installation.ring => Arrived(installation, c, r)
        BY <1>2, <1>7, RequestHeard
    <2>3. r.side = i
        OBVIOUS
    <2> HIDE DEF r
    <2>4. /\ asked'[c] = asked[c] \cup {r} /\ \A q \in {r} : q.side = i
          /\ \A d \in Coupler \ {c} : asked'[d] = asked[d]
        BY <1>4, <2>1, <2>3
    <2> DEFINE more == {r}
    <2>5. Timely'
        <3>1. /\ asked'[c] = asked[c] \cup more /\ \A q \in more : q.side = i
              /\ \A d \in Coupler \ {c} : asked'[d] = asked[d]
            BY <2>4
        <3> HIDE DEF more
        <3> QED BY <1>2, <2>1, <3>1, HeardInTime
    <2>6. Numbered'
        BY <1>3, <1>4, <2>1, NumberedKept
    <2>7. \A d \in Coupler : \A q \in asked'[d] :
              q \in asked[d] \/ (~installation.ring => Arrived(installation, d, q))
        BY <1>4, <2>1, <2>2
    <2>8. FromOutside'
        BY <1>3, <1>4, <1>5, <2>7, FromOutsideKept
    <2> QED BY <1>6, <2>5, <2>6, <2>8 DEF AnswersInv
<1>8. CASE ~(t.kind = "individual" /\ t.to = address[c])
    <2>1. asked' = asked
        BY <1>1, <1>8 DEF HearIndividual, HearGroup, HearBroadcast
    <2>2. \/ IsAckRequired(c, i)
          \/ couplerType' = [couplerType EXCEPT ![c] = TypeWhenRouting(c)]
          \/ couplerType' = couplerType
        BY <1>1, <1>8 DEF HearIndividual, HearGroup, HearBroadcast
    <2> DEFINE more == {}
    <2>3. /\ asked'[c] = asked[c] \cup more /\ more = {} /\ \A r \in more : r.side = i
          /\ \A d \in Coupler \ {c} : asked'[d] = asked[d]
        BY <2>1
    <2> HIDE DEF more
    <2>4. Timely'
        BY <1>2, <2>1, <2>2, <2>3, HeardInTime
    <2>5. Numbered'
        BY <1>3, <1>4, <2>1, NumberedKept
    <2>6. FromOutside'
        BY <1>3, <1>4, <1>5, <2>1, FromOutsideKept
    <2> QED BY <1>6, <2>4, <2>5, <2>6 DEF AnswersInv
<1> QED BY <1>7, <1>8

LEMMA SendAnswers ==
    ASSUME ConfigInv, TrafficInv, AnswersInv, Send
    PROVE  AnswersInv'
<1>1. PICK kind \in Kind : \E to, form : Originate(kind, to, form)
    BY DEF Send, Kind
<1>2. PICK to, form : Originate(kind, to, form)
    BY <1>1
<1>3. UNCHANGED <<config, couplerType, asked, edits>>
    BY <1>2 DEF Originate
<1>4. UNCHANGED <<installation, address, settings, edits, couplerType, asked>>
    BY <1>3 DEF config
<1>5. PICK line \in DOMAIN installation.device, hop \in Hops :
        air' = air \cup {Telegram(sent + 1, "device", line, kind, installation.device[line], to, hop, form)}
    BY <1>2 DEF Originate
<1> DEFINE t == Telegram(sent + 1, "device", line, kind, installation.device[line], to, hop, form)
<1>6. Outward(installation, t)
    <2>1. /\ t.number = sent + 1 /\ t.via = "device" /\ t.line = line
          /\ t.source = installation.device[line]
        BY TelegramFields
    <2>2. t.unheard \subseteq Coupler /\ sent \in Nat
        BY DEF Telegram, TrafficInv
    <2> HIDE DEF t
    <2> QED BY <2>1, <2>2 DEF Outward, ComesFrom
<1> HIDE DEF t
<1>7. \A u \in air' : (\E v \in air : Fades(u, v)) \/ (~installation.ring => Outward(installation, u))
    BY <1>5, <1>6, StayingTelegrams DEF t
<1>8. Numbered' /\ Untouched' /\ Timely' /\ FromOutside'
    BY <1>4, <1>7, NumberedKept, UntouchedKept, TimelyKept, FromOutsideKept DEF AnswersInv, Numbered
<1> QED BY <1>8 DEF AnswersInv

\* Answers, and requests that are forgotten
LEMMA AnswerAnswers ==
    ASSUME ConfigInv, TrafficInv, AnswersInv, NEW c \in Coupler, Answer(c)
    PROVE  AnswersInv'
<1>1. UNCHANGED <<config, couplerType, edits>>
    BY DEF Answer
<1>2. UNCHANGED <<installation, address, settings, edits, couplerType>>
    BY <1>1 DEF config
<1>3. PICK r \in asked[c] :
        /\ asked' = [asked EXCEPT ![c] = @ \ {r}]
        /\ air' = air \cup
            {u \in {Telegram(0, c, LineAt(c, AnswerSide(c, r.source)), "individual", address[c],
                             r.source, DefaultHop, "plain")} : u.unheard # {}}
    BY DEF Answer
<1> DEFINE t == Telegram(0, c, LineAt(c, AnswerSide(c, r.source)), "individual", address[c],
                         r.source, DefaultHop, "plain")
<1>4. ~installation.ring => Outward(installation, t)
    <2>1. t.number = 0 /\ t.via = c /\ t.to = r.source /\ c \notin t.unheard
        BY TelegramFields DEF Telegram, Kind
    <2>2. ~installation.ring => r.source \in Homes(installation)
        BY DEF AnswersInv, FromOutside, Arrived, Homes
    <2> HIDE DEF t
    <2> QED BY <2>1, <2>2 DEF Outward
<1> HIDE DEF t
<1>5. \A u \in air' : (\E v \in air : Fades(u, v)) \/ (~installation.ring => Outward(installation, u))
    BY <1>3, <1>4, StayingTelegrams DEF t
<1>6. DOMAIN asked' = Coupler /\ \A d \in Coupler : asked'[d] \subseteq asked[d]
    BY <1>3 DEF AnswersInv, Numbered
<1>7. Numbered' /\ Untouched' /\ Timely' /\ FromOutside'
    BY <1>2, <1>5, <1>6, NumberedKept, UntouchedKept, TimelyKept, FromOutsideKept DEF AnswersInv
<1> QED BY <1>7 DEF AnswersInv

\* Changes of the configuration that leave the addresses, the types and the lines alone
LEMMA QuietEditAnswers ==
    ASSUME ConfigInv, TrafficInv, AnswersInv, NEW c \in Coupler,
           EditsOnly(c) \/ \E kind \in {"broadcast", "systemService"} : AnnounceBroadcast(c, kind),
           ~IndividualAddressWrite(c)
    PROVE  AnswersInv'
<1>1. Edit /\ edits \in Nat /\ edits' = edits + 1
    BY DEF EditsOnly, WriteSettings, WriteProxyTable, ConfigureSecureProxy, LoadControl, RouteTableControl,
           AllowTemporaryRoute, RoutingTableControl, AnnounceBroadcast, Edit, ConfigInv
<1>2. UNCHANGED <<installation, address, couplerType, asked>>
    BY DEF EditsOnly, WriteSettings, WriteProxyTable, ConfigureSecureProxy, LoadControl, RouteTableControl,
           AllowTemporaryRoute, RoutingTableControl, AnnounceBroadcast, config, traffic
<1>3. Numbered'
    BY <1>2 DEF AnswersInv, Numbered
<1>4. Untouched'
    BY <1>1 DEF Untouched
<1>5. ASSUME edits' <= 1, address = installation.address, NEW d \in Coupler
      PROVE  InTime(d)'
    <2>1. edits = 0 /\ InTime(d)
        BY <1>1, <1>5 DEF AnswersInv, Timely
    <2>2. EvaluatesType(d)' => EvaluatesType(d)
        BY <1>2, <2>1 DEF EvaluatesType, IsOpen, AnswersInv, Untouched, Side
    <2> QED BY <1>2, <2>1, <2>2 DEF InTime
<1>6. Timely'
    BY <1>2, <1>5 DEF Timely
<1>7. \A u \in air' : (\E v \in air : Fades(u, v)) \/ u.kind # "individual"
    <2>1. SUFFICES ASSUME NEW u \in air', u \notin air PROVE u.kind # "individual"
        BY StayingTelegrams
    <2>2. PICK kind \in {"broadcast", "systemService"} : AnnounceBroadcast(c, kind)
        BY <2>1 DEF EditsOnly, WriteSettings, WriteProxyTable, ConfigureSecureProxy, LoadControl,
                    RouteTableControl, AllowTemporaryRoute, RoutingTableControl, IndividualAddressWrite, traffic
    <2>3. PICK i \in Side :
            u = Telegram(0, c, LineAt(c, i), kind, address[c], Everyone, DefaultHop, "plain")
        BY <2>1, <2>2 DEF AnnounceBroadcast
    <2> QED BY <2>3, TelegramFields DEF Kind
<1>8. \A u \in air' : (\E v \in air : Fades(u, v)) \/ (~installation.ring => Outward(installation, u))
    BY <1>7 DEF Outward
<1>9. FromOutside'
    BY <1>2, <1>8, FromOutsideKept DEF AnswersInv
<1> QED BY <1>3, <1>4, <1>6, <1>9 DEF AnswersInv

\* The ones that do not: a restart forgets the requests with the type.
LEMMA AddressEditAnswers ==
    ASSUME ConfigInv, TrafficInv, AnswersInv, NEW c \in Coupler,
           \/ IndividualAddressWrite(c) \/ Restart(c)
           \/ \E withoutIA \in BOOLEAN : FactoryReset(c, withoutIA)
    PROVE  AnswersInv'
<1>1. Edit /\ edits \in Nat /\ edits' = edits + 1 /\ UNCHANGED <<installation, settings>>
    BY DEF IndividualAddressWrite, Restart, FactoryReset, Edit, ConfigInv, config
<1>2. /\ DOMAIN asked = Coupler /\ DOMAIN address = Coupler /\ DOMAIN couplerType = Coupler
      /\ \A d \in Coupler : address[d][3] = 0 /\ installation.address[d][3] = 0
    BY InstallationAssumption DEF AnswersInv, Numbered, ConfigInv
<1>3. \/ address' = address
      \/ address' = [address EXCEPT ![c] = DefaultAddress]
      \/ address' = [address EXCEPT ![c] = installation.address[c]]
    BY DEF IndividualAddressWrite, Restart, FactoryReset, config
<1>4. \/ UNCHANGED <<asked, air, couplerType>>
      \/ Restarted(c)
    BY DEF IndividualAddressWrite, Restart, FactoryReset, traffic
<1>5. Constructed = "line"
    BY DEF Constructed, EvaluateCouplerType, DefaultAddress
<1>6. DefaultAddress[3] = 0
    BY DEF DefaultAddress
<1>7. Numbered'
    <2>1. DOMAIN asked' = Coupler
        BY <1>2, <1>4 DEF Restarted
    <2>2. DOMAIN address' = Coupler
        BY <1>2, <1>3
    <2>3. ASSUME NEW d \in Coupler
          PROVE  address'[d][3] = 0
        <3>1. address'[d] \in {address[d], DefaultAddress, installation.address[d]}
            BY <1>2, <1>3
        <3> QED BY <1>2, <1>6, <3>1
    <2> QED BY <2>1, <2>2, <2>3 DEF Numbered
<1>8. Untouched'
    BY <1>1 DEF Untouched
<1>9. ASSUME edits' <= 1, address' = installation.address, NEW d \in Coupler
      PROVE  InTime(d)'
    <2>1. edits = 0 /\ address = installation.address
        BY <1>1, <1>9 DEF AnswersInv, Untouched
    <2>2. InTime(d) /\ address'[d] = address[d]
        BY <1>9, <2>1 DEF AnswersInv, Timely
    <2>3. EvaluatesType(d)' => EvaluatesType(d)
        BY <1>1, <2>2 DEF EvaluatesType, IsOpen
    <2>4. CASE UNCHANGED <<asked, couplerType>>
        BY <2>2, <2>3, <2>4 DEF InTime
    <2>5. CASE Restarted(c) /\ d # c
        <3>1. asked'[d] = asked[d] /\ couplerType'[d] = couplerType[d]
            BY <1>2, <2>5 DEF Restarted
        <3> QED BY <2>2, <2>3, <3>1 DEF InTime
    <2>6. CASE Restarted(c) /\ d = c
        <3>1. asked'[d] = {} /\ couplerType'[d] = "line"
            BY <1>2, <1>5, <2>6 DEF Restarted
        <3> QED BY <3>1 DEF InTime
    <2> QED BY <1>4, <2>4, <2>5, <2>6
<1>10. Timely'
    BY <1>1, <1>9 DEF Timely
<1>11. \A u \in air' : \E v \in air : Fades(u, v)
    <2>1. CASE UNCHANGED air
        BY <2>1, StayingTelegrams
    <2>2. CASE Restarted(c)
        BY <2>2, WithoutFades DEF Restarted, WithoutHearer
    <2> QED BY <1>4, <2>1, <2>2
<1>12. \A d \in Coupler : asked'[d] \subseteq asked[d]
    BY <1>2, <1>4 DEF Restarted
<1>13. FromOutside'
    BY <1>1, <1>11, <1>12, FromOutsideKept DEF AnswersInv
<1> QED BY <1>7, <1>8, <1>10, <1>13 DEF AnswersInv

LEMMA NextAnswers ==
    ASSUME ConfigInv, TrafficInv, AnswersInv, [Next]_vars
    PROVE  AnswersInv'
<1>1. ASSUME NEW c \in Coupler, Configure(c)
      PROVE  AnswersInv'
    <2>1. \/ IndividualAddressWrite(c) \/ Restart(c) \/ \E withoutIA \in BOOLEAN : FactoryReset(c, withoutIA)
          \/ EditsOnly(c) \/ \E kind \in {"broadcast", "systemService"} : AnnounceBroadcast(c, kind)
        BY <1>1 DEF Configure, EditsOnly
    <2> QED BY <2>1, QuietEditAnswers, AddressEditAnswers
<1>2. CASE UNCHANGED vars \/ \E c \in Coupler : Expire(c)
    <2>1. UNCHANGED <<config, couplerType, traffic, edits>>
        BY <1>2 DEF vars, Expire
    <2>2. UNCHANGED <<installation, address, settings, edits, couplerType, asked, air>>
        BY <2>1 DEF config, traffic
    <2>3. \A u \in air' : \E v \in air : Fades(u, v)
        BY <2>2, StayingTelegrams
    <2>4. Numbered' /\ Untouched' /\ Timely' /\ FromOutside'
        BY <2>2, <2>3, NumberedKept, UntouchedKept, TimelyKept, FromOutsideKept DEF AnswersInv, Numbered
    <2> QED BY <2>4 DEF AnswersInv
<1> QED BY <1>1, <1>2, SendAnswers, HearAnswers, AnswerAnswers DEF Next

LEMMA InitAnswers == Init => AnswersInv
<1> SUFFICES ASSUME Init PROVE AnswersInv
    OBVIOUS
<1>1. Numbered
    BY InstallationAssumption DEF Init, Numbered
<1>2. Untouched
    BY DEF Init, Untouched
<1>3. Timely
    <2>1. Constructed = "line"
        BY DEF Constructed, EvaluateCouplerType, DefaultAddress
    <2> QED BY <2>1 DEF Init, Timely, InTime
<1>4. FromOutside
    BY DEF Init, FromOutside
<1> QED BY <1>1, <1>2, <1>3, <1>4 DEF AnswersInv

\* While at most one change is made of a network without rings, what a coupler answers goes to
\* the side its request has come from, although what its own stack sends does not evaluate the
\* coupler's type, which is wrong after every start.
THEOREM AnswersAlwaysReturn == Spec => []AnswersReturn
<1>1. CouplerInv /\ AnswersInv => AnswersReturn
    <2> SUFFICES ASSUME ConfigInv, AnswersInv, ~installation.ring, address = installation.address,
                        edits <= 1, NEW c \in Coupler, EvaluatesType(c), NEW r \in asked[c]
                 PROVE  AnswerSide(c, r.source) = r.side
        BY DEF CouplerInv, AnswersReturn, AsInstalled
    <2>1. InTime(c) /\ Arrived(installation, c, r)
        BY DEF AnswersInv, Timely, FromOutside
    <2>2. PICK l \in DOMAIN installation.device :
            r.source = installation.device[l] /\ OnSide(installation, c, r.side, l)
        BY <2>1 DEF Arrived
    <2>3. /\ Place(installation, l) \in Nat /\ Place(installation, LineAt(c, 1)) \in Nat
          /\ Place(installation, LineAt(c, 2)) = Place(installation, LineAt(c, 1)) + 1
          /\ BelowInRow(installation, c, r.source)
                 <=> Place(installation, l) > Place(installation, LineAt(c, 1))
        BY <2>2, CouplerPlace
    <2>4. /\ r.side = 1 => ~BelowInRow(installation, c, r.source)
          /\ r.side = 2 => BelowInRow(installation, c, r.source)
        BY <2>2, <2>3 DEF OnSide, LineAt
    <2>5. /\ couplerType[c] \in {"line", "backbone"} /\ r.side \in Side
          /\ couplerType[c] = "backbone" => address[c][2] = 0
          /\ address[c][2] = 0 /\ r.side = 2 => couplerType[c] = "backbone"
        BY <2>1 DEF ConfigInv, InTime, Arrived
    <2>6. CASE r.side = 1
        <3>1. ~BelowInRow(installation, c, r.source)
            BY <2>4, <2>6
        <3>2. ~IsBelow(c, couplerType[c], r.source)
            BY <2>5, <3>1 DEF BelowInRow, IsBelow, Subnet, Area
        <3> QED BY <2>6, <3>2 DEF AnswerSide
    <2>7. CASE r.side = 2
        <3>1. BelowInRow(installation, c, r.source)
            BY <2>4, <2>7
        <3>2. IsBelow(c, couplerType[c], r.source)
            BY <2>5, <2>7, <3>1 DEF BelowInRow, IsBelow
        <3> QED BY <2>7, <3>2 DEF AnswerSide
    <2> QED BY <2>5, <2>6, <2>7 DEF Side
<1>2. CouplerInv /\ AnswersInv /\ [Next]_vars => AnswersInv'
    BY NextAnswers DEF CouplerInv
<1> QED BY <1>1, <1>2, InitAnswers, CouplerAlways, PTL DEF Spec

=============================================================================
