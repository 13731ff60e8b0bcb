-------------------------- MODULE ManagementProofs --------------------------
(***************************************************************************)
(* The management of a device, for any properties, requests and memory.    *)
(*                                                                         *)
(* A restart restores what is saved: the buffer is written property by     *)
(* property (SavedSoFar) and read back property by property                *)
(* (RestoredSoFar), each time by a fold over SaveOrder.  That reading undoes *)
(* writing is proved by induction over the number of properties; the       *)
(* induction itself is derived from the finiteness of intervals, and the   *)
(* folds are unfolded into the recursive functions that define them.       *)
(***************************************************************************)
EXTENDS Management, FiniteSetTheorems, SequenceTheorems, TLAPS

-----------------------------------------------------------------------------
(* The invariant: the state of a device is what DataProperty::restore expects. *)

Device == [value: [DataProperty -> Seq(Nat)], progMode: Nat, address: Nat, load: 0 .. 3,
           securityMode: BOOLEAN, allocated: BOOLEAN, armed: BOOLEAN,
           memory: [0 .. MemorySize - 1 -> Nat]]

\* Every property has whole elements, and what is not saved its first value.
DeviceInv(dev) ==
    /\ dev \in Device
    /\ \A p \in DataProperty :
          /\ Whole(p, dev.value[p])
          /\ ~Desc[p].writable => dev.value[p] = Factory[p]

ManagementInv == DeviceInv(device) /\ DeviceInv(Restored(saved))

-----------------------------------------------------------------------------
(* Induction *)

\* A set of numbers with 0 and all successors is all of them: below a number that it
\* lacked, its finitely many members would be mapped one to one onto all but 0.
LEMMA Induction ==
    ASSUME NEW S \in SUBSET Nat, 0 \in S, \A n \in S : n + 1 \in S
    PROVE  \A n \in Nat : n \in S
<1> SUFFICES ASSUME NEW p \in Nat, p \notin S PROVE FALSE
    OBVIOUS
<1> DEFINE U == {n \in 0 .. p : n \in S}
           up == [n \in U |-> n + 1]
<1>1. IsFiniteSet(U)
    <2>1. IsFiniteSet(0 .. p)
        BY FS_Interval
    <2> QED
        BY <2>1, FS_Subset
<1>2. up \in Injection(U, U)
    <2>1. up \in [U -> U]
        <3>1. \A n \in U : n # p /\ n + 1 \in 0 .. p
            OBVIOUS
        <3> QED
            BY <3>1
    <2>2. \A x, y \in U : up[x] = up[y] => x = y
        OBVIOUS
    <2> HIDE DEF U, up
    <2> QED
        BY <2>1, <2>2 DEF Injection, IsInjective
<1>3. up \in Surjection(U, U)
    <2> HIDE DEF up
    <2> QED
        BY <1>1, <1>2, FS_Injection
<1>4. 0 \in U
    OBVIOUS
<1>5. PICK x \in U : up[x] = 0
    <2> HIDE DEF up
    <2> QED
        BY <1>3, <1>4 DEF Surjection
<1> QED
    BY <1>5

-----------------------------------------------------------------------------
(* The two folds over SaveOrder, in one: writing the buffer and reading it *)

Step(way, dev, x, p) ==
    IF way = "save" THEN x \o <<Elements(p, dev.value[p])>> \o dev.value[p]
    ELSE RestoreProperty(x, p)

Folded(iter, way, dev, base, S) ==
    iter = [s \in SUBSET S |->
              IF s = {} THEN base
              ELSE Step(way, dev, iter[s \ {Lists!Max(s)}], SaveOrder[Lists!Max(s)])]

\* Without its greatest element a set of the first numbers is one of fewer.
LEMMA WithoutMax ==
    ASSUME NEW n \in Nat, NEW s \in SUBSET (1 .. n), s # {}
    PROVE  /\ Lists!Max(s) \in s
           /\ \A m \in Nat : n <= m + 1 => s \ {Lists!Max(s)} \in SUBSET (1 .. m)
<1>1. \E x \in s : \A y \in s : x >= y
    <2> DEFINE S == {k \in Nat : \A t \in SUBSET (1 .. k) : t # {} => \E x \in t : \A y \in t : x >= y}
    <2>1. 0 \in S
        <3>1. 1 .. 0 = {}
            OBVIOUS
        <3> QED
            BY <3>1
    <2>2. ASSUME NEW k \in S
          PROVE  k + 1 \in S
        <3>1. ASSUME NEW t \in SUBSET (1 .. k + 1), t # {}
              PROVE  \E x \in t : \A y \in t : x >= y
            <4>1. CASE k + 1 \in t
                BY <4>1
            <4>2. CASE k + 1 \notin t
                <5>1. t \in SUBSET (1 .. k)
                    BY <4>2
                <5> QED
                    BY <3>1, <5>1
            <4> QED
                BY <4>1, <4>2
        <3> QED
            BY <3>1
    <2>3. n \in S
        <3> HIDE DEF S
        <3>1. S \in SUBSET Nat
            BY DEF S
        <3> QED
            BY <2>1, <2>2, <3>1, Induction
    <2> QED
        BY <2>3
<1>2. Lists!Max(s) \in s /\ \A y \in s : Lists!Max(s) >= y
    BY <1>1 DEF Lists!Max
<1>3. ASSUME NEW m \in Nat, n <= m + 1, NEW y \in s \ {Lists!Max(s)}
      PROVE  y \in 1 .. m
    <2> DEFINE x == Lists!Max(s)
    <2>1. x \in 1 .. n /\ y \in 1 .. n /\ x >= y /\ y # x
        BY <1>2, <1>3
    <2> HIDE DEF x
    <2> QED
        BY <1>3, <2>1
<1> QED
    BY <1>2, <1>3

\* The fold exists, and goes along the list.
LEMMA FoldExists ==
    ASSUME NEW way, NEW dev, NEW base
    PROVE  \E iter : Folded(iter, way, dev, base, DOMAIN SaveOrder)
<1> DEFINE next(f, s) == IF s = {} THEN base
                         ELSE Step(way, dev, f[s \ {Lists!Max(s)}], SaveOrder[Lists!Max(s)])
           S == {k \in Nat : \E g : g = [s \in SUBSET (1 .. k) |-> next(g, s)]}
<1>1. 0 \in S
    <2> DEFINE g == [s \in SUBSET (1 .. 0) |-> base]
    <2>1. \A s \in SUBSET (1 .. 0) : s = {}
        OBVIOUS
    <2>2. g = [s \in SUBSET (1 .. 0) |-> next(g, s)]
        BY <2>1
    <2> QED
        BY <2>2
<1>2. ASSUME NEW k \in S
      PROVE  k + 1 \in S
    <2>1. PICK g : g = [s \in SUBSET (1 .. k) |-> next(g, s)]
        BY <1>2
    <2> DEFINE h == [s \in SUBSET (1 .. k + 1) |-> next(g, s)]
    <2>2. ASSUME NEW t \in SUBSET (1 .. k)
          PROVE  h[t] = g[t]
        <3>1. t \in SUBSET (1 .. k + 1)
            OBVIOUS
        <3>2. h[t] = next(g, t)
            BY <3>1
        <3> HIDE DEF h
        <3>3. g[t] = next(g, t)
            <4> HIDE DEF next
            <4> QED
                BY <2>1
        <3> QED
            BY <3>2, <3>3
    <2>3. ASSUME NEW s \in SUBSET (1 .. k + 1)
          PROVE  next(g, s) = next(h, s)
        <3> HIDE DEF h
        <3>1. CASE s = {}
            BY <3>1
        <3>2. CASE s # {}
            <4>1. s \ {Lists!Max(s)} \in SUBSET (1 .. k)
                BY <3>2, WithoutMax
            <4> QED
                BY <2>2, <3>2, <4>1
        <3> QED
            BY <3>1, <3>2
    <2>4. h = [s \in SUBSET (1 .. k + 1) |-> next(h, s)]
        <3>1. [s \in SUBSET (1 .. k + 1) |-> next(g, s)] = [s \in SUBSET (1 .. k + 1) |-> next(h, s)]
            <4> HIDE DEF next, h
            <4> QED
                BY <2>3
        <3> QED
            BY <3>1
    <2> HIDE DEF next, h
    <2> QED
        BY <2>4
<1>3. Len(SaveOrder) \in Nat /\ DOMAIN SaveOrder = 1 .. Len(SaveOrder)
    BY ManagementAssumption
<1>4. Len(SaveOrder) \in S
    <2> HIDE DEF S
    <2>1. S \in SUBSET Nat
        BY DEF S
    <2> QED
        BY <1>1, <1>2, <1>3, <2>1, Induction
<1> QED
    BY <1>3, <1>4 DEF Folded

LEMMA FoldSteps ==
    ASSUME NEW way, NEW dev, NEW base, NEW iter, Folded(iter, way, dev, base, DOMAIN SaveOrder)
    PROVE  /\ iter[1 .. 0] = base
           /\ \A k \in 1 .. Len(SaveOrder) :
                 iter[1 .. k] = Step(way, dev, iter[1 .. k - 1], SaveOrder[k])
<1>1. DOMAIN SaveOrder = 1 .. Len(SaveOrder) /\ Len(SaveOrder) \in Nat
    BY ManagementAssumption
<1>2. \A s \in SUBSET (1 .. Len(SaveOrder)) :
          iter[s] = IF s = {} THEN base
                    ELSE Step(way, dev, iter[s \ {Lists!Max(s)}], SaveOrder[Lists!Max(s)])
    BY <1>1 DEF Folded
<1>3. 1 .. 0 = {}
    OBVIOUS
<1>4. iter[1 .. 0] = base
    BY <1>2, <1>3
<1>5. ASSUME NEW k \in 1 .. Len(SaveOrder)
      PROVE  iter[1 .. k] = Step(way, dev, iter[1 .. k - 1], SaveOrder[k])
    <2>1. 1 .. k \in SUBSET (1 .. Len(SaveOrder)) /\ 1 .. k # {}
        <3>1. \A j \in 1 .. k : j \in 1 .. Len(SaveOrder)
            BY <1>1
        <3>2. k \in 1 .. k
            BY <1>1
        <3> QED
            BY <3>1, <3>2
    <2>2. Lists!Max(1 .. k) = k
        <3>1. k \in 1 .. k /\ \A y \in 1 .. k : k >= y
            BY <1>1
        <3>2. \A x \in 1 .. k : (\A y \in 1 .. k : x >= y) => x = k
            BY <1>1
        <3> QED
            BY <3>1, <3>2 DEF Lists!Max
    <2>3. (1 .. k) \ {k} = 1 .. k - 1
        BY <1>1
    <2> QED
        BY <1>2, <2>1, <2>2, <2>3
<1> QED
    BY <1>4, <1>5

-----------------------------------------------------------------------------
(* What is saved is restored. *)

\* The number of elements of whole octets
LEMMA WholeElements ==
    ASSUME NEW p \in DataProperty, NEW v, Whole(p, v)
    PROVE  /\ v \in Seq(Nat) /\ Elements(p, v) \in 0 .. Desc[p].max
           /\ Elements(p, v) * Desc[p].size = Len(v)
<1>1. PICK e \in 0 .. Desc[p].max : Len(v) = e * Desc[p].size
    BY DEF Whole
<1>2. Desc[p].size \in Nat \ {0} /\ Desc[p].max \in Nat
    BY ManagementAssumption DEF DataProperty
<1>3. \A a \in Nat, n \in Nat \ {0} : (a * n) \div n = a
    OBVIOUS
<1>4. Elements(p, v) = e
    BY <1>1, <1>2, <1>3 DEF Elements
<1> QED
    BY <1>1, <1>2, <1>4 DEF Whole

LEMMA InOrder ==
    ASSUME NEW k \in 1 .. Len(SaveOrder)
    PROVE  SaveOrder[k] \in DataProperty
BY ManagementAssumption

LEMMA Appended ==
    ASSUME NEW a \in Seq(Nat), NEW c \in Nat, NEW v \in Seq(Nat)
    PROVE  /\ a \o <<c>> \o v \in Seq(Nat)
           /\ Len(a \o <<c>> \o v) = Len(a) + 1 + Len(v)
           /\ \A i \in 1 .. Len(a) : (a \o <<c>> \o v)[i] = a[i]
           /\ (a \o <<c>> \o v)[Len(a) + 1] = c
           /\ \A i \in 1 .. Len(v) : (a \o <<c>> \o v)[Len(a) + 1 + i] = v[i]
<1> DEFINE b == a \o <<c>>
<1>1. <<c>> \in Seq(Nat) /\ Len(<<c>>) = 1 /\ <<c>>[1] = c
    OBVIOUS
<1>2. b \in Seq(Nat) /\ Len(b) = Len(a) + 1
    BY <1>1, ConcatProperties
<1>3. (\A i \in 1 .. Len(a) : b[i] = a[i]) /\ b[Len(a) + 1] = c
    BY <1>1, ConcatProperties
<1> HIDE DEF b
<1>4. b \o v \in Seq(Nat) /\ Len(b \o v) = Len(b) + Len(v)
    BY <1>2, ConcatProperties
<1>5. \A i \in 1 .. Len(b) + Len(v) : (b \o v)[i] = IF i <= Len(b) THEN b[i] ELSE v[i - Len(b)]
    BY <1>2, ConcatProperties
<1>6. Len(a) \in Nat /\ Len(v) \in Nat
    OBVIOUS
<1>7. \A i \in 1 .. Len(a) : (b \o v)[i] = a[i]
    BY <1>2, <1>3, <1>5, <1>6
<1>8. (b \o v)[Len(a) + 1] = c
    BY <1>2, <1>3, <1>5, <1>6
<1>9. ASSUME NEW i \in 1 .. Len(v)
      PROVE  (b \o v)[Len(a) + 1 + i] = v[i]
    <2>1. Len(a) + 1 + i \in 1 .. Len(b) + Len(v) /\ ~(Len(a) + 1 + i <= Len(b))
          /\ (Len(a) + 1 + i) - Len(b) = i
        BY <1>2, <1>6
    <2> QED
        BY <1>5, <2>1
<1> QED
    BY <1>2, <1>4, <1>7, <1>8, <1>9 DEF b

FrontOf(s, t) == Len(s) <= Len(t) /\ \A i \in 1 .. Len(s) : t[i] = s[i]

\* The buffer only grows: what the first properties wrote stays in front.
LEMMA SavedSoFar ==
    ASSUME NEW dev, DeviceInv(dev), NEW iter, Folded(iter, "save", dev, << >>, DOMAIN SaveOrder)
    PROVE  /\ \A k \in 0 .. Len(SaveOrder) : iter[1 .. k] \in Seq(Nat)
           /\ \A k \in 0 .. Len(SaveOrder) : FrontOf(iter[1 .. k], iter[1 .. Len(SaveOrder)])
           /\ \A k \in 1 .. Len(SaveOrder) :
                 iter[1 .. k] = iter[1 .. k - 1] \o <<Elements(SaveOrder[k], dev.value[SaveOrder[k]])>>
                                \o dev.value[SaveOrder[k]]
<1> DEFINE N    == Len(SaveOrder)
           B(k) == iter[1 .. k]
           c(k) == Elements(SaveOrder[k], dev.value[SaveOrder[k]])
           v(k) == dev.value[SaveOrder[k]]
           S == {k \in Nat : k <= N => B(k) \in Seq(Nat)}
           T == {k \in Nat : k <= N => \A j \in 0 .. k : /\ Len(B(j)) <= Len(B(k))
                                                        /\ \A i \in 1 .. Len(B(j)) : B(k)[i] = B(j)[i]}
<1>1. N \in Nat
    BY ManagementAssumption
<1>2. B(0) = << >>
    BY FoldSteps
<1>3. ASSUME NEW k \in 1 .. N
      PROVE  B(k) = B(k - 1) \o <<c(k)>> \o v(k) /\ c(k) \in Nat /\ v(k) \in Seq(Nat)
    <2>1. B(k) = Step("save", dev, B(k - 1), SaveOrder[k])
        BY FoldSteps
    <2>2. SaveOrder[k] \in DataProperty
        BY InOrder
    <2>3. Whole(SaveOrder[k], dev.value[SaveOrder[k]])
        BY <2>2 DEF DeviceInv
    <2>4. Elements(SaveOrder[k], dev.value[SaveOrder[k]]) \in 0 .. Desc[SaveOrder[k]].max
          /\ dev.value[SaveOrder[k]] \in Seq(Nat)
        BY <2>2, <2>3, WholeElements
    <2> QED
        BY <2>1, <2>4 DEF Step
<1> HIDE DEF B, N, c, v
<1>4. \A k \in Nat : k \in S
    <2>1. S \in SUBSET Nat /\ 0 \in S
        <3>1. << >> \in Seq(Nat)
            OBVIOUS
        <3> QED
            BY <1>2, <3>1
    <2>2. ASSUME NEW k \in S
          PROVE  k + 1 \in S
        <3> SUFFICES ASSUME k + 1 <= N PROVE B(k + 1) \in Seq(Nat)
            OBVIOUS
        <3>1. B(k) \in Seq(Nat) /\ k + 1 \in 1 .. N /\ (k + 1) - 1 = k
            BY <1>1
        <3>2. B(k + 1) = B(k) \o <<c(k + 1)>> \o v(k + 1) /\ c(k + 1) \in Nat /\ v(k + 1) \in Seq(Nat)
            BY <1>3, <3>1
        <3>3. B(k) \in Seq(Nat) /\ c(k + 1) \in Nat /\ v(k + 1) \in Seq(Nat)
            BY <3>1, <3>2
        <3>4. B(k) \o <<c(k + 1)>> \o v(k + 1) \in Seq(Nat)
            BY ONLY <3>3, Appended
        <3> QED
            BY <3>2, <3>4
    <2> HIDE DEF S
    <2> QED
        BY <2>1, <2>2, Induction
<1>5. \A k \in 0 .. N : B(k) \in Seq(Nat)
    BY <1>1, <1>4
<1>6. ASSUME NEW k \in 1 .. N
      PROVE  /\ Len(B(k - 1)) <= Len(B(k))
             /\ \A i \in 1 .. Len(B(k - 1)) : B(k)[i] = B(k - 1)[i]
    <2>1. B(k) = B(k - 1) \o <<c(k)>> \o v(k) /\ c(k) \in Nat /\ v(k) \in Seq(Nat)
        BY <1>3
    <2>2. k - 1 \in 0 .. N
        BY <1>1
    <2>3. B(k - 1) \in Seq(Nat) /\ Len(B(k - 1)) \in Nat /\ Len(v(k)) \in Nat
        BY <1>5, <2>1, <2>2
    <2> QED
        BY <2>1, <2>3, Appended
<1>7. \A k \in Nat : k \in T
    <2>1. T \in SUBSET Nat /\ 0 \in T
        BY <1>2
    <2>2. ASSUME NEW k \in T
          PROVE  k + 1 \in T
        <3> SUFFICES ASSUME k + 1 <= N, NEW j \in 0 .. k + 1
                     PROVE  /\ Len(B(j)) <= Len(B(k + 1))
                            /\ \A i \in 1 .. Len(B(j)) : B(k + 1)[i] = B(j)[i]
            OBVIOUS
        <3>1. k + 1 \in 1 .. N /\ (k + 1) - 1 = k /\ k \in Nat
            BY <1>1
        <3>2. /\ Len(B(k)) <= Len(B(k + 1))
              /\ \A i \in 1 .. Len(B(k)) : B(k + 1)[i] = B(k)[i]
            BY <1>6, <3>1
        <3>3. CASE j = k + 1
            <4>1. Len(B(k + 1)) \in Nat
                BY <1>5, <3>1
            <4> QED
                BY <3>3, <4>1
        <3>4. CASE j \in 0 .. k
            <4>1. /\ Len(B(j)) <= Len(B(k))
                  /\ \A i \in 1 .. Len(B(j)) : B(k)[i] = B(j)[i]
                BY <1>1, <3>1, <3>4
            <4>2. Len(B(j)) \in Nat /\ Len(B(k)) \in Nat /\ Len(B(k + 1)) \in Nat
                BY <1>1, <1>5, <3>1, <3>4
            <4> HIDE DEF T
            <4> QED
                BY <3>2, <4>1, <4>2
        <3> QED
            BY <3>1, <3>3, <3>4
    <2> HIDE DEF T
    <2> QED
        BY <2>1, <2>2, Induction
<1>8. \A k \in 0 .. N : /\ Len(B(k)) <= Len(B(N))
                        /\ \A i \in 1 .. Len(B(k)) : B(N)[i] = B(k)[i]
    BY <1>1, <1>7
<1> QED
    <2>1. \A k \in 0 .. N : FrontOf(B(k), B(N))
        BY <1>8 DEF FrontOf
    <2> QED
        BY <1>3, <1>5, <2>1 DEF B, N, c, v

\* What is left of a sequence behind its first m octets
LEMMA Behind ==
    ASSUME NEW b \in Seq(Nat), NEW m \in 0 .. Len(b)
    PROVE  /\ SubSeq(b, m + 1, Len(b)) \in Seq(Nat)
           /\ Len(SubSeq(b, m + 1, Len(b))) = Len(b) - m
           /\ \A i \in 1 .. Len(b) - m : SubSeq(b, m + 1, Len(b))[i] = b[m + i]
<1>1. Len(b) \in Nat /\ m + 1 \in Int /\ \A i \in m + 1 .. Len(b) : b[i] \in Nat
    OBVIOUS
<1> DEFINE t == SubSeq(b, m + 1, Len(b))
<1>2. /\ t \in Seq(Nat)
      /\ Len(t) = IF m + 1 <= Len(b) THEN Len(b) - (m + 1) + 1 ELSE 0
      /\ \A i \in 1 .. Len(b) - (m + 1) + 1 : t[i] = b[m + 1 + i - 1]
    BY <1>1, SubSeqProperties
<1> HIDE DEF t
<1>3. Len(t) = Len(b) - m /\ \A i \in 1 .. Len(b) - m : t[i] = b[m + i]
    <2>1. Len(b) - (m + 1) + 1 = Len(b) - m /\ \A i \in Int : m + 1 + i - 1 = m + i
        BY <1>1
    <2>2. Len(t) = Len(b) - m
        BY <1>1, <1>2
    <2>3. ASSUME NEW i \in 1 .. Len(b) - m
          PROVE  t[i] = b[m + i]
        <3>1. i \in 1 .. Len(b) - (m + 1) + 1 /\ m + 1 + i - 1 = m + i
            BY <2>1
        <3>2. t[i] = b[m + 1 + i - 1]
            BY <1>2, <3>1
        <3> QED
            BY <3>1, <3>2
    <2> QED
        BY <2>2, <2>3
<1> QED
    BY <1>2, <1>3 DEF t

\* DataProperty::restore at the place where DataProperty::save wrote
LEMMA ReadsWhatWasWritten ==
    ASSUME NEW p \in DataProperty, NEW v, Whole(p, v), NEW values, NEW rest \in Seq(Nat),
           1 + Len(v) <= Len(rest),
           rest[1] = Elements(p, v), \A i \in 1 .. Len(v) : rest[1 + i] = v[i]
    PROVE  RestoreProperty([value |-> values, rest |-> rest], p)
             = [value |-> [values EXCEPT ![p] = v], rest |-> SubSeq(rest, 1 + Len(v) + 1, Len(rest))]
<1>1. v \in Seq(Nat) /\ Elements(p, v) \in Nat /\ Elements(p, v) * Desc[p].size = Len(v)
    BY WholeElements, ManagementAssumption, SMTT(60) DEF DataProperty
<1>2. Head(rest) = rest[1]
    <2>1. rest # << >>
        BY <1>1
    <2> QED
        BY <2>1
<1>3. Head(rest) * Desc[p].size = Len(v)
    BY <1>1, <1>2
<1> DEFINE t == SubSeq(rest, 2, 1 + Len(v))
<1>4. t = v
    <2>1. Len(v) \in Nat /\ \A i \in 2 .. 1 + Len(v) : rest[i] \in Nat
        BY <1>1
    <2>2. /\ t \in Seq(Nat)
          /\ Len(t) = IF 2 <= 1 + Len(v) THEN 1 + Len(v) - 2 + 1 ELSE 0
          /\ \A i \in 1 .. 1 + Len(v) - 2 + 1 : t[i] = rest[2 + i - 1]
        BY <2>1, SubSeqProperties
    <2> HIDE DEF t
    <2>3. Len(t) = Len(v)
        BY <2>1, <2>2
    <2>4. ASSUME NEW i \in 1 .. Len(t)
          PROVE  t[i] = v[i]
        <3>1. i \in 1 .. 1 + Len(v) - 2 + 1 /\ 2 + i - 1 = 1 + i /\ i \in 1 .. Len(v)
            BY <2>1, <2>3
        <3>2. t[i] = rest[2 + i - 1]
            BY <2>2, <3>1
        <3> QED
            BY <3>1, <3>2
    <2> QED
        BY <1>1, <2>2, <2>3, <2>4, SeqEqual
<1>5. 2 + Len(v) = 1 + Len(v) + 1
    BY <1>1
<1> QED
    BY <1>3, <1>4, <1>5 DEF RestoreProperty

\* The properties read so far have their saved values, and the rest of the buffer is
\* what the others wrote.
RestoredOf(dev, created, k) ==
    [p \in DataProperty |-> IF \E i \in 1 .. k : SaveOrder[i] = p THEN dev.value[p] ELSE created[p]]

LEMMA RestoredSoFar ==
    ASSUME NEW dev, DeviceInv(dev), NEW created, DOMAIN created = DataProperty,
           created = [p \in DataProperty |-> created[p]],
           NEW iter, Folded(iter, "save", dev, << >>, DOMAIN SaveOrder),
           NEW back, Folded(back, "restore", dev,
                            [value |-> created, rest |-> iter[1 .. Len(SaveOrder)]], DOMAIN SaveOrder)
    PROVE  back[1 .. Len(SaveOrder)].value = RestoredOf(dev, created, Len(SaveOrder))
<1> DEFINE N    == Len(SaveOrder)
           B(k) == iter[1 .. k]
           R(k) == SubSeq(B(N), Len(B(k)) + 1, Len(B(N)))
           M(k) == RestoredOf(dev, created, k)
           S == {k \in Nat : k <= N => back[1 .. k] = [value |-> M(k), rest |-> R(k)]}
<1>1. N \in Nat
    BY ManagementAssumption
<1>2. \A k \in 0 .. N : B(k) \in Seq(Nat) /\ Len(B(k)) \in Nat
    <2>1. \A k \in 0 .. N : B(k) \in Seq(Nat)
        BY ONLY SavedSoFar, DeviceInv(dev), Folded(iter, "save", dev, << >>, DOMAIN SaveOrder)
    <2> HIDE DEF B, N
    <2> QED
        BY <2>1
<1>3. \A k \in 0 .. N : /\ Len(B(k)) <= Len(B(N))
                        /\ \A i \in 1 .. Len(B(k)) : B(N)[i] = B(k)[i]
    <2>1. \A k \in 0 .. N : FrontOf(B(k), B(N))
        BY ONLY SavedSoFar, DeviceInv(dev), Folded(iter, "save", dev, << >>, DOMAIN SaveOrder)
    <2> HIDE DEF B, N
    <2> QED
        BY <2>1 DEF FrontOf
<1>4. 0 \in S
    <2>1. back[1 .. 0] = [value |-> created, rest |-> B(N)]
        BY FoldSteps
    <2>2. B(0) = << >>
        BY FoldSteps
    <2>3. R(0) = B(N)
        <3>1. Len(B(0)) + 1 = 1 /\ B(N) \in Seq(Nat)
            BY <1>1, <1>2, <2>2
        <3> HIDE DEF B, N
        <3> QED
            BY <3>1, SubSeqFull
    <2>4. M(0) = created
        <3>1. 1 .. 0 = {}
            OBVIOUS
        <3> QED
            BY <3>1 DEF RestoredOf
    <2> HIDE DEF B, N, R, M
    <2> QED
        BY <2>1, <2>3, <2>4
<1>5. ASSUME NEW k \in 1 .. N, back[1 .. k - 1] = [value |-> M(k - 1), rest |-> R(k - 1)]
      PROVE  back[1 .. k] = [value |-> M(k), rest |-> R(k)]
    <2> DEFINE p == SaveOrder[k]
               v == dev.value[p]
               a == B(k - 1)
               b == B(N)
    <2>1. p \in DataProperty /\ Whole(p, v)
        BY InOrder DEF DeviceInv
    <2>2. v \in Seq(Nat) /\ Elements(p, v) \in Nat
        <3>1. v \in Seq(Nat) /\ Elements(p, v) \in 0 .. Desc[p].max
            BY <2>1, WholeElements
        <3> QED
            BY <3>1
    <2>3. k - 1 \in 0 .. N /\ k \in 0 .. N /\ N \in 0 .. N
        BY <1>1
    <2>4. a \in Seq(Nat) /\ b \in Seq(Nat) /\ Len(a) <= Len(b) /\ Len(B(k)) <= Len(b)
          /\ Len(a) \in Nat /\ Len(b) \in Nat
        BY <1>2, <1>3, <2>3
    <2>5. B(k) = a \o <<Elements(p, v)>> \o v
        BY SavedSoFar
    <2>6. \A i \in 1 .. Len(B(k)) : b[i] = B(k)[i]
        BY <1>3, <2>3
    <2>7. back[1 .. k] = RestoreProperty(back[1 .. k - 1], p)
        <3>1. back[1 .. k] = Step("restore", dev, back[1 .. k - 1], p)
            BY FoldSteps
        <3> QED
            BY <3>1 DEF Step
    <2>8. M(k) = [M(k - 1) EXCEPT ![p] = v]
        <3>1. \A i \in 1 .. k : i \in 1 .. k - 1 \/ i = k
            BY <1>1
        <3>2. \A i \in 1 .. k - 1 : i \in 1 .. k
            BY <1>1
        <3>3. k \in 1 .. k
            BY <1>1
        <3> QED
            BY <2>1, <3>1, <3>2, <3>3, ZenonT(60) DEF RestoredOf
    <2> DEFINE c == Elements(p, v)
               rest == SubSeq(b, Len(a) + 1, Len(b))
    <2> HIDE DEF c, p, v, a, b, M, B, N
    <2>9. Len(B(k)) = Len(a) + 1 + Len(v) /\ Len(v) \in Nat
          /\ B(k)[Len(a) + 1] = c /\ \A i \in 1 .. Len(v) : B(k)[Len(a) + 1 + i] = v[i]
        <3>1. a \in Seq(Nat) /\ c \in Nat /\ v \in Seq(Nat)
            BY <2>2, <2>4 DEF c
        <3>2. /\ Len(a \o <<c>> \o v) = Len(a) + 1 + Len(v)
              /\ (a \o <<c>> \o v)[Len(a) + 1] = c
              /\ \A i \in 1 .. Len(v) : (a \o <<c>> \o v)[Len(a) + 1 + i] = v[i]
            BY ONLY <3>1, Appended
        <3>3. B(k) = a \o <<c>> \o v /\ Len(v) \in Nat
            BY <2>5, <3>1 DEF c
        <3> QED
            BY <3>2, <3>3
    <2>17. Len(a) \in Nat /\ Len(b) \in Nat /\ Len(v) \in Nat /\ Len(B(k)) \in Nat
           /\ Len(B(k)) = Len(a) + 1 + Len(v) /\ Len(B(k)) <= Len(b)
        BY <2>4, <2>9
    <2>10. /\ rest \in Seq(Nat) /\ Len(rest) = Len(b) - Len(a)
           /\ \A i \in 1 .. Len(b) - Len(a) : rest[i] = b[Len(a) + i]
        BY <2>4, Behind
    <2> HIDE DEF rest
    <2>11. 1 + Len(v) <= Len(rest)
        BY <2>4, <2>9, <2>10
    <2>12. rest[1] = c
        <3>1. 1 \in 1 .. Len(b) - Len(a) /\ Len(a) + 1 \in 1 .. Len(B(k))
            BY <2>4, <2>9
        <3> QED
            BY <2>6, <2>9, <2>10, <3>1
    <2>13. \A i \in 1 .. Len(v) : rest[1 + i] = v[i]
        <3> TAKE i \in 1 .. Len(v)
        <3>1. i \in Nat /\ i >= 1 /\ i <= Len(v)
            BY <2>9
        <3>2. 1 + i \in 1 .. Len(b) - Len(a)
            BY <2>4, <2>9, <3>1, SMTT(60)
        <3>3. Len(a) + 1 + i \in 1 .. Len(B(k)) /\ Len(a) + (1 + i) = Len(a) + 1 + i
            BY ONLY <2>17, <3>1
        <3>4. rest[1 + i] = b[Len(a) + (1 + i)]
            BY <2>10, <3>2
        <3> QED
            BY <2>6, <2>9, <3>3, <3>4
    <2>14. RestoreProperty([value |-> M(k - 1), rest |-> rest], p)
             = [value |-> [M(k - 1) EXCEPT ![p] = v], rest |-> SubSeq(rest, 1 + Len(v) + 1, Len(rest))]
        <3>1. p \in DataProperty /\ Whole(p, v) /\ rest \in Seq(Nat) /\ 1 + Len(v) <= Len(rest)
              /\ rest[1] = Elements(p, v)
            BY <2>1, <2>10, <2>11, <2>12 DEF c
        <3> QED
            BY ONLY <2>13, <3>1, ReadsWhatWasWritten
    <2>15. SubSeq(rest, 1 + Len(v) + 1, Len(rest)) = SubSeq(b, Len(B(k)) + 1, Len(b))
        <3> DEFINE x == SubSeq(rest, 1 + Len(v) + 1, Len(rest))
                   y == SubSeq(b, Len(B(k)) + 1, Len(b))
        <3>1. 1 + Len(v) \in 0 .. Len(rest) /\ Len(B(k)) \in 0 .. Len(b)
            BY <2>4, <2>9, <2>11
        <3>2. /\ x \in Seq(Nat) /\ Len(x) = Len(rest) - (1 + Len(v))
              /\ \A i \in 1 .. Len(rest) - (1 + Len(v)) : x[i] = rest[1 + Len(v) + i]
            BY <2>10, <3>1, Behind
        <3>3. /\ y \in Seq(Nat) /\ Len(y) = Len(b) - Len(B(k))
              /\ \A i \in 1 .. Len(b) - Len(B(k)) : y[i] = b[Len(B(k)) + i]
            BY <2>4, <3>1, Behind
        <3> HIDE DEF x, y
        <3>4. Len(x) = Len(y)
            BY <2>4, <2>9, <2>10, <3>2, <3>3
        <3>5. ASSUME NEW i \in 1 .. Len(x)
              PROVE  x[i] = y[i]
            <4>1. i \in Nat /\ i >= 1 /\ i <= Len(b) - Len(B(k)) /\ Len(B(k)) \in Nat
                BY <2>4, <2>9, <3>3, <3>4
            <4>2. i \in 1 .. Len(rest) - (1 + Len(v)) /\ i \in 1 .. Len(b) - Len(B(k))
                BY <2>4, <2>9, <3>2, <3>4, <4>1
            <4>3. 1 + Len(v) + i \in 1 .. Len(b) - Len(a)
                BY ONLY <2>17, <4>1
            <4>4. Len(a) + (1 + Len(v) + i) = Len(B(k)) + i
                BY <2>4, <2>9, <4>1
            <4>5. x[i] = rest[1 + Len(v) + i] /\ y[i] = b[Len(B(k)) + i]
                BY <3>2, <3>3, <4>2
            <4>6. rest[1 + Len(v) + i] = b[Len(a) + (1 + Len(v) + i)]
                BY <2>10, <4>3
            <4> QED
                BY <4>4, <4>5, <4>6
        <3> QED
            BY <3>2, <3>3, <3>4, <3>5, SeqEqual DEF x, y
    <2>16. R(k) = SubSeq(b, Len(B(k)) + 1, Len(b)) /\ R(k - 1) = rest
        BY DEF rest, b, a
    <2> HIDE DEF R
    <2> QED
        BY <1>5, <2>7, <2>8, <2>14, <2>15, <2>16
<1>6. \A k \in Nat : k \in S
    <2>1. S \in SUBSET Nat
        OBVIOUS
    <2>2. ASSUME NEW k \in S
          PROVE  k + 1 \in S
        <3> SUFFICES ASSUME k + 1 <= N
                     PROVE  back[1 .. k + 1] = [value |-> M(k + 1), rest |-> R(k + 1)]
            OBVIOUS
        <3>1. k + 1 \in 1 .. N /\ (k + 1) - 1 = k /\ k <= N
            BY <1>1
        <3>2. back[1 .. k] = [value |-> M(k), rest |-> R(k)]
            BY <3>1
        <3> HIDE DEF S, M, R, N
        <3> QED
            BY <1>5, <3>1, <3>2
    <2> HIDE DEF S
    <2> QED
        BY <1>4, <2>1, <2>2, Induction
<1> QED
    <2>1. N \in S
        BY <1>1, <1>6
    <2>2. back[1 .. N] = [value |-> M(N), rest |-> R(N)]
        BY <1>1, <2>1
    <2> HIDE DEF S, M, R
    <2> QED
        BY <2>2 DEF M

LEMMA Joined ==
    ASSUME NEW s \in Seq(Nat), NEW t \in Seq(Nat), NEW b, b = s \o t
    PROVE  /\ b \in Seq(Nat) /\ Len(b) = Len(s) + Len(t)
           /\ \A i \in 1 .. Len(s) + Len(t) : b[i] = IF i <= Len(s) THEN s[i] ELSE t[i - Len(s)]
BY ConcatProperties

\* Sequences written one behind the other: what stands in front of them, the three
\* fields of the object, and all the rest
FieldsOf(b, a, f, w) ==
    /\ b[Len(a) + 1] = f[1] /\ b[Len(a) + 2] = f[2] /\ b[Len(a) + 3] = f[3]
    /\ SubSeq(b, Len(a) + 4, Len(b)) = w

LEMMA ThreeFields ==
    ASSUME NEW a \in Seq(Nat), NEW f \in Seq(Nat), Len(f) = 3, NEW w \in Seq(Nat)
    PROVE  FieldsOf(a \o f \o w, a, f, w)
<1> DEFINE h == a \o f
           b == a \o f \o w
<1>2. Len(a) \in Nat /\ Len(w) \in Nat
    OBVIOUS
<1>3. h \in Seq(Nat) /\ Len(h) = Len(a) + 3
      /\ \A i \in 1 .. Len(a) + Len(f) : h[i] = IF i <= Len(a) THEN a[i] ELSE f[i - Len(a)]
    <2>1. h = a \o f
        OBVIOUS
    <2> HIDE DEF h
    <2>2. h \in Seq(Nat) /\ Len(h) = Len(a) + Len(f)
          /\ \A i \in 1 .. Len(a) + Len(f) : h[i] = IF i <= Len(a) THEN a[i] ELSE f[i - Len(a)]
        BY ONLY <2>1, a \in Seq(Nat), f \in Seq(Nat), Joined
    <2> QED
        BY <2>2
<1>4. b = h \o w
    OBVIOUS
<1> HIDE DEF h, b
<1>5. b \in Seq(Nat) /\ Len(b) = Len(h) + Len(w)
      /\ \A i \in 1 .. Len(h) + Len(w) : b[i] = IF i <= Len(h) THEN h[i] ELSE w[i - Len(h)]
    <2>1. h \in Seq(Nat)
        BY <1>3
    <2> QED
        BY ONLY <1>4, <2>1, w \in Seq(Nat), Joined
<1>6. \A j \in 1 .. 3 : b[Len(a) + j] = f[j]
    <2> TAKE j \in 1 .. 3
    <2>1. /\ Len(a) + j \in 1 .. Len(h) + Len(w) /\ Len(a) + j <= Len(h)
          /\ Len(a) + j \in 1 .. Len(a) + Len(f) /\ ~(Len(a) + j <= Len(a)) /\ (Len(a) + j) - Len(a) = j
        BY <1>2, <1>3
    <2> QED
        BY <1>3, <1>5, <2>1
<1>7. SubSeq(b, Len(a) + 4, Len(b)) = w
    <2> DEFINE t == SubSeq(b, Len(h) + 1, Len(b))
    <2>1. Len(h) \in 0 .. Len(b) /\ Len(a) + 4 = Len(h) + 1
        BY <1>2, <1>3, <1>5
    <2>2. t \in Seq(Nat) /\ Len(t) = Len(b) - Len(h) /\ \A i \in 1 .. Len(b) - Len(h) : t[i] = b[Len(h) + i]
        BY <1>5, <2>1, Behind
    <2> HIDE DEF t
    <2>3. Len(t) = Len(w)
        BY <1>2, <1>3, <1>5, <2>2
    <2>4. ASSUME NEW i \in 1 .. Len(t)
          PROVE  t[i] = w[i]
        <3>1. Len(h) \in Nat /\ i \in 1 .. Len(b) - Len(h) /\ Len(h) + i \in 1 .. Len(h) + Len(w)
              /\ ~(Len(h) + i <= Len(h)) /\ (Len(h) + i) - Len(h) = i
            BY <1>2, <1>3, <1>5, <2>3, SMTT(60)
        <3> QED
            BY <1>5, <2>2, <3>1
    <2>5. t = w
        BY <2>2, <2>3, <2>4, SeqEqual
    <2> QED
        BY <2>1, <2>5 DEF t
<1>8. 1 \in 1 .. 3 /\ 2 \in 1 .. 3 /\ 3 \in 1 .. 3
    OBVIOUS
<1>9. b[Len(a) + 1] = f[1] /\ b[Len(a) + 2] = f[2] /\ b[Len(a) + 3] = f[3]
    BY ONLY <1>6, <1>8
<1>10. FieldsOf(b, a, f, w)
    BY ONLY <1>7, <1>9 DEF FieldsOf
<1> QED
    BY <1>10 DEF b

\* Everything that is saved comes back; the rest is as after a start.
LEMMA SavedIsRestored ==
    ASSUME NEW dev, DeviceInv(dev), NEW undefined \in Garbage
    PROVE  Restored(Saved(dev, undefined)) =
             [Fresh(dev.memory) EXCEPT !.value = dev.value, !.load = dev.load, !.address = dev.address,
                                       !.securityMode = dev.securityMode, !.allocated = dev.allocated]
<1> DEFINE D == DOMAIN SaveOrder
           N == Len(SaveOrder)
           writer == CHOOSE iter :
               iter = [s \in SUBSET DOMAIN SaveOrder |->
                         IF s = {} THEN << >>
                         ELSE iter[s \ {Lists!Max(s)}]
                              \o <<Elements(SaveOrder[Lists!Max(s)], dev.value[SaveOrder[Lists!Max(s)]])>>
                              \o dev.value[SaveOrder[Lists!Max(s)]]]
           version == IF dev.value[Version] = << >> THEN undefined ELSE dev.value[Version]
           flag == IF dev.securityMode THEN 1 ELSE 0
           nvm  == Saved(dev, undefined)
           size == Desc[Version].size
           created == [Factory EXCEPT ![Version] = SubSeq(nvm.buffer, 1, size)]
           base == [value |-> created, rest |-> SubSeq(nvm.buffer, size + 4, Len(nvm.buffer))]
           reader == CHOOSE iter :
               iter = [s \in SUBSET DOMAIN SaveOrder |->
                         IF s = {} THEN base
                         ELSE RestoreProperty(iter[s \ {Lists!Max(s)}], SaveOrder[Lists!Max(s)])]
<1>1. Folded(writer, "save", dev, << >>, D)
    <2>1. PICK iter : Folded(iter, "save", dev, << >>, D)
        BY FoldExists
    <2>2. iter = [s \in SUBSET DOMAIN SaveOrder |->
                         IF s = {} THEN << >>
                         ELSE iter[s \ {Lists!Max(s)}]
                              \o <<Elements(SaveOrder[Lists!Max(s)], dev.value[SaveOrder[Lists!Max(s)]])>>
                              \o dev.value[SaveOrder[Lists!Max(s)]]]
        BY <2>1 DEF Folded, Step
    <2>3. writer = [s \in SUBSET DOMAIN SaveOrder |->
                         IF s = {} THEN << >>
                         ELSE writer[s \ {Lists!Max(s)}]
                              \o <<Elements(SaveOrder[Lists!Max(s)], dev.value[SaveOrder[Lists!Max(s)]])>>
                              \o dev.value[SaveOrder[Lists!Max(s)]]]
        BY <2>2
    <2> HIDE DEF writer
    <2> QED
        BY <2>3 DEF Folded, Step
<1>2. Folded(reader, "restore", dev, base, D)
    <2> HIDE DEF base
    <2>1. PICK iter : Folded(iter, "restore", dev, base, D)
        BY FoldExists
    <2>2. iter = [s \in SUBSET DOMAIN SaveOrder |->
                         IF s = {} THEN base
                         ELSE RestoreProperty(iter[s \ {Lists!Max(s)}], SaveOrder[Lists!Max(s)])]
        BY <2>1 DEF Folded, Step
    <2>3. reader = [s \in SUBSET DOMAIN SaveOrder |->
                         IF s = {} THEN base
                         ELSE RestoreProperty(reader[s \ {Lists!Max(s)}], SaveOrder[Lists!Max(s)])]
        BY <2>2
    <2> HIDE DEF reader
    <2> QED
        BY <2>3 DEF Folded, Step
<1>3. D = 1 .. N /\ N \in Nat
    BY ManagementAssumption
<1>4. nvm = [buffer |-> version \o <<dev.load, dev.address, flag>> \o writer[D],
             memory |-> dev.memory, allocated |-> dev.allocated]
    BY DEF Saved, Lists!FoldLeft, Lists!MapThenFoldSet
<1>5. Restored(nvm) =
        [Fresh(nvm.memory) EXCEPT !.value = reader[D].value, !.load = nvm.buffer[size + 1],
                                  !.address = nvm.buffer[size + 2],
                                  !.securityMode = nvm.buffer[size + 3] = 1, !.allocated = nvm.allocated]
    <2> HIDE DEF nvm
    <2> QED
        BY DEF Restored, Lists!FoldLeft, Lists!MapThenFoldSet
<1> HIDE DEF writer, reader, nvm
<1>6. version \in Seq(Nat) /\ Len(version) = size
    <2>1. size \in Nat \ {0} /\ Version \in DataProperty /\ Desc[Version].max = 1 /\ Octet \subseteq Nat
        BY ManagementAssumption DEF DataProperty
    <2>2. undefined \in Seq(Nat) /\ Len(undefined) = size
        BY <2>1 DEF Garbage
    <2>3. PICK e \in 0 .. 1 : Len(dev.value[Version]) = e * size /\ dev.value[Version] \in Seq(Nat)
        BY <2>1 DEF DeviceInv, Whole
    <2>4. dev.value[Version] # << >> => Len(dev.value[Version]) = size
        BY <2>1, <2>3
    <2> QED
        BY <2>2, <2>3, <2>4
<1>7. dev.load \in Nat /\ dev.address \in Nat /\ flag \in Nat /\ dev.securityMode \in BOOLEAN
    BY DEF DeviceInv, Device
<1>8. writer[1 .. N] \in Seq(Nat)
    <2>1. N \in 0 .. N
        BY <1>3
    <2> QED
        BY ONLY <1>1, <2>1, DeviceInv(dev), SavedSoFar
<1>9. /\ nvm.buffer[size + 1] = dev.load /\ nvm.buffer[size + 2] = dev.address
      /\ nvm.buffer[size + 3] = flag
      /\ SubSeq(nvm.buffer, size + 4, Len(nvm.buffer)) = writer[1 .. N]
    <2>1. nvm.buffer = version \o <<dev.load, dev.address, flag>> \o writer[1 .. N]
        BY <1>3, <1>4
    <2> DEFINE buffer == nvm.buffer
               values == writer[1 .. N]
               fields == <<dev.load, dev.address, flag>>
    <2>5. /\ fields \in Seq(Nat) /\ Len(fields) = 3
          /\ fields[1] = dev.load /\ fields[2] = dev.address /\ fields[3] = flag
        BY <1>7
    <2> HIDE DEF version, flag, size, buffer, values, fields
    <2>3. /\ version \in Seq(Nat) /\ fields \in Seq(Nat) /\ Len(fields) = 3
          /\ values \in Seq(Nat) /\ buffer = version \o fields \o values
        BY <1>6, <1>8, <2>1, <2>5 DEF buffer, values, fields
    <2>6. FieldsOf(version \o fields \o values, version, fields, values)
        BY ONLY <2>3, ThreeFields
    <2>4. /\ buffer[Len(version) + 1] = fields[1] /\ buffer[Len(version) + 2] = fields[2]
          /\ buffer[Len(version) + 3] = fields[3]
          /\ SubSeq(buffer, Len(version) + 4, Len(buffer)) = values
        BY ONLY <2>3, <2>6 DEF FieldsOf
    <2>2. /\ nvm.buffer[Len(version) + 1] = dev.load /\ nvm.buffer[Len(version) + 2] = dev.address
          /\ nvm.buffer[Len(version) + 3] = flag
          /\ SubSeq(nvm.buffer, Len(version) + 4, Len(nvm.buffer)) = writer[1 .. N]
        BY <2>4, <2>5 DEF buffer, values
    <2> QED
        BY <1>6, <2>2
<1>10. nvm.memory = dev.memory /\ nvm.allocated = dev.allocated
    BY <1>4
<1>11. (nvm.buffer[size + 3] = 1) = dev.securityMode
    BY <1>7, <1>9
<1>12. reader[D].value = RestoredOf(dev, created, N)
    <2>1. DOMAIN created = DataProperty /\ created = [p \in DataProperty |-> created[p]]
        BY ManagementAssumption
    <2>2. base = [value |-> created, rest |-> writer[1 .. N]]
        BY <1>9
    <2>3. Folded(reader, "restore", dev, [value |-> created, rest |-> writer[1 .. N]], D)
        BY <1>2, <2>2
    <2> HIDE DEF created, base
    <2>4. reader[1 .. N].value = RestoredOf(dev, created, N)
        BY ONLY <1>1, <2>1, <2>3, DeviceInv(dev), RestoredSoFar
    <2> QED
        BY <1>3, <2>4
<1>13. RestoredOf(dev, created, N) = dev.value
    <2>1. dev.value \in [DataProperty -> Seq(Nat)]
        BY DEF DeviceInv, Device
    <2>2. ASSUME NEW p \in DataProperty
          PROVE  (IF \E i \in 1 .. N : SaveOrder[i] = p THEN dev.value[p] ELSE created[p]) = dev.value[p]
        <3>1. CASE Desc[p].writable
            <4>1. p \in Lists!ToSet(SaveOrder)
                BY <3>1, ManagementAssumption
            <4>2. \E i \in 1 .. N : SaveOrder[i] = p
                BY <1>3, <4>1 DEF Lists!ToSet
            <4> QED
                BY <4>2
        <3>2. CASE ~Desc[p].writable
            <4>1. p # Version /\ DOMAIN Factory = DataProperty
                BY <3>2, ManagementAssumption
            <4>2. created[p] = Factory[p]
                BY <4>1
            <4> QED
                BY <3>2, <4>2 DEF DeviceInv
        <3> QED
            BY <3>1, <3>2
    <2> HIDE DEF created
    <2> QED
        BY <2>1, <2>2 DEF RestoredOf
<1> HIDE DEF created, base, version, flag, size
<1> QED
    BY <1>5, <1>9, <1>10, <1>11, <1>12, <1>13, ZenonT(60) DEF nvm

-----------------------------------------------------------------------------
(* The steps of a device keep its invariant. *)

LEMMA Products ==
    ASSUME NEW a \in Nat, NEW b \in Nat, NEW n \in Nat
    PROVE  /\ a * n \in Nat /\ (a + b) * n = a * n + b * n
           /\ a <= b => a * n <= b * n
<1>1. \A x \in Nat : x * n \in Nat
    OBVIOUS
<1>2. (a + b) * n = a * n + b * n
    OBVIOUS
<1>3. ASSUME a <= b
      PROVE  a * n <= b * n
    <2>1. PICK c \in Nat : b = a + c
        <3>1. b - a \in Nat /\ b = a + (b - a)
            BY <1>3
        <3> QED
            BY <3>1
    <2>2. (a + c) * n = a * n + c * n
        OBVIOUS
    <2>3. a * n \in Nat /\ c * n \in Nat
        BY <1>1
    <2> QED
        BY <2>1, <2>2, <2>3
<1> QED
    BY <1>1, <1>2, <1>3

\* A write leaves whole elements.
LEMMA SplicedWhole ==
    ASSUME NEW p \in DataProperty, NEW v, Whole(p, v), NEW start \in Nat \ {0}, NEW n \in Nat,
           Fits(p, start, n), NEW d \in Seq(Nat), Len(d) = n * Desc[p].size
    PROVE  Whole(p, Spliced(v, (start - 1) * Desc[p].size, d))
<1> DEFINE s     == Desc[p].size
           first == (start - 1) * s
           m     == IF first + Len(d) > Len(v) THEN first + Len(d) ELSE Len(v)
           w     == Spliced(v, first, d)
<1>1. s \in Nat /\ Desc[p].max \in Nat
    BY ManagementAssumption DEF DataProperty
<1>2. start - 1 \in Nat /\ (start - 1) + n \in 0 .. Desc[p].max
    BY <1>1 DEF Fits
<1>3. first \in Nat /\ first + Len(d) = ((start - 1) + n) * s
    <2> DEFINE x == start - 1
    <2>1. x \in Nat /\ n \in Nat /\ s \in Nat
        BY <1>1, <1>2
    <2>2. first = x * s /\ Len(d) = n * s /\ (start - 1) + n = x + n
        OBVIOUS
    <2> HIDE DEF x, s, first
    <2>3. x * s \in Nat /\ (x + n) * s = x * s + n * s
        BY <2>1, Products
    <2> QED
        BY <2>2, <2>3
<1>4. PICK e \in 0 .. Desc[p].max : Len(v) = e * s
    BY DEF Whole
<1>5. v \in Seq(Nat) /\ Len(v) \in Nat
    BY DEF Whole
<1>6. m \in Nat /\ \E k \in 0 .. Desc[p].max : m = k * s
    <2> HIDE DEF s, first
    <2> QED
        BY <1>2, <1>3, <1>4, <1>5
<1>7. w = [i \in 1 .. m |-> IF i > first /\ i <= first + Len(d) THEN d[i - first]
                            ELSE IF i <= Len(v) THEN v[i] ELSE 0]
    BY DEF Spliced
<1> HIDE DEF s, first, m, w
<1>8. ASSUME NEW i \in 1 .. m
      PROVE  (IF i > first /\ i <= first + Len(d) THEN d[i - first]
              ELSE IF i <= Len(v) THEN v[i] ELSE 0) \in Nat
    <2>1. i \in Nat /\ i >= 1 /\ Len(d) \in Nat
        BY <1>6
    <2>2. CASE i > first /\ i <= first + Len(d)
        <3>1. i - first \in 1 .. Len(d)
            BY <1>3, <2>1, <2>2
        <3> QED
            BY <2>2, <3>1
    <2>3. CASE ~(i > first /\ i <= first + Len(d)) /\ i <= Len(v)
        <3>1. i \in 1 .. Len(v)
            BY <1>5, <2>1, <2>3
        <3> QED
            BY <1>5, <2>3, <3>1
    <2> QED
        BY <2>2, <2>3
<1>9. w \in [1 .. m -> Nat]
    BY <1>7, <1>8
<1>10. w \in Seq(Nat) /\ Len(w) = m
    BY <1>6, <1>9
<1>11. Whole(p, w)
    BY <1>6, <1>10 DEF Whole, s
<1> QED
    BY <1>11 DEF w, first, s

\* An element more or less of the values of a device
LEMMA ValueKept ==
    ASSUME NEW dev, DeviceInv(dev), NEW p \in DataProperty, NEW v, Whole(p, v), Desc[p].writable
    PROVE  DeviceInv([dev EXCEPT !.value[p] = v])
<1>1. v \in Seq(Nat)
    BY DEF Whole
<1>2. [dev EXCEPT !.value[p] = v] = [dev EXCEPT !.value = [dev.value EXCEPT ![p] = v]]
    BY DEF DeviceInv, Device
<1>3. [dev.value EXCEPT ![p] = v] \in [DataProperty -> Seq(Nat)]
    BY <1>1 DEF DeviceInv, Device
<1>4. [dev EXCEPT !.value[p] = v] \in Device
    BY <1>2, <1>3 DEF DeviceInv, Device
<1>5. [dev EXCEPT !.value[p] = v].value = [dev.value EXCEPT ![p] = v]
    BY <1>2 DEF DeviceInv, Device
<1> QED
    BY <1>4, <1>5 DEF DeviceInv, Device

LEMMA DataWriteKeeps ==
    ASSUME NEW dev, DeviceInv(dev), NEW p \in DataProperty, Desc[p].writable,
           NEW start \in Nat, NEW n \in Nat, NEW d \in Seq(Nat),
           start # 0 => n * Desc[p].size <= Len(d)
    PROVE  DeviceInv(DataWrite(dev, p, start, n, d).device)
<1> DEFINE s == Desc[p].size
<1>1. s \in Nat /\ Desc[p].max \in Nat
    BY ManagementAssumption DEF DataProperty
<1>2. Whole(p, dev.value[p])
    BY DEF DeviceInv
<1>3. CASE ~Fits(p, start, n) \/ (start = 0 /\ ~(n = 1 /\ d[1] = 0 /\ d[2] = 0))
    BY <1>3 DEF DataWrite, Wrote
<1>4. CASE start = 0 /\ Fits(p, start, n) /\ n = 1 /\ d[1] = 0 /\ d[2] = 0
    <2>1. Whole(p, << >>)
        BY <1>1 DEF Whole
    <2>2. DataWrite(dev, p, start, n, d).device = [dev EXCEPT !.value[p] = << >>]
        BY <1>4 DEF DataWrite, Wrote
    <2> QED
        BY <2>1, <2>2, ValueKept
<1>5. CASE start # 0 /\ Fits(p, start, n)
    <2> DEFINE b == SubSeq(d, 1, n * s)
    <2>1. n * s \in 0 .. Len(d)
        <3>1. n * s \in Nat
            BY <1>1, Products
        <3> QED
            BY <1>5, <3>1
    <2>2. b \in Seq(Nat) /\ Len(b) = n * s
        <3> HIDE DEF s
        <3>1. n * s \in Nat /\ n * s <= Len(d) /\ \A i \in 1 .. n * s : d[i] \in Nat
            BY <2>1
        <3> QED
            BY <3>1, SubSeqProperties
    <2>3. Whole(p, Spliced(dev.value[p], (start - 1) * s, b))
        <3> HIDE DEF b
        <3> QED
            BY <1>2, <1>5, <2>2, SplicedWhole
    <2>4. DataWrite(dev, p, start, n, d).device
            = [dev EXCEPT !.value[p] = Spliced(dev.value[p], (start - 1) * s, b)]
        BY <1>5 DEF DataWrite, Wrote, DeviceInv, Device
    <2> HIDE DEF s, b
    <2> QED
        BY <2>3, <2>4, ValueKept
<1> QED
    BY <1>3, <1>4, <1>5

\* The other fields
LEMMA FieldsKept ==
    ASSUME NEW dev, DeviceInv(dev), NEW new \in Device, new.value = dev.value
    PROVE  DeviceInv(new)
BY DEF DeviceInv

\* The program's memory is freed or given, and its saving armed or not.
Allocating(dev, given, armed) == [dev EXCEPT !.allocated = given, !.armed = armed]

LEMMA AllocatedSet ==
    ASSUME NEW dev \in Device, NEW given \in BOOLEAN, NEW armed \in BOOLEAN
    PROVE  LET new == Allocating(dev, given, armed)
           IN /\ new \in Device /\ new.value = dev.value /\ new.address = dev.address
              /\ new.securityMode = dev.securityMode /\ new.load = dev.load /\ new.allocated = given
BY DEF Device, Allocating

LEMMA LoadEventKeeps ==
    ASSUME NEW dev, DeviceInv(dev), NEW d \in Seq(Nat)
    PROVE  DeviceInv(LoadEvent(dev, d).device)
<1> DEFINE To(s) == [dev EXCEPT !.load = s]
           freed == [To(Unloaded) EXCEPT !.allocated = FALSE, !.armed = @ \/ dev.allocated]
           given == [dev EXCEPT !.allocated = d[3] > 0, !.armed = @ \/ dev.allocated]
           new   == LoadEvent(dev, d).device
<1>1. dev \in Device
    BY DEF DeviceInv
<1>2. \A s \in 0 .. 3 : To(s) \in Device /\ To(s).value = dev.value
    BY <1>1 DEF Device
<1> DEFINE arm == dev.armed \/ dev.allocated
           any == d[3] > 0
<1>a. arm \in BOOLEAN /\ any \in BOOLEAN
    BY <1>1 DEF Device
<1>3. freed \in Device /\ freed.value = dev.value
    <2>1. To(Unloaded) \in Device /\ To(Unloaded).value = dev.value /\ To(Unloaded).armed = dev.armed
        BY <1>1 DEF Device, Unloaded
    <2>2. freed = Allocating(To(Unloaded), FALSE, arm)
        BY <2>1 DEF Allocating
    <2> HIDE DEF To, freed, arm
    <2>3. freed \in Device /\ freed.value = To(Unloaded).value
        BY ONLY <1>a, <2>1, <2>2, AllocatedSet
    <2> QED
        BY <2>1, <2>3
<1>4. given \in Device /\ given.value = dev.value
    <2>1. given = Allocating(dev, any, arm)
        BY <1>1 DEF Device, Allocating
    <2> HIDE DEF given, any, arm
    <2> QED
        BY ONLY <1>1, <1>a, <2>1, AllocatedSet
<1>5. new \in {To(Failed), To(Loading), To(Loaded), To(Unloaded), freed, given, dev}
    <2>1. LoadEvent(dev, d) \in {Wrote(1, To(Failed), FALSE), Wrote(1, To(Loading), FALSE),
             Wrote(1, To(Loaded), TRUE), Wrote(1, To(Unloaded), FALSE), Wrote(1, freed, FALSE),
             Wrote(1, given, FALSE), Wrote(1, dev, FALSE)}
        <3> HIDE DEF freed, given, To
        <3> QED
            BY DEF LoadEvent, freed, given, To
    <2> HIDE DEF freed, given, To
    <2> QED
        BY <2>1 DEF Wrote
<1>6. new \in Device /\ new.value = dev.value
    <2>1. {Failed, Loading, Loaded, Unloaded} \subseteq 0 .. 3
        BY DEF Failed, Loading, Loaded, Unloaded
    <2> HIDE DEF freed, given, To, new
    <2> QED
        BY <1>1, <1>2, <1>3, <1>4, <1>5, <2>1
<1> QED
    BY <1>6, FieldsKept

LEMMA PropertyWriteKeeps ==
    ASSUME NEW dev, DeviceInv(dev), NEW p \in Property, Desc[p].writable,
           NEW start \in Nat, NEW n \in Nat, NEW d \in Seq(Nat),
           start # 0 => n * Desc[p].size <= Len(d)
    PROVE  DeviceInv(PropertyWrite(dev, p, start, n, d).device)
<1>1. CASE Desc[p].kind = "data"
    <2>1. p \in DataProperty
        BY <1>1 DEF DataProperty
    <2> QED
        BY <1>1, <2>1, DataWriteKeeps DEF PropertyWrite
<1>2. CASE Desc[p].kind = "progmode" /\ Fits(p, start, n) /\ start # 0
    <2>1. n \in Nat \ {0} /\ Desc[p].size \in Nat \ {0}
        BY <1>2, ManagementAssumption DEF Fits
    <2>2. 1 <= Len(d)
        <3> DEFINE s == Desc[p].size
        <3>1. \A x, y \in Nat \ {0} : 1 <= x * y /\ x * y \in Nat
            OBVIOUS
        <3>2. 1 <= n * s /\ n * s \in Nat /\ n * s <= Len(d) /\ Len(d) \in Nat
            BY <1>2, <2>1, <3>1
        <3> HIDE DEF s
        <3> QED
            BY <3>2
    <2>3. d[1] \in Nat
        BY <2>2
    <2>4. [dev EXCEPT !.progMode = d[1]] \in Device
          /\ [dev EXCEPT !.progMode = d[1]].value = dev.value
        BY <2>3 DEF DeviceInv, Device
    <2>5. DeviceInv([dev EXCEPT !.progMode = d[1]])
        BY <2>4, FieldsKept
    <2> QED
        BY <1>2, <2>5 DEF PropertyWrite, Wrote
<1>3. CASE Desc[p].kind = "control" /\ Fits(p, start, n)
    BY <1>3, LoadEventKeeps DEF PropertyWrite
<1>4. CASE ~(Desc[p].kind = "data") /\ ~(Desc[p].kind = "progmode" /\ Fits(p, start, n) /\ start # 0)
           /\ ~(Desc[p].kind = "control" /\ Fits(p, start, n))
    <2>1. PropertyWrite(dev, p, start, n, d).device = dev
        BY <1>4 DEF PropertyWrite, Wrote
    <2> QED
        BY <2>1
<1> QED
    BY <1>1, <1>2, <1>3, <1>4

\* What unloading the program makes of the memory
LEMMA ClearedKeeps ==
    ASSUME NEW dev, DeviceInv(dev)
    PROVE  /\ Cleared(dev) \in Device
           /\ Cleared(dev).value = dev.value /\ Cleared(dev).address = dev.address
           /\ Cleared(dev).securityMode = dev.securityMode
           /\ Cleared(dev).load = Unloaded /\ Cleared(dev).allocated = FALSE
<1> DEFINE memory == [a \in DOMAIN dev.memory |->
                        IF dev.allocated /\ a >= AppStart THEN 0 ELSE dev.memory[a]]
<1>1. dev \in Device /\ dev.memory \in [0 .. MemorySize - 1 -> Nat]
    BY DEF DeviceInv, Device
<1>2. memory \in [0 .. MemorySize - 1 -> Nat]
    BY <1>1
<1>3. Cleared(dev) = [dev EXCEPT !.memory = memory, !.allocated = FALSE,
                                 !.armed = dev.armed \/ dev.allocated, !.load = Unloaded]
    BY <1>1 DEF Cleared, Device
<1> DEFINE arm  == dev.armed \/ dev.allocated
           cut  == [dev EXCEPT !.memory = memory]
           rest == [cut EXCEPT !.load = Unloaded]
<1> HIDE DEF memory
<1>4. arm \in BOOLEAN
    BY <1>1 DEF Device
<1>5. /\ rest \in Device /\ rest.value = dev.value /\ rest.address = dev.address
      /\ rest.securityMode = dev.securityMode /\ rest.load = Unloaded
    <2>1. /\ cut \in Device /\ cut.value = dev.value /\ cut.address = dev.address
          /\ cut.securityMode = dev.securityMode
        BY <1>1, <1>2 DEF Device
    <2> HIDE DEF cut
    <2> QED
        BY <2>1 DEF Device, Unloaded
<1>6. Cleared(dev) = Allocating(rest, FALSE, arm)
    BY <1>1, <1>3 DEF Device, Allocating
<1> HIDE DEF rest, arm
<1>7. /\ Cleared(dev) \in Device /\ Cleared(dev).value = rest.value
      /\ Cleared(dev).address = rest.address /\ Cleared(dev).securityMode = rest.securityMode
      /\ Cleared(dev).load = rest.load /\ Cleared(dev).allocated = FALSE
    <2> DEFINE new == Allocating(rest, FALSE, arm)
    <2>1. rest \in Device /\ FALSE \in BOOLEAN
        BY <1>5
    <2>2. /\ new \in Device /\ new.value = rest.value /\ new.address = rest.address
          /\ new.securityMode = rest.securityMode /\ new.load = rest.load /\ new.allocated = FALSE
        BY ONLY <1>4, <2>1, AllocatedSet
    <2> HIDE DEF new
    <2> QED
        BY ONLY <1>6, <2>2 DEF new
<1> QED
    BY <1>5, <1>7

\* doMasterReset: what it names is reset, and all else stays.
ResetOf(new, dev, code) ==
    /\ new.address = IF code \in {"ResetIA", "FactoryReset"} THEN DefaultAddress ELSE dev.address
    /\ new.value = IF code \in Factories
                   THEN [p \in DataProperty |-> AfterFactoryReset(p, dev.value[p])]
                   ELSE dev.value
    /\ new.securityMode = (dev.securityMode /\ code \notin Factories)
    /\ IF code \in Factories \cup {"ResetAP", "ResetParam"}
       THEN new.load = Unloaded /\ new.allocated = FALSE
       ELSE new.load = dev.load /\ new.allocated = dev.allocated /\ new.memory = dev.memory

LEMMA MasterResetKeeps ==
    ASSUME NEW dev, DeviceInv(dev), NEW code
    PROVE  DeviceInv(MasterReset(dev, code)) /\ ResetOf(MasterReset(dev, code), dev, code)
<1> DEFINE addressed == IF code \in {"ResetIA", "FactoryReset"}
                        THEN [dev EXCEPT !.address = DefaultAddress] ELSE dev
           clears    == code \in Factories \cup {"ResetAP", "ResetParam"}
           unloaded  == IF clears THEN Cleared(addressed) ELSE addressed
           values    == [p \in DataProperty |-> AfterFactoryReset(p, dev.value[p])]
<1>1. dev \in Device /\ DefaultAddress \in Nat
    BY ManagementAssumption DEF DeviceInv
<1>2. /\ addressed \in Device /\ addressed.value = dev.value
      /\ addressed.address = IF code \in {"ResetIA", "FactoryReset"} THEN DefaultAddress ELSE dev.address
      /\ addressed.securityMode = dev.securityMode /\ addressed.load = dev.load
      /\ addressed.allocated = dev.allocated /\ addressed.memory = dev.memory
    BY <1>1 DEF Device
<1>3. DeviceInv(addressed)
    <2> HIDE DEF addressed
    <2> QED
        BY <1>2, FieldsKept
<1> HIDE DEF addressed
<1>4. /\ unloaded \in Device /\ unloaded.value = dev.value /\ unloaded.address = addressed.address
      /\ unloaded.securityMode = dev.securityMode
      /\ IF clears THEN unloaded.load = Unloaded /\ unloaded.allocated = FALSE
         ELSE /\ unloaded.load = dev.load /\ unloaded.allocated = dev.allocated
              /\ unloaded.memory = dev.memory
    BY <1>2, <1>3, ClearedKeeps
<1>5. ASSUME NEW p \in DataProperty
      PROVE  /\ Whole(p, AfterFactoryReset(p, dev.value[p]))
             /\ ~Desc[p].writable => AfterFactoryReset(p, dev.value[p]) = dev.value[p]
    <2>1. /\ Desc[p].size \in Nat \ {0} /\ Desc[p].max \in Nat \ {0}
          /\ Desc[p].reset \in {"kept", "zeroed", "emptied"}
          /\ ~Desc[p].writable => Desc[p].reset = "kept" /\ p # Domain
          /\ DefaultDomain \in Seq(Nat) /\ Len(DefaultDomain) = Desc[Domain].size
        BY ManagementAssumption DEF DataProperty
    <2>2. CASE p = Domain
        <3>1. 1 \in 0 .. Desc[p].max /\ Len(DefaultDomain) = 1 * Desc[p].size
            BY <2>1, <2>2
        <3> QED
            BY <2>1, <2>2, <3>1 DEF AfterFactoryReset, Whole
    <2>3. CASE p # Domain /\ Desc[p].reset = "zeroed"
        <3> DEFINE m == Desc[p].max * Desc[p].size
                   z == [i \in 1 .. m |-> 0]
        <3>1. m \in Nat /\ Desc[p].max \in 0 .. Desc[p].max
            BY <2>1, Products
        <3> HIDE DEF m
        <3>2. z \in Seq(Nat) /\ Len(z) = m
            BY <3>1
        <3>3. AfterFactoryReset(p, dev.value[p]) = z
            BY <2>3 DEF AfterFactoryReset, m
        <3> HIDE DEF z
        <3>4. Whole(p, z)
            BY <3>1, <3>2 DEF Whole, m
        <3> QED
            BY <2>1, <2>3, <3>3, <3>4
    <2>4. CASE p # Domain /\ Desc[p].reset = "emptied"
        <3>1. << >> \in Seq(Nat) /\ Len(<< >>) = 0 * Desc[p].size /\ 0 \in 0 .. Desc[p].max
            BY <2>1
        <3> QED
            BY <2>1, <2>4, <3>1 DEF AfterFactoryReset, Whole
    <2>5. CASE p # Domain /\ Desc[p].reset = "kept"
        BY <2>5 DEF AfterFactoryReset, DeviceInv
    <2> QED
        BY <2>1, <2>2, <2>3, <2>4, <2>5
<1>6. DeviceInv(unloaded)
    BY <1>4, FieldsKept
<1>7. CASE code \notin Factories
    <2>1. MasterReset(dev, code) = unloaded
        BY <1>7 DEF MasterReset, addressed
    <2>2. dev.securityMode \in BOOLEAN
        BY <1>1 DEF Device
    <2> HIDE DEF unloaded
    <2> QED
        BY <1>2, <1>4, <1>6, <1>7, <2>1, <2>2 DEF ResetOf
<1>8. CASE code \in Factories
    <2>1. MasterReset(dev, code) = [unloaded EXCEPT !.value = [p \in DOMAIN unloaded.value |->
                                        AfterFactoryReset(p, unloaded.value[p])], !.securityMode = FALSE]
        BY <1>8, <1>4 DEF MasterReset, addressed, Device
    <2>2. DOMAIN unloaded.value = DataProperty
        BY <1>4 DEF Device
    <2> HIDE DEF unloaded
    <2>3. MasterReset(dev, code) = [unloaded EXCEPT !.value = values, !.securityMode = FALSE]
        BY <1>4, <2>1, <2>2
    <2>4. values \in [DataProperty -> Seq(Nat)]
        BY <1>5 DEF Whole
    <2>5. \A p \in DataProperty : Whole(p, values[p]) /\ (~Desc[p].writable => values[p] = Factory[p])
        BY <1>5 DEF DeviceInv
    <2> HIDE DEF values
    <2> DEFINE new == MasterReset(dev, code)
    <2>6. /\ new \in Device /\ new.value = values /\ new.securityMode = FALSE
          /\ new.address = unloaded.address
          /\ new.load = Unloaded /\ new.allocated = FALSE
        BY <1>4, <1>8, <2>3, <2>4 DEF Device
    <2> HIDE DEF new
    <2>7. DeviceInv(new)
        BY <2>5, <2>6 DEF DeviceInv
    <2> QED
        BY <1>2, <1>4, <1>8, <2>6, <2>7 DEF new, values, ResetOf
<1> QED
    BY <1>7, <1>8

LEMMA FreshDevice ==
    ASSUME NEW memory \in [0 .. MemorySize - 1 -> Nat]
    PROVE  DeviceInv(Fresh(memory))
<1>1. DOMAIN Factory = DataProperty /\ DefaultAddress \in Nat
      /\ \A p \in DataProperty : Whole(p, Factory[p])
    BY ManagementAssumption
<1>2. \A p \in DataProperty : Factory[p] \in Seq(Nat)
    BY <1>1 DEF Whole
<1>3. Factory \in [DataProperty -> Seq(Nat)]
    <2>1. Factory = [p \in DataProperty |-> Factory[p]]
        BY ManagementAssumption
    <2> QED
        BY <1>2, <2>1
<1>4. Fresh(memory) \in Device /\ Fresh(memory).value = Factory
    BY <1>1, <1>3 DEF Fresh, Device, Unloaded
<1> HIDE DEF Fresh
<1> QED
    BY <1>1, <1>4 DEF DeviceInv, Fresh

\* A restart after saving changes the programming mode only, and what was going to
\* be saved is saved.
SavedFieldsOf(new, dev) ==
    /\ new.value = dev.value /\ new.address = dev.address /\ new.load = dev.load
    /\ new.securityMode = dev.securityMode /\ new.allocated = dev.allocated
    /\ new.memory = dev.memory

LEMMA RestoredKeeps ==
    ASSUME NEW dev, DeviceInv(dev), NEW undefined \in Garbage
    PROVE  /\ DeviceInv(Restored(Saved(dev, undefined)))
           /\ SavedFieldsOf(Restored(Saved(dev, undefined)), dev)
<1> DEFINE new == Restored(Saved(dev, undefined))
<1>1. new = [Fresh(dev.memory) EXCEPT !.value = dev.value, !.load = dev.load, !.address = dev.address,
                                      !.securityMode = dev.securityMode, !.allocated = dev.allocated]
    BY SavedIsRestored
<1> HIDE DEF new
<1>2. dev \in Device
    BY DEF DeviceInv
<1>3. new = [value |-> dev.value, progMode |-> 0, address |-> dev.address, load |-> dev.load,
             securityMode |-> dev.securityMode, allocated |-> dev.allocated, armed |-> FALSE,
             memory |-> dev.memory]
    BY <1>1 DEF Fresh
<1>4. new \in Device /\ SavedFieldsOf(new, dev)
    BY <1>2, <1>3 DEF Device, SavedFieldsOf
<1>5. DeviceInv(new)
    BY <1>4, FieldsKept DEF SavedFieldsOf
<1> QED
    BY <1>4, <1>5 DEF new

-----------------------------------------------------------------------------
(* What a service may leave *)

\* What the application layer hands on
Typed(q) ==
    /\ q.service # "none" /\ q.tool \in BOOLEAN
    /\ q.start \in Nat /\ q.count \in Nat /\ q.address \in Nat /\ q.data \in Seq(Nat)
    /\ q.service = "DomainAddressSerialNumberWrite" => Len(q.data) = Desc[Domain].size
    /\ q.service = "PropertyValueWrite" /\ q.p \in DataProperty => Len(q.data) <= PlainLimit

LEMMA AskedFor ==
    ASSUME NEW services, NEW q \in Asked(services)
    PROVE  Typed(q) /\ q.service \in services
<1>1. PICK s \in services \cap DOMAIN Request : q \in Request[s]
    BY DEF Asked
<1>2. s # "none" /\ q.service = s
    BY <1>1, RequestAssumption
<1> QED
    BY <1>1, <1>2, RequestAssumption DEF Typed

Entitled(q) == q.tool \/ (ProgMode /\ (device.securityMode => q.service = "IndividualAddressWrite"))

\* The invariant holds again, and if anything has changed then somebody entitled asked.
Kept(q) ==
    /\ ManagementInv'
    /\ last'.request = q
    /\ <<device', saved'>> # <<device, saved>> => Entitled(q)

LEMMA FinishKeeps ==
    ASSUME ManagementInv, NEW q, NEW dev, DeviceInv(dev), Entitled(q), NEW saves, NEW answer,
           Finish(q, dev, saves, answer)
    PROVE  Kept(q)
<1>1. last'.request = q /\ device' = dev
    BY DEF Finish, Counted
<1>2. saved' = saved \/ \E undefined \in Garbage : saved' = Saved(dev, undefined)
    BY DEF Finish
<1>3. DeviceInv(Restored(saved'))
    BY <1>2, RestoredKeeps DEF ManagementInv
<1> QED
    BY <1>1, <1>3 DEF Kept, ManagementInv

LEMMA TellKeeps ==
    ASSUME ManagementInv, NEW q, NEW answer, Tell(q, answer)
    PROVE  Kept(q)
<1>1. last'.request = q /\ device' = device /\ saved' = saved
    BY DEF Tell, Finish, Counted
<1> QED
    BY <1>1 DEF Kept, ManagementInv

LEMMA ChangeKeeps ==
    ASSUME ManagementInv, NEW q, NEW dev, DeviceInv(dev), dev = device \/ Entitled(q), NEW answer,
           Finish(q, dev, FALSE, answer)
    PROVE  Kept(q)
<1>1. last'.request = q /\ device' = dev /\ saved' = saved
    BY DEF Finish, Counted
<1> QED
    BY <1>1 DEF Kept, ManagementInv

\* A write is answered for somebody entitled, or it changes nothing.
LEMMA WrittenKeeps ==
    ASSUME ManagementInv, NEW q, Typed(q), NEW answer,
           Finish(q, Written(q).device, Written(q).saves, answer)
    PROVE  Kept(q)
<1>1. CASE PropertyWriteAllowed(q.p, q) /\ ~Short(q)
    <2>1. Entitled(q) /\ q.p \in Property /\ Desc[q.p].writable
        BY <1>1 DEF PropertyWriteAllowed, ManagementWriteAllowed, Entitled
    <2>2. q.start # 0 => q.count * Desc[q.p].size <= Len(q.data)
        <3> DEFINE n == q.count * Desc[q.p].size
        <3>1. n \in Nat /\ Len(q.data) \in Nat
            <4>1. Desc[q.p].size \in Nat /\ q.count \in Nat /\ q.data \in Seq(Nat)
                BY <2>1, ManagementAssumption DEF Typed
            <4> QED
                BY <4>1, Products
        <3>2. q.start # 0 => ~(n > Len(q.data))
            BY <1>1 DEF Short
        <3> HIDE DEF n
        <3>3. q.start # 0 => n <= Len(q.data)
            BY <3>1, <3>2
        <3> QED
            BY <3>3 DEF n
    <2>3. DeviceInv(PropertyWrite(device, q.p, q.start, q.count, q.data).device)
        BY <2>1, <2>2, PropertyWriteKeeps DEF ManagementInv, Typed
    <2>4. DeviceInv(Written(q).device)
        BY <1>1, <2>3 DEF Written
    <2> QED
        BY <2>1, <2>4, FinishKeeps
<1>2. CASE ~(PropertyWriteAllowed(q.p, q) /\ ~Short(q))
    <2>1. Finish(q, device, FALSE, answer)
        BY <1>2 DEF Written, Wrote
    <2> QED
        BY <2>1, TellKeeps DEF Tell
<1> QED
    BY <1>1, <1>2

-----------------------------------------------------------------------------
(* The services *)

\* Those that only read
LEMMA ReadsKeep ==
    ASSUME ManagementInv, NEW q
    PROVE  /\ PropertyValueRead(q) => Kept(q)
           /\ PropertyValueExtRead(q) => Kept(q)
           /\ LocalRead(q) => Kept(q)
           /\ FunctionPropertyState(q) => Kept(q)
           /\ FunctionPropertyExtState(q) => Kept(q)
           /\ LocalFunction(q) => Kept(q)
           /\ MemoryRead(q) => Kept(q)
           /\ MemoryExtRead(q) => Kept(q)
           /\ BroadcastRead(q) => Kept(q)
           /\ Enquiry(q) => Kept(q)
<1>1. PropertyValueRead(q) => Kept(q)
    BY TellKeeps DEF PropertyValueRead
<1>2. PropertyValueExtRead(q) => Kept(q)
    BY TellKeeps DEF PropertyValueExtRead
<1>3. LocalRead(q) => Kept(q)
    BY TellKeeps DEF LocalRead
<1>4. FunctionPropertyState(q) => Kept(q)
    BY TellKeeps DEF FunctionPropertyState
<1>5. FunctionPropertyExtState(q) => Kept(q)
    BY TellKeeps DEF FunctionPropertyExtState
<1>6. LocalFunction(q) => Kept(q)
    BY TellKeeps DEF LocalFunction
<1>7. MemoryRead(q) => Kept(q)
    BY TellKeeps DEF MemoryRead
<1>8. MemoryExtRead(q) => Kept(q)
    BY TellKeeps DEF MemoryExtRead
<1>9. BroadcastRead(q) => Kept(q)
    BY TellKeeps DEF BroadcastRead
<1>10. Enquiry(q) => Kept(q)
    BY TellKeeps DEF Enquiry
<1> QED
    BY <1>1, <1>2, <1>3, <1>4, <1>5, <1>6, <1>7, <1>8, <1>9, <1>10

LEMMA PropertyWritesKeep ==
    ASSUME ManagementInv, NEW q, Typed(q)
    PROVE  /\ PropertyValueWrite(q) => Kept(q)
           /\ PropertyValueExtWrite(q) => Kept(q)
           /\ LocalWrite(q) => Kept(q)
<1>1. PropertyValueWrite(q) => Kept(q)
    BY WrittenKeeps DEF PropertyValueWrite
<1>2. PropertyValueExtWrite(q) => Kept(q)
    BY WrittenKeeps DEF PropertyValueExtWrite
<1>3. LocalWrite(q) => Kept(q)
    BY WrittenKeeps DEF LocalWrite
<1> QED
    BY <1>1, <1>2, <1>3

LEMMA ModeResults ==
    ASSUME NEW d
    PROVE  LET r == ModeCommand(d)
           IN \/ r.device = device
              \/ r.device = [device EXCEPT !.securityMode = d[3] = 1] /\ r.code = "Success"
<1> DEFINE r    == ModeCommand(d)
           set  == [device EXCEPT !.securityMode = d[3] = 1]
<1>1. \A dev, code, x : ModeResult(dev, code, x).device = dev /\ ModeResult(dev, code, x).code = code
    BY DEF ModeResult
<1>2. \/ r = ModeResult(device, "", << >>) \/ r = ModeResult(device, "DataVoid", << >>)
      \/ r = ModeResult(device, "InvalidCommand", << >>) \/ r = ModeResult(set, "Success", <<0>>)
    <2> HIDE DEF set
    <2> QED
        BY DEF ModeCommand, set
<1> HIDE DEF set, r
<1>3. r.device = device \/ (r.device = set /\ r.code = "Success")
    <2>1. CASE \E code, x : r = ModeResult(device, code, x)
        BY <1>1, <2>1
    <2>2. CASE r = ModeResult(set, "Success", <<0>>)
        BY <1>1, <2>2
    <2> QED
        BY <1>2, <2>1, <2>2
<1> QED
    BY ONLY <1>3 DEF r, set

LEMMA ModeKeeps ==
    ASSUME ManagementInv, NEW q, Entitled(q), NEW answer,
           Finish(q, ModeCommand(q.data).device, FALSE, answer)
    PROVE  Kept(q)
<1> DEFINE d   == q.data
           new == ModeCommand(d).device
           set == [device EXCEPT !.securityMode = d[3] = 1]
<1>1. new = device \/ new = set
    BY ModeResults
<1>2. DeviceInv(set)
    <2>1. set \in Device /\ set.value = device.value
        BY DEF ManagementInv, DeviceInv, Device
    <2> QED
        BY <2>1, FieldsKept DEF ManagementInv
<1>3. DeviceInv(new)
    BY <1>1, <1>2 DEF ManagementInv
<1> QED
    BY <1>3, ChangeKeeps

LEMMA CommandsKeep ==
    ASSUME ManagementInv, NEW q, Typed(q)
    PROVE  /\ FunctionPropertyCommand(q) => Kept(q)
           /\ FunctionPropertyExtCommand(q) => Kept(q)
<1>1. ASSUME NEW p, PropertyCommandAllowed(p, q) \/ PropertyWriteAllowed(p, q)
      PROVE  Entitled(q)
    BY <1>1 DEF PropertyCommandAllowed, PropertyWriteAllowed, ManagementWriteAllowed, Entitled
<1>2. ASSUME FunctionPropertyCommand(q)
      PROVE  Kept(q)
    <2>1. CASE \E answer : Tell(q, answer)
        BY <2>1, TellKeeps
    <2>2. CASE \E answer : PropertyCommandAllowed(q.p, q) /\ Finish(q, ModeCommand(q.data).device, FALSE, answer)
        BY <1>1, <2>2, ModeKeeps
    <2> QED
        BY <1>2, <2>1, <2>2 DEF FunctionPropertyCommand
<1>3. ASSUME FunctionPropertyExtCommand(q)
      PROVE  Kept(q)
    <2>1. CASE \E answer : Tell(q, answer)
        BY <2>1, TellKeeps
    <2>2. CASE \E answer : PropertyCommandAllowed(q.p, q) /\ Finish(q, ModeCommand(q.data).device, FALSE, answer)
        BY <1>1, <2>2, ModeKeeps
    <2>3. CASE Desc[q.p].kind = "control" /\ PropertyWriteAllowed(q.p, q) /\ ControlCommand(q)
        <3> DEFINE w == IF Short([q EXCEPT !.start = 1, !.count = 1]) THEN Wrote(0, device, FALSE)
                        ELSE PropertyWrite(device, q.p, 1, 1, q.data)
        <3>1. w \in {Wrote(0, device, FALSE), LoadEvent(device, q.data)}
            BY <2>3 DEF PropertyWrite
        <3>2. DeviceInv(w.device)
            BY <3>1, LoadEventKeeps DEF ManagementInv, Typed, Wrote
        <3>3. \E answer : Finish(q, w.device, w.saves, answer)
            BY <2>3 DEF ControlCommand
        <3> HIDE DEF w
        <3> QED
            BY <1>1, <2>3, <3>2, <3>3, FinishKeeps
    <2> QED
        BY <1>3, <2>1, <2>2, <2>3 DEF FunctionPropertyExtCommand
<1> QED
    BY <1>2, <1>3

LEMMA MemoryKeeps ==
    ASSUME ManagementInv, NEW q, Typed(q)
    PROVE  /\ MemoryWrite(q) => Kept(q)
           /\ MemoryExtWrite(q) => Kept(q)
<1> DEFINE new == [a \in DOMAIN device.memory |->
                      IF a >= q.address /\ a < q.address + Len(q.data)
                      THEN q.data[a - q.address + 1] ELSE device.memory[a]]
<1>1. DeviceInv(Stored(q)) /\ DeviceInv(StoredOrNot(q))
    <2>1. device \in Device /\ device.memory \in [0 .. MemorySize - 1 -> Nat] /\ DeviceInv(device)
        BY DEF ManagementInv, DeviceInv, Device
    <2>2. MemorySize \in Nat /\ q.address \in Nat /\ q.data \in Seq(Nat) /\ Len(q.data) \in Nat
        BY ManagementAssumption DEF Typed
    <2>3. new \in [0 .. MemorySize - 1 -> Nat]
        <3>1. ASSUME NEW a \in 0 .. MemorySize - 1, a >= q.address, a < q.address + Len(q.data)
              PROVE  q.data[a - q.address + 1] \in Nat
            <4>1. a - q.address + 1 \in 1 .. Len(q.data)
                BY <2>2, <3>1
            <4> QED
                BY <2>2, <4>1, SMTT(60)
        <3> QED
            BY <2>1, <3>1
    <2>4. Stored(q) = [device EXCEPT !.memory = new]
        BY <2>1 DEF Stored, Device
    <2> HIDE DEF new
    <2>5. Stored(q) \in Device /\ Stored(q).value = device.value
        BY <2>1, <2>3, <2>4 DEF Device
    <2>6. DeviceInv(Stored(q))
        BY <2>1, <2>5, FieldsKept
    <2> QED
        BY <2>1, <2>6 DEF StoredOrNot
<1>2. ASSUME MemoryAccessAllowed(q, q.address, Len(q.data))
      PROVE  Entitled(q)
    BY <1>2 DEF MemoryAccessAllowed, Entitled
<1>3. ASSUME MemoryWrite(q)
      PROVE  Kept(q)
    <2>1. CASE \E answer : Tell(q, answer)
        BY <2>1, TellKeeps
    <2>2. CASE MemoryAccessAllowed(q, q.address, Len(q.data))
               /\ \E answer : Finish(q, StoredOrNot(q), FALSE, answer)
        BY <1>1, <1>2, <2>2, ChangeKeeps
    <2> QED
        BY <1>3, <2>1, <2>2 DEF MemoryWrite
<1>4. ASSUME MemoryExtWrite(q)
      PROVE  Kept(q)
    <2>1. CASE MemoryAccessAllowed(q, q.address, Len(q.data))
        <3>1. \E answer : Finish(q, Stored(q), FALSE, answer) \/ Finish(q, device, FALSE, answer)
            BY <1>4 DEF MemoryExtWrite
        <3> QED
            BY <1>1, <1>2, <2>1, <3>1, ChangeKeeps DEF ManagementInv
    <2>2. CASE ~MemoryAccessAllowed(q, q.address, Len(q.data))
        <3>1. \E answer : Finish(q, device, FALSE, answer)
            BY <1>4, <2>2 DEF MemoryExtWrite
        <3> QED
            BY <3>1, TellKeeps DEF Tell
    <2> QED
        BY <2>1, <2>2
<1> QED
    BY <1>3, <1>4

LEMMA AddressesKeep ==
    ASSUME ManagementInv, NEW q, Typed(q)
    PROVE  /\ q.service = "IndividualAddressWrite" /\ IndividualAddressWrite(q) => Kept(q)
           /\ SerialNumberWrite(q) => Kept(q)
           /\ q.service = "DomainAddressSerialNumberWrite" /\ DomainAddressWrite(q) => Kept(q)
<1>1. DeviceInv([device EXCEPT !.address = q.address])
    <2> DEFINE new == [device EXCEPT !.address = q.address]
    <2>1. new \in Device /\ new.value = device.value
        BY DEF ManagementInv, DeviceInv, Device, Typed
    <2> HIDE DEF new
    <2>2. DeviceInv(new)
        BY <2>1, FieldsKept DEF ManagementInv
    <2> QED
        BY <2>2 DEF new
<1>2. q.service = "DomainAddressSerialNumberWrite" => DeviceInv(DataWrite(device, Domain, 1, 1, q.data).device)
    <2>1. Domain \in DataProperty /\ Desc[Domain].writable /\ Desc[Domain].size \in Nat
        BY ManagementAssumption DEF DataProperty
    <2>2. q.service = "DomainAddressSerialNumberWrite" => 1 * Desc[Domain].size <= Len(q.data)
        BY <2>1 DEF Typed
    <2> QED
        BY <2>1, <2>2, DataWriteKeeps DEF ManagementInv, Typed
<1>3. ManagementWriteAllowed(q) => Entitled(q)
    BY DEF ManagementWriteAllowed, Entitled
<1>4. ASSUME q.service = "IndividualAddressWrite", IndividualAddressWrite(q)
      PROVE  Kept(q)
    <2>1. CASE ProgMode
        <3>1. Finish(q, [device EXCEPT !.address = q.address], FALSE, Silence) /\ Entitled(q)
            BY <1>4, <2>1 DEF IndividualAddressWrite, Entitled
        <3> QED
            BY <1>1, <3>1, ChangeKeeps
    <2>2. CASE ~ProgMode
        BY <1>4, <2>2, TellKeeps DEF IndividualAddressWrite, Tell
    <2> QED
        BY <2>1, <2>2
<1>5. ASSUME SerialNumberWrite(q)
      PROVE  Kept(q)
    <2>1. CASE ManagementWriteAllowed(q) /\ Meant(q)
        <3>1. Finish(q, [device EXCEPT !.address = q.address], FALSE, Silence)
            BY <1>5, <2>1 DEF SerialNumberWrite
        <3> QED
            BY <1>1, <1>3, <2>1, <3>1, ChangeKeeps
    <2>2. CASE ~(ManagementWriteAllowed(q) /\ Meant(q))
        BY <1>5, <2>2, TellKeeps DEF SerialNumberWrite, Tell
    <2> QED
        BY <2>1, <2>2
<1>6. ASSUME q.service = "DomainAddressSerialNumberWrite", DomainAddressWrite(q)
      PROVE  Kept(q)
    <2>1. CASE ManagementWriteAllowed(q) /\ Meant(q)
        <3>1. Finish(q, DataWrite(device, Domain, 1, 1, q.data).device, FALSE, Silence)
            BY <1>6, <2>1 DEF DomainAddressWrite
        <3> QED
            BY <1>2, <1>3, <1>6, <2>1, <3>1, ChangeKeeps
    <2>2. CASE ~(ManagementWriteAllowed(q) /\ Meant(q))
        BY <1>6, <2>2, TellKeeps DEF DomainAddressWrite, Tell
    <2> QED
        BY <2>1, <2>2
<1> QED
    BY <1>4, <1>5, <1>6

LEMMA RestartKeeps ==
    ASSUME ManagementInv, NEW q, Restart(q)
    PROVE  Kept(q)
<1>1. CASE \E answer : Tell(q, answer)
    BY <1>1, TellKeeps
<1>2. CASE /\ ManagementWriteAllowed(q)
           /\ \E answer : Counted(q, answer)
           /\ \E dev, undefined : DeviceInv(dev) /\ undefined \in Garbage /\ Reboot(Saved(dev, undefined))
    <2>1. Entitled(q)
        BY <1>2 DEF ManagementWriteAllowed, Entitled
    <2>2. last'.request = q
        BY <1>2 DEF Counted
    <2>3. PICK dev, undefined : DeviceInv(dev) /\ undefined \in Garbage /\ Reboot(Saved(dev, undefined))
        BY <1>2
    <2>4. device' = Restored(Saved(dev, undefined)) /\ saved' = Saved(dev, undefined)
        BY <2>3 DEF Reboot
    <2>5. DeviceInv(Restored(Saved(dev, undefined)))
        BY <2>3, RestoredKeeps
    <2> QED
        BY <2>1, <2>2, <2>4, <2>5 DEF Kept, ManagementInv
<1>3. DeviceInv(device) /\ DeviceInv(MasterReset(device, q.code))
    BY MasterResetKeeps DEF ManagementInv
<1> QED
    BY <1>1, <1>2, <1>3 DEF Restart

\* The request that is served, by its service
Serves(q) ==
    \/ q.service = "PropertyValueRead" /\ PropertyValueRead(q)
    \/ q.service = "PropertyValueExtRead" /\ PropertyValueExtRead(q)
    \/ q.service = "LocalRead" /\ LocalRead(q)
    \/ q.service = "PropertyValueWrite" /\ PropertyValueWrite(q)
    \/ q.service \in {"PropertyValueExtWriteCon", "PropertyValueExtWriteUnCon"} /\ PropertyValueExtWrite(q)
    \/ q.service = "LocalWrite" /\ LocalWrite(q)
    \/ q.service = "FunctionPropertyCommand" /\ FunctionPropertyCommand(q)
    \/ q.service = "FunctionPropertyState" /\ FunctionPropertyState(q)
    \/ q.service = "FunctionPropertyExtCommand" /\ FunctionPropertyExtCommand(q)
    \/ q.service = "FunctionPropertyExtState" /\ FunctionPropertyExtState(q)
    \/ q.service \in {"LocalCommand", "LocalState"} /\ LocalFunction(q)
    \/ q.service \in Plain \cup {"UserMemoryWrite"} /\ MemoryWrite(q)
    \/ q.service \in {"MemoryRead", "RoutingTableRead", "UserMemoryRead"} /\ MemoryRead(q)
    \/ q.service = "MemoryExtWrite" /\ MemoryExtWrite(q)
    \/ q.service = "MemoryExtRead" /\ MemoryExtRead(q)
    \/ q.service = "IndividualAddressWrite" /\ IndividualAddressWrite(q)
    \/ q.service = "IndividualAddressSerialNumberWrite" /\ SerialNumberWrite(q)
    \/ q.service = "DomainAddressSerialNumberWrite" /\ DomainAddressWrite(q)
    \/ q.service \in {"IndividualAddressRead", "IndividualAddressSerialNumberRead",
                      "DomainAddressSerialNumberRead", "SystemNetworkParameterRead"} /\ BroadcastRead(q)
    \/ q.service \in {"DeviceDescriptorRead", "ADCRead", "AuthorizeRequest",
                      "PropertyDescriptionRead"} /\ Enquiry(q)
    \/ q.service = "Restart" /\ Restart(q)

LEMMA ServedIs ==
    ASSUME Served
    PROVE  \E q : Typed(q) /\ Serves(q)
<1>1. \A services : \A q \in Asked(services) : Typed(q) /\ q.service \in services
    BY AskedFor
<1> HIDE DEF Plain
<1>2. CASE \/ \E q \in Asked({"PropertyValueRead"}) : PropertyValueRead(q)
           \/ \E q \in Asked({"PropertyValueExtRead"}) : PropertyValueExtRead(q)
           \/ \E q \in Asked({"LocalRead"}) : LocalRead(q)
           \/ \E q \in Asked({"PropertyValueWrite"}) : PropertyValueWrite(q)
           \/ \E q \in Asked({"PropertyValueExtWriteCon", "PropertyValueExtWriteUnCon"}) : PropertyValueExtWrite(q)
           \/ \E q \in Asked({"LocalWrite"}) : LocalWrite(q)
    BY <1>1, <1>2 DEF Serves
<1>3. CASE \/ \E q \in Asked({"FunctionPropertyCommand"}) : FunctionPropertyCommand(q)
           \/ \E q \in Asked({"FunctionPropertyState"}) : FunctionPropertyState(q)
           \/ \E q \in Asked({"FunctionPropertyExtCommand"}) : FunctionPropertyExtCommand(q)
           \/ \E q \in Asked({"FunctionPropertyExtState"}) : FunctionPropertyExtState(q)
           \/ \E q \in Asked({"LocalCommand", "LocalState"}) : LocalFunction(q)
    BY <1>1, <1>3 DEF Serves
<1>4. CASE \/ \E q \in Asked(Plain \cup {"UserMemoryWrite"}) : MemoryWrite(q)
           \/ \E q \in Asked({"MemoryRead", "RoutingTableRead", "UserMemoryRead"}) : MemoryRead(q)
           \/ \E q \in Asked({"MemoryExtWrite"}) : MemoryExtWrite(q)
           \/ \E q \in Asked({"MemoryExtRead"}) : MemoryExtRead(q)
    BY <1>1, <1>4 DEF Serves
<1>5. CASE \/ \E q \in Asked({"IndividualAddressWrite"}) : IndividualAddressWrite(q)
           \/ \E q \in Asked({"IndividualAddressSerialNumberWrite"}) : SerialNumberWrite(q)
           \/ \E q \in Asked({"DomainAddressSerialNumberWrite"}) : DomainAddressWrite(q)
    BY <1>1, <1>5 DEF Serves
<1>6. CASE \/ \E q \in Asked({"IndividualAddressRead", "IndividualAddressSerialNumberRead",
                       "DomainAddressSerialNumberRead", "SystemNetworkParameterRead"}) : BroadcastRead(q)
           \/ \E q \in Asked({"DeviceDescriptorRead", "ADCRead", "AuthorizeRequest",
                       "PropertyDescriptionRead"}) : Enquiry(q)
           \/ \E q \in Asked({"Restart"}) : Restart(q)
    BY <1>1, <1>6 DEF Serves
<1> QED
    BY <1>2, <1>3, <1>4, <1>5, <1>6 DEF Served

LEMMA ServedKeeps ==
    ASSUME ManagementInv, NEW q, Typed(q), Serves(q)
    PROVE  Kept(q)
BY ReadsKeep, PropertyWritesKeep, CommandsKeep, MemoryKeeps, AddressesKeep, RestartKeeps DEF Serves

\* What happens on the device itself asks nobody.
LEMMA LocallyKeeps ==
    ASSUME ManagementInv,
           \/ ProgButton \/ LocalFactoryReset \/ DelayedSave \/ PowerLoss
           \/ \E c \in Client : PeerConnects(c) \/ RestartRequest(c)
           \/ Disconnected \/ ConnectConfirm \/ SendRestart \/ FinishRestart
    PROVE  ManagementInv' /\ last'.request = NoRequest
<1>1. CASE ProgButton
    <2> DEFINE new == [device EXCEPT !.progMode = IF ProgMode THEN 0 ELSE 1]
    <2>1. new \in Device /\ new.value = device.value
        BY DEF ManagementInv, DeviceInv, Device
    <2>2. device' = new /\ saved' = saved /\ last'.request = NoRequest
        BY <1>1 DEF ProgButton, Locally, Counted
    <2> HIDE DEF new
    <2>3. DeviceInv(new)
        BY <2>1, FieldsKept DEF ManagementInv
    <2> QED
        BY <2>2, <2>3 DEF ManagementInv
<1>2. CASE LocalFactoryReset
    <2> DEFINE new == MasterReset(device, "FactoryResetWithoutIA")
    <2>1. DeviceInv(new)
        BY MasterResetKeeps DEF ManagementInv
    <2>2. PICK undefined \in Garbage : saved' = Saved(device', undefined)
        BY <1>2 DEF LocalFactoryReset
    <2>3. device' = new /\ last'.request = NoRequest
        BY <1>2 DEF LocalFactoryReset, Locally, Counted
    <2> HIDE DEF new
    <2>4. saved' = Saved(new, undefined)
        BY <2>2, <2>3
    <2>5. DeviceInv(Restored(Saved(new, undefined)))
        BY <2>1, RestoredKeeps
    <2> QED
        BY <2>1, <2>3, <2>4, <2>5 DEF ManagementInv
<1>3. CASE DelayedSave
    <2> DEFINE new == [device EXCEPT !.armed = FALSE]
    <2>1. new \in Device /\ new.value = device.value
        BY DEF ManagementInv, DeviceInv, Device
    <2>2. PICK undefined \in Garbage : saved' = Saved(device, undefined)
        BY <1>3 DEF DelayedSave
    <2>3. device' = new /\ last'.request = NoRequest
        BY <1>3 DEF DelayedSave, Locally, Counted
    <2> HIDE DEF new
    <2>4. DeviceInv(new)
        BY <2>1, FieldsKept DEF ManagementInv
    <2>5. DeviceInv(Restored(Saved(device, undefined)))
        BY RestoredKeeps DEF ManagementInv
    <2> QED
        BY <2>2, <2>3, <2>4, <2>5 DEF ManagementInv
<1>4. CASE PowerLoss
    <2>1. device' = Restored(saved) /\ saved' = saved /\ last'.request = NoRequest
        BY <1>4 DEF PowerLoss, Reboot, Locally, Counted
    <2> QED
        BY <2>1 DEF ManagementInv
<1>5. CASE \/ \E c \in Client : PeerConnects(c) \/ RestartRequest(c)
           \/ Disconnected \/ ConnectConfirm \/ SendRestart \/ FinishRestart
    <2>1. device' = device /\ saved' = saved /\ last'.request = NoRequest
        BY <1>5 DEF PeerConnects, RestartRequest, Disconnected, ConnectConfirm, SendRestart,
                    FinishRestart, Locally, Counted, Connections
    <2> QED
        BY <2>1 DEF ManagementInv
<1> QED
    BY <1>1, <1>2, <1>3, <1>4, <1>5

\* The state of the device, and the one that a loss of power would lead to, are states
\* that saving and restoring understand.
LEMMA ManagementStarts ==
    ASSUME Init
    PROVE  ManagementInv
<1> DEFINE memory == [a \in 0 .. MemorySize - 1 |-> 0]
<1>1. memory \in [0 .. MemorySize - 1 -> Nat]
    OBVIOUS
<1>2. device = Fresh(memory)
    BY DEF Init
<1> HIDE DEF memory
<1>3. DeviceInv(device)
    BY <1>1, <1>2, FreshDevice
<1>4. PICK undefined \in Garbage : saved = Saved(device, undefined)
    BY DEF Init
<1>5. DeviceInv(Restored(saved))
    BY <1>3, <1>4, RestoredKeeps
<1> QED
    BY <1>3, <1>5 DEF ManagementInv

LEMMA ManagementStep ==
    ASSUME ManagementInv, [Next]_vars
    PROVE  ManagementInv'
<1>1. CASE Served
    BY <1>1, ServedIs, ServedKeeps DEF Kept
<1>2. CASE \/ ProgButton \/ LocalFactoryReset \/ DelayedSave \/ PowerLoss
           \/ \E c \in Client : PeerConnects(c) \/ RestartRequest(c)
           \/ Disconnected \/ ConnectConfirm \/ SendRestart \/ FinishRestart
    BY <1>2, LocallyKeeps
<1>3. CASE UNCHANGED vars
    BY <1>3 DEF vars, ManagementInv
<1> QED
    BY <1>1, <1>2, <1>3 DEF Next

THEOREM DevicesAlwaysRestorable == Spec => []ManagementInv
<1>1. Init => ManagementInv
    BY ManagementStarts
<1>2. ManagementInv /\ [Next]_vars => ManagementInv'
    BY ManagementStep
<1> QED
    BY <1>1, <1>2, PTL DEF Spec

-----------------------------------------------------------------------------
(* Rights *)

LEMMA AnswerGiven ==
    ASSUME NEW q, NEW answer, Tell(q, answer) \/ (\E dev, saves : Finish(q, dev, saves, answer))
    PROVE  last'.request = q /\ last'.answer = answer
BY DEF Tell, Finish, Counted

LEMMA ReadOnlyIfAllowed ==
    ASSUME NEW dev, NEW q, NEW n, NEW limit,
           PlainRead(dev, q, n).count > 0 \/ ReadBack(dev, q, n, limit).count > 0
    PROVE  PropertyReadAllowed(dev, q.p, q)
<1>1. Refused.count = 0 /\ ~(0 > 0)
    BY DEF Refused, Got
<1>2. ASSUME NEW l, ReadBack(dev, q, n, l).count > 0
      PROVE  PropertyReadAllowed(dev, q.p, q)
    <2> SUFFICES ASSUME ~PropertyReadAllowed(dev, q.p, q) PROVE FALSE
        OBVIOUS
    <2>1. ReadBack(dev, q, n, l) = Refused
        BY DEF ReadBack
    <2> QED
        BY <1>1, <1>2, <2>1
<1>3. PlainRead(dev, q, n) = Refused \/ PlainRead(dev, q, n) = ReadBack(dev, q, n, PlainLimit)
    BY DEF PlainRead
<1> HIDE DEF Refused
<1> QED
    BY <1>1, <1>2, <1>3

\* Properties are read by those who may.
LEMMA SecretsShown ==
    ASSUME NEW q, Serves(q), last'.answer.count > 0,
           q.service \in {"PropertyValueRead", "PropertyValueExtRead", "LocalRead", "PropertyValueWrite"}
    PROVE  \E dev : PropertyReadAllowed(dev, q.p, q)
<1> DEFINE a == last'.answer
<1>1. CASE q.service = "PropertyValueRead"
    <2>1. PropertyValueRead(q)
        BY <1>1 DEF Serves, Plain
    <2>2. a.count = PlainRead(device, q, q.count).count
        BY <2>1 DEF PropertyValueRead, Tell, Finish, Counted, Reply, Answer
    <2> QED
        BY <2>2, ReadOnlyIfAllowed
<1>2. CASE q.service = "PropertyValueExtRead"
    <2>1. PropertyValueExtRead(q)
        BY <1>2 DEF Serves, Plain
    <2>2. a.count = ReadBack(device, q, q.count, ExtLimit).count
        BY <2>1 DEF PropertyValueExtRead, Tell, Finish, Counted, Reply, Answer
    <2> QED
        BY <2>2, ReadOnlyIfAllowed
<1>3. CASE q.service = "LocalRead"
    <2>1. LocalRead(q)
        BY <1>3 DEF Serves, Plain
    <2>2. a.count = (IF PropertyReadAllowed(device, q.p, q)
                     THEN PropertyRead(device, q.p, q.start, q.count) ELSE Refused).count
        BY <2>1 DEF LocalRead, Tell, Finish, Counted, Answer
    <2>3. Refused.count = 0 /\ ~(0 > 0)
        BY DEF Refused, Got
    <2> QED
        BY <2>2, <2>3
<1>4. CASE q.service = "PropertyValueWrite"
    <2>1. PropertyValueWrite(q)
        BY <1>4 DEF Serves, Plain
    <2>2. a.count = PlainRead(Written(q).device, q, Written(q).count).count
        BY <2>1 DEF PropertyValueWrite, Finish, Counted, Reply, Answer
    <2> QED
        BY <2>2, ReadOnlyIfAllowed
<1> QED
    BY <1>1, <1>2, <1>3, <1>4

\* Memory is read where the key table and what is in front of the program are not.
LEMMA MemoryShown ==
    ASSUME ManagementInv, NEW q, Typed(q), Serves(q), last'.answer.count > 0, ~q.tool,
           q.service \in {"MemoryRead", "UserMemoryRead", "RoutingTableRead", "MemoryExtRead"}
    PROVE  /\ ~device.securityMode
           /\ \A p \in DataProperty : Desc[p].secret = "writeonly" => device.value[p] = << >>
           /\ provisioned => q.address >= AppStart
<1>1. MemoryAccessAllowed(q, q.address, q.count)
    <2> SUFFICES ASSUME ~MemoryAccessAllowed(q, q.address, q.count) PROVE FALSE
        OBVIOUS
    <2>1. CASE q.service = "MemoryExtRead"
        <3>1. MemoryExtRead(q)
            BY <2>1 DEF Serves, Plain
        <3>2. last'.answer.count = 0
            BY <3>1 DEF MemoryExtRead, Tell, Finish, Counted, Reply, Answer, Silence
        <3> QED
            BY <3>2
    <2>2. CASE q.service \in {"MemoryRead", "UserMemoryRead", "RoutingTableRead"}
        <3>1. MemoryRead(q)
            BY <2>2 DEF Serves, Plain
        <3>2. last'.answer.count = 0
            BY <3>1 DEF MemoryRead, MemoryAnswer, Tell, Finish, Counted, Reply, Answer
        <3> QED
            BY <3>2
    <2> QED
        BY <2>1, <2>2
<1>2. /\ ~provisioned \/ ApplicationMemoryRange(q.address, q.count)
      /\ ~Populated /\ ~device.securityMode
    BY <1>1 DEF MemoryAccessAllowed
<1>3. ASSUME NEW p \in DataProperty, Desc[p].secret = "writeonly"
      PROVE  device.value[p] = << >>
    <2>1. Elements(p, device.value[p]) = 0
        BY <1>2, <1>3 DEF Populated
    <2>2. Whole(p, device.value[p]) /\ Desc[p].size \in Nat
        BY ManagementAssumption DEF ManagementInv, DeviceInv, DataProperty
    <2>3. Len(device.value[p]) = 0 /\ device.value[p] \in Seq(Nat)
        BY <2>1, <2>2, WholeElements
    <2> QED
        BY <2>3
<1> QED
    BY <1>2, <1>3 DEF ApplicationMemoryRange

\* A device is changed, and what is secret shown, only to those who may.
THEOREM DevicesManagedWhenAllowed == Spec => ManagedOnlyWhenAllowed
<1> DEFINE Managed == LET q == last'.request  a == last'.answer
       IN /\ q.service # "none" /\ <<device', saved'>> # <<device, saved>> =>
                q.tool \/ (ProgMode /\ (device.securityMode => q.service = "IndividualAddressWrite"))
          /\ q.service \in {"PropertyValueRead", "PropertyValueExtRead", "LocalRead", "PropertyValueWrite"}
             /\ q.p \in Property /\ a.count > 0 =>
                \/ Desc[q.p].secret \in {"no", "open"}
                \/ q.tool /\ Desc[q.p].secret = "sensitive"
          /\ q.service \in {"MemoryRead", "UserMemoryRead", "RoutingTableRead", "MemoryExtRead"}
             /\ a.count > 0 /\ ~q.tool =>
                /\ ~device.securityMode
                /\ \A p \in DataProperty : Desc[p].secret = "writeonly" => device.value[p] = << >>
                /\ provisioned => q.address >= AppStart
<1>1. ASSUME ManagementInv, [Next]_vars
      PROVE  [Managed]_vars
    <2>1. CASE Served
        <3>1. PICK q : Typed(q) /\ Serves(q)
            BY <2>1, ServedIs
        <3>2. Kept(q)
            BY <1>1, <3>1, ServedKeeps
        <3>3. last'.request = q
            BY <3>2 DEF Kept
        <3>4. <<device', saved'>> # <<device, saved>> => Entitled(q)
            BY <3>2 DEF Kept
        <3>5. ASSUME q.service \in {"PropertyValueRead", "PropertyValueExtRead", "LocalRead",
                                    "PropertyValueWrite"},
                     q.p \in Property, last'.answer.count > 0
              PROVE  Desc[q.p].secret \in {"no", "open"} \/ (q.tool /\ Desc[q.p].secret = "sensitive")
            <4>1. PICK dev : PropertyReadAllowed(dev, q.p, q)
                BY <3>1, <3>5, SecretsShown
            <4>2. Desc[q.p].secret \in {"no", "sensitive", "open", "writeonly"}
                BY <3>5, ManagementAssumption
            <4> QED
                BY <4>1, <4>2 DEF PropertyReadAllowed, Sensitive
        <3>6. ASSUME q.service \in {"MemoryRead", "UserMemoryRead", "RoutingTableRead", "MemoryExtRead"},
                     last'.answer.count > 0, ~q.tool
              PROVE  /\ ~device.securityMode
                     /\ \A p \in DataProperty : Desc[p].secret = "writeonly" => device.value[p] = << >>
                     /\ provisioned => q.address >= AppStart
            BY <1>1, <3>1, <3>6, MemoryShown
        <3> QED
            BY <3>3, <3>4, <3>5, <3>6 DEF Entitled
    <2>2. CASE \/ ProgButton \/ LocalFactoryReset \/ DelayedSave \/ PowerLoss
               \/ \E c \in Client : PeerConnects(c) \/ RestartRequest(c)
               \/ Disconnected \/ ConnectConfirm \/ SendRestart \/ FinishRestart
        <3>1. last'.request.service = "none"
            BY <1>1, <2>2, LocallyKeeps DEF NoRequest
        <3> QED
            BY <3>1
    <2> QED
        BY <1>1, <2>1, <2>2 DEF Next
<1>2. Spec => []ManagementInv
    BY DevicesAlwaysRestorable
<1>3. ManagementInv /\ [Next]_vars => [Managed]_vars
    BY <1>1
<1> QED
    BY <1>2, <1>3, PTL DEF Spec, ManagedOnlyWhenAllowed

-----------------------------------------------------------------------------
(* Restarts *)

LEMMA Rebooted ==
    ASSUME ManagementInv, NEW q, Restart(q), ManagementWriteAllowed(q), q.code \in EraseCode \cup {""}
    PROVE  \E dev : /\ DeviceInv(dev) /\ SavedFieldsOf(device', dev)
                    /\ dev = IF q.code = "" THEN device ELSE MasterReset(device, q.code)
<1> DEFINE dev == IF q.code = "" THEN device ELSE MasterReset(device, q.code)
<1>1. "" \notin EraseCode
    BY DEF EraseCode
<1>2. \E undefined \in Garbage : Reboot(Saved(dev, undefined))
    BY <1>1 DEF Restart
<1>3. DeviceInv(dev)
    BY MasterResetKeeps DEF ManagementInv
<1> HIDE DEF dev
<1>4. PICK undefined \in Garbage : Reboot(Saved(dev, undefined))
    BY <1>2
<1>5. device' = Restored(Saved(dev, undefined))
    BY <1>4 DEF Reboot
<1>6. SavedFieldsOf(Restored(Saved(dev, undefined)), dev)
    BY <1>3, <1>4, RestoredKeeps
<1> QED
    BY <1>3, <1>5, <1>6 DEF dev

\* A restart keeps all settings but those that its erase code names.
THEOREM RestartsAlwaysKeepSettings == Spec => RestartKeepsSettings
<1> DEFINE Keeps == LET q == last'.request  code == q.code  new == device'
                        kept(p) == new.value[p] = device.value[p]
       IN q.service = "Restart" /\ ManagementWriteAllowed(q) /\ code \in EraseCode \cup {""} =>
          /\ new.address = IF code \in {"ResetIA", "FactoryReset"} THEN DefaultAddress ELSE device.address
          /\ \A p \in DataProperty :
                IF code \in Factories /\ p = Domain THEN new.value[p] = DefaultDomain
                ELSE IF code \in Factories /\ Desc[p].reset # "kept"
                THEN \A i \in DOMAIN new.value[p] : new.value[p][i] = 0
                ELSE kept(p)
          /\ new.securityMode = (device.securityMode /\ code \notin Factories)
          /\ IF code \in Factories \cup {"ResetAP", "ResetParam"} THEN new.load = Unloaded /\ ~new.allocated
             ELSE <<new.load, new.allocated, new.memory>> = <<device.load, device.allocated, device.memory>>
<1>1. ASSUME ManagementInv, [Next]_vars
      PROVE  [Keeps]_vars
    <2>1. CASE Served
        <3>1. PICK q : Typed(q) /\ Serves(q)
            BY <2>1, ServedIs
        <3>2. last'.request = q
            BY <1>1, <3>1, ServedKeeps DEF Kept
        <3>3. ASSUME q.service = "Restart", ManagementWriteAllowed(q), q.code \in EraseCode \cup {""}
              PROVE  Keeps
            <4> DEFINE code == q.code
            <4>1. Restart(q)
                BY <3>1, <3>3 DEF Serves, Plain
            <4>2. PICK dev : /\ DeviceInv(dev) /\ SavedFieldsOf(device', dev)
                             /\ dev = IF code = "" THEN device ELSE MasterReset(device, code)
                BY <1>1, <3>3, <4>1, Rebooted
            <4>3. "" \notin Factories \cup {"ResetAP", "ResetParam", "ResetIA", "FactoryReset"}
                BY DEF Factories
            <4>4. DeviceInv(device) /\ device.securityMode \in BOOLEAN
                BY <1>1 DEF ManagementInv, DeviceInv, Device
            <4>5. ResetOf(dev, device, code)
                <5>1. CASE code = ""
                    BY <4>2, <4>3, <4>4, <5>1 DEF ResetOf
                <5>2. CASE code # ""
                    <6>1. dev = MasterReset(device, code)
                        BY <4>2, <5>2
                    <6> QED
                        BY <4>4, <6>1, MasterResetKeeps
                <5> QED
                    BY <5>1, <5>2
            <4>6. ASSUME NEW p \in DataProperty
                  PROVE  IF code \in Factories /\ p = Domain THEN dev.value[p] = DefaultDomain
                         ELSE IF code \in Factories /\ Desc[p].reset # "kept"
                         THEN \A i \in DOMAIN dev.value[p] : dev.value[p][i] = 0
                         ELSE dev.value[p] = device.value[p]
                <5>1. CASE code \in Factories
                    <6>1. dev.value[p] = AfterFactoryReset(p, device.value[p])
                        BY <4>5, <5>1 DEF ResetOf
                    <6>2. Desc[p].reset \in {"kept", "zeroed", "emptied"}
                        BY ManagementAssumption
                    <6> HIDE DEF code
                    <6>3. CASE p = Domain
                        BY <5>1, <6>1, <6>3 DEF AfterFactoryReset
                    <6>4. CASE p # Domain /\ Desc[p].reset = "zeroed"
                        BY <5>1, <6>1, <6>4 DEF AfterFactoryReset
                    <6>5. CASE p # Domain /\ Desc[p].reset = "emptied"
                        BY <5>1, <6>1, <6>5 DEF AfterFactoryReset
                    <6>6. CASE p # Domain /\ Desc[p].reset = "kept"
                        BY <5>1, <6>1, <6>6 DEF AfterFactoryReset
                    <6> QED
                        BY <6>2, <6>3, <6>4, <6>5, <6>6
                <5>2. CASE code \notin Factories
                    BY <4>5, <5>2 DEF ResetOf
                <5> QED
                    BY <5>1, <5>2
            <4>7. /\ device'.value = dev.value /\ device'.address = dev.address /\ device'.load = dev.load
                  /\ device'.securityMode = dev.securityMode /\ device'.allocated = dev.allocated
                  /\ device'.memory = dev.memory
                BY <4>2 DEF SavedFieldsOf
            <4> QED
                BY <3>2, <4>5, <4>6, <4>7, ZenonT(60) DEF ResetOf
        <3> QED
            BY <3>2, <3>3
    <2>2. CASE \/ ProgButton \/ LocalFactoryReset \/ DelayedSave \/ PowerLoss
               \/ \E c \in Client : PeerConnects(c) \/ RestartRequest(c)
               \/ Disconnected \/ ConnectConfirm \/ SendRestart \/ FinishRestart
        <3>1. last'.request.service = "none"
            BY <1>1, <2>2, LocallyKeeps DEF NoRequest
        <3> QED
            BY <3>1
    <2> QED
        BY <1>1, <2>1, <2>2 DEF Next
<1>2. Spec => []ManagementInv
    BY DevicesAlwaysRestorable
<1>3. ManagementInv /\ [Next]_vars => [Keeps]_vars
    BY <1>1
<1> QED
    BY <1>2, <1>3, PTL DEF Spec, RestartKeepsSettings

-----------------------------------------------------------------------------
(* What a write shows *)

ReadsAt(x, v, first, m) ==
    x \in Seq(Nat) /\ Len(x) = m /\ \A i \in 1 .. m : x[i] = v[first + i]

\* A read returns the octets of the elements.
LEMMA ReadElements ==
    ASSUME NEW p \in DataProperty, NEW v, Whole(p, v), NEW e \in Nat \ {0}, NEW k \in Nat \ {0},
           e + k - 1 <= Elements(p, v)
    PROVE  \E x : /\ DataRead(p, v, e, k) = Got(k, x)
                  /\ ReadsAt(x, v, (e - 1) * Desc[p].size, k * Desc[p].size)
<1> DEFINE s == Desc[p].size
           E == Elements(p, v)
           a == (e - 1) * s
           b == (e - 1 + k) * s
           x == SubSeq(v, a + 1, b)
<1>1. v \in Seq(Nat) /\ E \in Nat /\ E * s = Len(v) /\ s \in Nat /\ Len(v) \in Nat
    BY WholeElements, ManagementAssumption, SMTT(60) DEF DataProperty
<1>2. DataRead(p, v, e, k) = Got(k, x)
    <2> HIDE DEF E
    <2>1. e # 0 /\ k # 0 /\ E # 0 /\ ~(e > E) /\ ~(k > E - e + 1)
        BY <1>1 DEF E
    <2> QED
        BY <2>1 DEF DataRead, E
<1>3. a \in Nat /\ b = a + k * s /\ k * s \in Nat /\ b <= Len(v)
    <2> DEFINE g == e - 1
    <2>1. g \in Nat /\ k \in Nat /\ g + k \in Nat /\ g + k <= E
        BY <1>1
    <2> HIDE DEF s, E, g
    <2>2. g * s \in Nat /\ k * s \in Nat /\ (g + k) * s = g * s + k * s /\ (g + k) * s <= E * s
        BY <1>1, <2>1, Products
    <2> QED
        BY <1>1, <2>2 DEF g
<1> HIDE DEF s, a, b
<1>4. ReadsAt(x, v, a, k * s)
    <2>1. \A i \in a + 1 .. b : v[i] \in Nat
        BY <1>1, <1>3
    <2>2. /\ x \in Seq(Nat) /\ Len(x) = IF a + 1 <= b THEN b - (a + 1) + 1 ELSE 0
          /\ \A i \in 1 .. b - (a + 1) + 1 : x[i] = v[a + 1 + i - 1]
        BY <1>1, <1>3, <2>1, SubSeqProperties
    <2> HIDE DEF x
    <2>3. b - (a + 1) + 1 = k * s /\ Len(x) = k * s
        BY <1>3, <2>2
    <2>4. \A i \in 1 .. k * s : x[i] = v[a + i]
        <3> TAKE i \in 1 .. k * s
        <3>1. a + 1 + i - 1 = a + i
            BY <1>3
        <3> QED
            BY <2>2, <2>3, <3>1
    <2> QED
        BY <2>2, <2>3, <2>4 DEF ReadsAt
<1> QED
    BY <1>2, <1>4 DEF a, s

\* What is read at two places of which one holds what the other does
LEMMA SameRead ==
    ASSUME NEW v, NEW w, NEW x, NEW y, NEW a \in Nat, NEW b \in Nat, NEW m \in Nat,
           ReadsAt(x, v, a, m), ReadsAt(y, w, b, m), \A i \in 1 .. m : v[a + i] = w[b + i]
    PROVE  x = y
<1>1. \A i \in 1 .. m : x[i] = y[i]
    BY DEF ReadsAt
<1> QED
    BY <1>1, SeqEqual DEF ReadsAt

\* The octets behind a write
SplicedOf(w, v, first, d) ==
    /\ w \in Seq(Nat) /\ Len(w) = IF first + Len(d) > Len(v) THEN first + Len(d) ELSE Len(v)
    /\ \A i \in 1 .. Len(w) : w[i] = IF i > first /\ i <= first + Len(d) THEN d[i - first]
                                     ELSE IF i <= Len(v) THEN v[i] ELSE 0

WriteShows(p, old, new, start, n, d) ==
    /\ Elements(p, new) >= start + n - 1
    /\ DataRead(p, new, start, n) = Got(n, d)
    /\ \A e \in 1 .. Elements(p, old) :
          e \notin start .. start + n - 1 => DataRead(p, new, e, 1) = DataRead(p, old, e, 1)
    /\ \A e \in Elements(p, old) + 1 .. start - 1 :
          DataRead(p, new, e, 1).data = [i \in 1 .. Desc[p].size |-> 0]

LEMMA SpliceShows ==
    ASSUME NEW p \in DataProperty, NEW v, Whole(p, v), NEW start \in Nat \ {0}, NEW n \in Nat \ {0},
           NEW d \in Seq(Nat), Len(d) = n * Desc[p].size, NEW w, Whole(p, w),
           SplicedOf(w, v, (start - 1) * Desc[p].size, d)
    PROVE  WriteShows(p, v, w, start, n, d)
<1> DEFINE s == Desc[p].size
           first == (start - 1) * s
           E == Elements(p, v)
           F == Elements(p, w)
           g == start - 1
<1>1. /\ v \in Seq(Nat) /\ E \in Nat /\ E * s = Len(v) /\ s \in Nat \ {0} /\ Len(v) \in Nat
      /\ w \in Seq(Nat) /\ F \in Nat /\ F * s = Len(w) /\ Len(w) \in Nat
    <2>1. s \in Nat \ {0}
        BY ManagementAssumption DEF DataProperty
    <2>2. v \in Seq(Nat) /\ E \in Nat /\ E * s = Len(v)
        BY WholeElements
    <2>3. w \in Seq(Nat) /\ F \in Nat /\ F * s = Len(w)
        BY WholeElements
    <2> HIDE DEF s, E, F
    <2> QED
        BY <2>1, <2>2, <2>3
<1>2. g \in Nat /\ first = g * s /\ start = g + 1 /\ n \in Nat /\ n >= 1
    OBVIOUS
<1>3. Len(d) = n * s
    OBVIOUS
<1>4. SplicedOf(w, v, first, d)
    OBVIOUS
<1> HIDE DEF s, first, E, F, g
<1>5. first \in Nat /\ (g + n) * s = first + Len(d) /\ Len(d) \in Nat
    <2>1. g * s \in Nat /\ n * s \in Nat /\ (g + n) * s = g * s + n * s
        BY ONLY <1>1, <1>2, Products
    <2>2. Len(d) \in Nat
        OBVIOUS
    <2> QED
        BY ONLY <1>2, <1>3, <2>1, <2>2
<1>6. F >= g + n /\ F >= E
    <2>1. \A k \in Nat : k * s <= Len(w) => k <= F
        <3> SUFFICES ASSUME NEW k \in Nat, k * s <= Len(w), k > F PROVE FALSE
            BY <1>1
        <3>1. F + 1 <= k /\ F + 1 \in Nat /\ s \in Nat /\ s >= 1
            BY <1>1
        <3>2. (F + 1) * s <= k * s /\ (F + 1) * s = F * s + 1 * s /\ k * s \in Nat
            BY <1>1, <3>1, Products
        <3> DEFINE ks == k * s
                   fs == F * s
                   gs == (F + 1) * s
        <3>3. gs <= ks /\ gs = fs + s /\ ks <= Len(w) /\ fs = Len(w) /\ ks \in Nat
            BY <1>1, <3>1, <3>2
        <3> HIDE DEF ks, fs, gs
        <3>4. s \in Nat /\ s >= 1 /\ Len(w) \in Nat
            BY <1>1, <3>1
        <3> QED
            BY ONLY <3>3, <3>4
    <2>2. Len(w) >= first + Len(d) /\ Len(w) >= Len(v)
        <3>1. Len(w) = IF first + Len(d) > Len(v) THEN first + Len(d) ELSE Len(v)
            BY <1>4 DEF SplicedOf
        <3>2. Len(v) \in Nat /\ first \in Nat /\ Len(d) \in Nat
            BY ONLY <1>1, <1>5
        <3> QED
            BY ONLY <3>1, <3>2
    <2>3. (g + n) * s <= Len(w) /\ E * s <= Len(w) /\ g + n \in Nat /\ E \in Nat
        BY ONLY <1>1, <1>2, <1>5, <2>2
    <2> QED
        BY ONLY <1>1, <2>1, <2>3
<1>7. \A i \in 1 .. Len(w) : w[i] = IF i > first /\ i <= first + Len(d) THEN d[i - first]
                                    ELSE IF i <= Len(v) THEN v[i] ELSE 0
    BY <1>4 DEF SplicedOf
<1>8. DataRead(p, w, start, n) = Got(n, d)
    <2>1. start + n - 1 <= F
        BY <1>1, <1>2, <1>6
    <2>2. PICK x : DataRead(p, w, start, n) = Got(n, x) /\ ReadsAt(x, w, first, n * s)
        BY <2>1, ReadElements DEF first, s, F
    <2>3. ASSUME NEW i \in 1 .. n * s
          PROVE  w[first + i] = d[i]
        <3>1. i \in Nat /\ i >= 1 /\ i <= Len(d)
            BY <1>3, <1>5
        <3>2. first + Len(d) <= Len(w)
            <4>1. Len(w) = IF first + Len(d) > Len(v) THEN first + Len(d) ELSE Len(v)
                BY <1>4 DEF SplicedOf
            <4>2. Len(v) \in Nat /\ first \in Nat /\ Len(d) \in Nat
                BY ONLY <1>1, <1>5
            <4> QED
                BY ONLY <4>1, <4>2
        <3>3. first + i \in 1 .. Len(w) /\ first + i > first /\ first + i <= first + Len(d)
              /\ (first + i) - first = i
            <4>1. first \in Nat /\ Len(d) \in Nat /\ Len(w) \in Nat
                BY ONLY <1>1, <1>5
            <4> QED
                BY ONLY <3>1, <3>2, <4>1
        <3> QED
            BY <1>7, <3>3
    <2>4. x = d
        <3>1. Len(x) = Len(d) /\ x \in Seq(Nat) /\ \A i \in 1 .. Len(x) : x[i] = d[i]
            BY <1>3, <2>2, <2>3 DEF ReadsAt
        <3> QED
            BY <3>1, SeqEqual
    <2> QED
        BY <2>2, <2>4
\* The octets of one element
<1>9. ASSUME NEW e \in Nat \ {0}, e <= F
      PROVE  \E x : DataRead(p, w, e, 1) = Got(1, x) /\ ReadsAt(x, w, (e - 1) * s, s)
    <2>1. e + 1 - 1 <= Elements(p, w) /\ 1 \in Nat \ {0}
        BY <1>1, <1>9 DEF F
    <2>2. PICK x : DataRead(p, w, e, 1) = Got(1, x) /\ ReadsAt(x, w, (e - 1) * s, 1 * s)
        BY <2>1, ReadElements DEF s
    <2>3. 1 * s = s
        BY <1>1
    <2> QED
        BY <2>2, <2>3
<1>10. ASSUME NEW e \in Nat \ {0}, e <= F, e \notin start .. start + n - 1, NEW i \in 1 .. s
       PROVE  LET j == (e - 1) * s + i
              IN /\ (e - 1) * s \in Nat
                 /\ j \in 1 .. Len(w) /\ w[j] = IF j <= Len(v) THEN v[j] ELSE 0
                 /\ e <= E => j <= Len(v)
                 /\ e > E => j > Len(v)
    <2> DEFINE f == e - 1
               j == f * s + i
    <2>1. f \in Nat /\ i \in Nat /\ i >= 1 /\ i <= s /\ s \in Nat
        BY <1>1
    <2>2. f * s \in Nat /\ (f + 1) * s = f * s + 1 * s /\ 1 * s = s
        BY <2>1, Products
    <2>3. f + 1 <= F /\ (f < g \/ f >= g + n)
        BY <1>1, <1>2, <1>10
    <2>4. (f + 1) * s <= F * s
        BY <1>1, <2>1, <2>3, Products
    <2>5. f < g => (f + 1) * s <= g * s
        BY <1>1, <1>2, <2>1, Products
    <2>6. f >= g + n => (g + n) * s <= f * s
        BY <1>1, <1>2, <2>1, Products
    <2>7. f + 1 <= E => (f + 1) * s <= E * s
        BY <1>1, <2>1, Products
    <2>8. f >= E => E * s <= f * s
        BY <1>1, <2>1, Products
    <2>9. e <= E => f + 1 <= E
        BY <1>1
    <2>10. e > E => f >= E
        BY <1>1
    <2> DEFINE fs == f * s
               here == (f + 1) * s
    <2>a. /\ fs \in Nat /\ here = fs + s /\ here <= Len(w)
          /\ f < g => here <= first
          /\ f >= g + n => first + Len(d) <= fs
          /\ f + 1 <= E => here <= Len(v)
          /\ f >= E => Len(v) <= fs
        <3> HIDE DEF f
        <3> QED
            BY ONLY <1>1, <1>2, <1>5, <2>2, <2>4, <2>5, <2>6, <2>7, <2>8 DEF fs, here
    <2>b. /\ first \in Nat /\ Len(d) \in Nat /\ Len(v) \in Nat /\ Len(w) \in Nat
          /\ i \in Nat /\ i >= 1 /\ i <= s /\ s \in Nat /\ j = fs + i
        BY <1>1, <1>5, <2>1
    <2> HIDE DEF f, fs, here, j
    <2>11. j \in 1 .. Len(w)
        BY ONLY <2>a, <2>b
    <2>12. ~(j > first /\ j <= first + Len(d))
        BY ONLY <2>3, <2>a, <2>b
    <2>13. f + 1 <= E => j <= Len(v)
        BY ONLY <2>a, <2>b
    <2>14. f >= E => j > Len(v)
        BY ONLY <2>a, <2>b
    <2> HIDE DEF j
    <2>15. w[j] = IF j <= Len(v) THEN v[j] ELSE 0
        BY <1>7, <2>11, <2>12
    <2> QED
        BY <2>2, <2>9, <2>10, <2>11, <2>13, <2>14, <2>15 DEF f, j
<1>11. ASSUME NEW e \in 1 .. E, e \notin start .. start + n - 1
       PROVE  DataRead(p, w, e, 1) = DataRead(p, v, e, 1)
    <2>1. e \in Nat \ {0} /\ e <= F /\ e <= E
        BY <1>1, <1>6
    <2>2. PICK x : DataRead(p, w, e, 1) = Got(1, x) /\ ReadsAt(x, w, (e - 1) * s, s)
        BY <1>9, <2>1
    <2>3. PICK y : DataRead(p, v, e, 1) = Got(1, y) /\ ReadsAt(y, v, (e - 1) * s, s)
        <3>1. e + 1 - 1 <= Elements(p, v) /\ 1 \in Nat \ {0}
            BY <2>1 DEF E
        <3>2. PICK y : DataRead(p, v, e, 1) = Got(1, y) /\ ReadsAt(y, v, (e - 1) * s, 1 * s)
            BY <2>1, <3>1, ReadElements DEF s
        <3>3. 1 * s = s
            BY <1>1
        <3> QED
            BY <3>2, <3>3
    <2>4. \A i \in 1 .. s : w[(e - 1) * s + i] = v[(e - 1) * s + i]
        BY <1>10, <1>11, <2>1
    <2>5. x = y
        <3>1. 1 \in 1 .. s
            BY <1>1
        <3>2. (e - 1) * s \in Nat
            BY <1>10, <1>11, <2>1, <3>1
        <3> QED
            BY <1>1, <2>2, <2>3, <2>4, <3>2, SameRead
    <2> QED
        BY <2>2, <2>3, <2>5
<1>12. ASSUME NEW e \in E + 1 .. start - 1
       PROVE  DataRead(p, w, e, 1).data = [i \in 1 .. s |-> 0]
    <2>1. e \in Nat \ {0} /\ e <= F /\ e > E /\ e \notin start .. start + n - 1
        <3>1. E \in Nat /\ F \in Nat /\ g \in Nat /\ n \in Nat /\ start = g + 1
            BY ONLY <1>1, <1>2
        <3>2. F >= g + n /\ e \in E + 1 .. start - 1
            BY ONLY <1>6, e \in E + 1 .. start - 1
        <3> QED
            BY ONLY <3>1, <3>2
    <2>2. PICK x : DataRead(p, w, e, 1) = Got(1, x) /\ ReadsAt(x, w, (e - 1) * s, s)
        BY <1>9, <2>1
    <2>3. ASSUME NEW i \in 1 .. s
          PROVE  w[(e - 1) * s + i] = 0
        <3> DEFINE j == (e - 1) * s + i
        <3>1. j \in 1 .. Len(w) /\ w[j] = (IF j <= Len(v) THEN v[j] ELSE 0) /\ j > Len(v)
            BY <1>10, <2>1
        <3> HIDE DEF j
        <3>2. w[j] = 0
            BY <1>1, <3>1
        <3> QED
            BY <3>2 DEF j
    <2>4. x = [i \in 1 .. s |-> 0]
        <3>1. x \in Seq(Nat) /\ Len(x) = s /\ \A i \in 1 .. s : x[i] = 0
            BY <2>2, <2>3 DEF ReadsAt
        <3>2. x = [i \in 1 .. s |-> x[i]]
            BY <1>1, <3>1
        <3> QED
            BY <3>1, <3>2
    <2>5. Got(1, x).data = x
        BY DEF Got
    <2> QED
        BY <2>2, <2>4, <2>5
<1>13. Elements(p, w) >= start + n - 1
    BY <1>1, <1>2, <1>6 DEF F
<1> QED
    BY <1>8, <1>11, <1>12, <1>13 DEF WriteShows, E, s

LEMMA SplicedIs ==
    ASSUME NEW v, NEW first, NEW d, Spliced(v, first, d) \in Seq(Nat),
           first + Len(d) \in Nat, Len(v) \in Nat
    PROVE  SplicedOf(Spliced(v, first, d), v, first, d)
<1> DEFINE m == IF first + Len(d) > Len(v) THEN first + Len(d) ELSE Len(v)
           w == Spliced(v, first, d)
<1>1. w = [i \in 1 .. m |-> IF i > first /\ i <= first + Len(d) THEN d[i - first]
                            ELSE IF i <= Len(v) THEN v[i] ELSE 0]
    BY DEF Spliced
<1>2. m \in Nat
    OBVIOUS
<1> HIDE DEF m, w
<1>3. w \in Seq(Nat)
    BY DEF w
<1>4. Len(w) = m
    <2>1. DOMAIN w = 1 .. m
        BY <1>1
    <2>2. DOMAIN w = 1 .. Len(w) /\ Len(w) \in Nat
        BY <1>3
    <2> QED
        BY <1>2, <2>1, <2>2
<1>5. \A i \in 1 .. Len(w) : w[i] = IF i > first /\ i <= first + Len(d) THEN d[i - first]
                                    ELSE IF i <= Len(v) THEN v[i] ELSE 0
    BY <1>1, <1>4
<1>6. SplicedOf(w, v, first, d)
    BY <1>3, <1>4, <1>5 DEF SplicedOf, m
<1> QED
    BY <1>6 DEF w

\* What DataProperty::write leaves
DataWritten(w, dev, p, start, n, d) ==
    /\ \A o \in DataProperty \ {p} : w.device.value[o] = dev.value[o]
    /\ w.device.progMode = dev.progMode /\ w.device.securityMode = dev.securityMode
    /\ \/ w.count = 0 /\ w.device = dev
       \/ start = 0 /\ w.count = 1 /\ w.device.value[p] = << >>
       \/ /\ start # 0 /\ n # 0 /\ w.count = n
          /\ WriteShows(p, dev.value[p], w.device.value[p], start, n, SubSeq(d, 1, n * Desc[p].size))

LEMMA DataWriteShows ==
    ASSUME NEW dev, DeviceInv(dev), NEW p \in DataProperty,
           NEW start \in Nat, NEW n \in Nat, NEW d \in Seq(Nat),
           start # 0 => n * Desc[p].size <= Len(d)
    PROVE  DataWritten(DataWrite(dev, p, start, n, d), dev, p, start, n, d)
<1> DEFINE s == Desc[p].size
           w == DataWrite(dev, p, start, n, d)
<1>1. s \in Nat /\ Desc[p].max \in Nat /\ Whole(p, dev.value[p]) /\ dev \in Device
    BY ManagementAssumption DEF DataProperty, DeviceInv
<1>2. ASSUME NEW v
      PROVE  LET new == [dev EXCEPT !.value[p] = v]
             IN /\ new.value[p] = v /\ \A o \in DataProperty \ {p} : new.value[o] = dev.value[o]
                /\ new.progMode = dev.progMode /\ new.securityMode = dev.securityMode
    BY <1>1 DEF Device
<1>3. CASE ~Fits(p, start, n) \/ (start = 0 /\ ~(n = 1 /\ d[1] = 0 /\ d[2] = 0))
    <2>1. w.count = 0 /\ w.device = dev
        BY <1>3 DEF DataWrite, Wrote
    <2> HIDE DEF w
    <2> QED
        BY <2>1 DEF DataWritten, w
<1>4. CASE start = 0 /\ Fits(p, start, n) /\ n = 1 /\ d[1] = 0 /\ d[2] = 0
    <2>1. w.count = 1 /\ w.device = [dev EXCEPT !.value[p] = << >>]
        BY <1>4 DEF DataWrite, Wrote
    <2> HIDE DEF w
    <2>2. /\ w.device.value[p] = << >> /\ \A o \in DataProperty \ {p} : w.device.value[o] = dev.value[o]
          /\ w.device.progMode = dev.progMode /\ w.device.securityMode = dev.securityMode
        BY <1>2, <2>1, SMTT(60)
    <2> QED
        BY <1>4, <2>1, <2>2 DEF DataWritten, w
<1>5. CASE start # 0 /\ Fits(p, start, n)
    <2> DEFINE b == SubSeq(d, 1, n * s)
               first == (start - 1) * s
               v == dev.value[p]
               x == Spliced(v, first, b)
    <2>0. n \in Nat \ {0} /\ start \in Nat \ {0}
        BY <1>5 DEF Fits
    <2>1. n * s \in Nat /\ n * s <= Len(d)
        BY <1>1, <1>5, Products
    <2>2. b \in Seq(Nat) /\ Len(b) = n * s
        <3> HIDE DEF s
        <3>1. n * s \in Nat /\ n * s <= Len(d) /\ \A i \in 1 .. n * s : d[i] \in Nat
            BY <2>1
        <3> QED
            BY <3>1, SubSeqProperties
    <2> HIDE DEF b
    <2>3. Whole(p, x)
        BY <1>1, <1>5, <2>0, <2>2, SplicedWhole
    <2>4. w.count = n /\ w.device = [dev EXCEPT !.value[p] = x]
        BY <1>1, <1>5 DEF DataWrite, Wrote, Device, b
    <2>5. first \in Nat
        <3> DEFINE g == start - 1
        <3>1. g \in Nat
            BY <2>0
        <3> HIDE DEF g, s
        <3>2. g * s \in Nat
            BY ONLY <1>1, <3>1, Products
        <3> QED
            BY <3>2 DEF g
    <2> HIDE DEF first
    <2>6. SplicedOf(x, v, first, b)
        <3>1. x \in Seq(Nat) /\ Len(b) \in Nat /\ Len(v) \in Nat
            BY <1>1, <2>2, <2>3, SMTT(60) DEF Whole
        <3>2. first + Len(b) \in Nat
            BY ONLY <2>5, <3>1
        <3> HIDE DEF v
        <3> QED
            BY ONLY <3>1, <3>2, SplicedIs DEF x
    <2> HIDE DEF w, x
    <2>7. WriteShows(p, v, x, start, n, b)
        BY <1>1, <2>0, <2>2, <2>3, <2>6, SpliceShows DEF first
    <2>8. /\ w.device.value[p] = x /\ \A o \in DataProperty \ {p} : w.device.value[o] = dev.value[o]
          /\ w.device.progMode = dev.progMode /\ w.device.securityMode = dev.securityMode
        <3> DEFINE new == [dev EXCEPT !.value[p] = x]
        <3>1. /\ new.value[p] = x /\ \A o \in DataProperty \ {p} : new.value[o] = dev.value[o]
              /\ new.progMode = dev.progMode /\ new.securityMode = dev.securityMode
            BY <1>1 DEF Device
        <3>2. w.device = new
            BY <2>4
        <3> HIDE DEF new
        <3> QED
            BY <3>1, <3>2
    <2> QED
        BY <1>5, <2>0, <2>4, <2>7, <2>8 DEF DataWritten, w, b
<1> QED
    BY <1>3, <1>4, <1>5

\* The write of a data property, as it is asked for
LEMMA WrittenShows ==
    ASSUME ManagementInv, NEW q, Typed(q), q.p \in DataProperty
    PROVE  LET w == Written(q)
           IN \/ w.count = 0 /\ w.device = device
              \/ /\ PropertyWriteAllowed(q.p, q) /\ DataWritten(w, device, q.p, q.start, q.count, q.data)
                 /\ q.start # 0 => q.count * Desc[q.p].size <= Len(q.data)
<1> DEFINE w == Written(q)
           n == q.count * Desc[q.p].size
<1>1. CASE PropertyWriteAllowed(q.p, q) /\ ~Short(q)
    <2>1. w = DataWrite(device, q.p, q.start, q.count, q.data)
        BY <1>1 DEF Written, PropertyWrite, DataProperty
    <2>2. q.start # 0 => n <= Len(q.data)
        <3>1. n \in Nat /\ Len(q.data) \in Nat
            <4>1. Desc[q.p].size \in Nat /\ q.count \in Nat /\ q.data \in Seq(Nat)
                BY ManagementAssumption DEF Typed, DataProperty
            <4> QED
                BY <4>1, Products
        <3>2. q.start # 0 => ~(n > Len(q.data))
            BY <1>1 DEF Short
        <3> HIDE DEF n
        <3> QED
            BY <3>1, <3>2
    <2>3. DataWritten(w, device, q.p, q.start, q.count, q.data)
        BY <2>1, <2>2, DataWriteShows DEF ManagementInv, Typed
    <2> HIDE DEF w
    <2> QED
        BY <1>1, <2>2, <2>3 DEF w
<1>2. CASE ~(PropertyWriteAllowed(q.p, q) /\ ~Short(q))
    BY <1>2 DEF Written, Wrote
<1> QED
    BY <1>1, <1>2

\* A write that counts has done what was asked.
LEMMA CountedAsAsked ==
    ASSUME NEW q, Typed(q), q.p \in DataProperty, NEW w, device' = w.device,
           DataWritten(w, device, q.p, q.start, q.count, q.data), w.count # 0
    PROVE  WrittenAsAsked(q, w.count)
<1> DEFINE old  == device.value[q.p]
           new  == w.device.value[q.p]
           d(k) == SubSeq(q.data, 1, k * Desc[q.p].size)
<1>1. \A o \in DataProperty \ {q.p} : w.device.value[o] = device.value[o]
    BY DEF DataWritten
<1>2. CASE q.start = 0
    <2>1. new = << >>
        BY <1>2 DEF DataWritten
    <2> QED
        BY <1>2, <2>1 DEF WrittenAsAsked
<1>3. CASE q.start # 0
    <2>1. w.count = q.count /\ WriteShows(q.p, old, new, q.start, q.count, d(q.count))
        BY <1>3 DEF DataWritten
    <2>2. device'.value = w.device.value
        OBVIOUS
    <2>3. \A k, x : Got(k, x).data = x
        BY DEF Got
    <2> HIDE DEF d
    <2>4. /\ DataRead(q.p, new, q.start, q.count).data = d(q.count)
          /\ \A e \in 1 .. Elements(q.p, old) : e \notin q.start .. q.start + q.count - 1 =>
                DataRead(q.p, new, e, 1) = DataRead(q.p, old, e, 1)
          /\ \A e \in Elements(q.p, old) + 1 .. q.start - 1 :
                DataRead(q.p, new, e, 1).data = [i \in 1 .. Desc[q.p].size |-> 0]
        <3> HIDE DEF new, old
        <3>1. DataRead(q.p, new, q.start, q.count) = Got(q.count, d(q.count))
            BY ONLY <2>1 DEF WriteShows
        <3>2. Got(q.count, d(q.count)).data = d(q.count)
            BY ONLY <2>3
        <3>3. \A e \in 1 .. Elements(q.p, old) : e \notin q.start .. q.start + q.count - 1 =>
                 DataRead(q.p, new, e, 1) = DataRead(q.p, old, e, 1)
            BY ONLY <2>1 DEF WriteShows
        <3>4. \A e \in Elements(q.p, old) + 1 .. q.start - 1 :
                 DataRead(q.p, new, e, 1).data = [i \in 1 .. Desc[q.p].size |-> 0]
            BY ONLY <2>1 DEF WriteShows
        <3> QED
            BY ONLY <3>1, <3>2, <3>3, <3>4
    <2> QED
        BY <1>1, <1>3, <2>1, <2>2, <2>4 DEF WrittenAsAsked, d
<1> QED
    BY <1>2, <1>3

\* What a plain write answers: as many elements as were written, or none of a secret
LEMMA PlainAnswers ==
    ASSUME NEW q, Typed(q), q.service = "PropertyValueWrite", q.p \in DataProperty, NEW w,
           PropertyWriteAllowed(q.p, q), q.start # 0 => q.count * Desc[q.p].size <= Len(q.data),
           DataWritten(w, device, q.p, q.start, q.count, q.data), w.count # 0
    PROVE  LET r == PlainRead(w.device, q, w.count)
           IN r.count = w.count \/ (r.count = 0 /\ Desc[q.p].secret = "writeonly")
<1> DEFINE r == PlainRead(w.device, q, w.count)
           s == Desc[q.p].size
           allowed == PropertyReadAllowed(w.device, q.p, q)
<1>1. q.p \in Property /\ Desc[q.p].kind = "data"
    BY DEF DataProperty
<1>2. CASE ~allowed
    <2>1. r = Refused
        BY <1>2 DEF PlainRead, ReadBack
    <2>2. Desc[q.p].secret = "writeonly"
        BY <1>1, <1>2 DEF PropertyReadAllowed, PropertyWriteAllowed, ManagementWriteAllowed, ProgMode,
                          Sensitive, DataWritten
    <2> QED
        BY <2>1, <2>2 DEF Refused, Got
<1>3. CASE allowed /\ q.start = 0
    <2>1. w.count = 1
        BY <1>3 DEF DataWritten
    <2>2. r = DataRead(q.p, w.device.value[q.p], 0, 1)
        BY <1>1, <1>3, <2>1 DEF PlainRead, ReadBack, PropertyRead
    <2> QED
        BY <2>1, <2>2 DEF DataRead, Got
<1>4. CASE allowed /\ q.start # 0
    <2>1. w.count = q.count /\ WriteShows(q.p, device.value[q.p], w.device.value[q.p], q.start, q.count,
                                          SubSeq(q.data, 1, q.count * s))
        BY <1>4 DEF DataWritten
    <2>2. ~(q.start > 0 /\ q.count * s > PlainLimit)
        <3> DEFINE m == q.count * s
        <3>1. m <= Len(q.data) /\ Len(q.data) <= PlainLimit
            BY <1>4 DEF Typed
        <3>2. m \in Nat /\ Len(q.data) \in Nat /\ PlainLimit \in Nat
            <4>1. s \in Nat /\ q.count \in Nat /\ q.data \in Seq(Nat) /\ PlainLimit \in Nat
                BY <1>1, ManagementAssumption DEF Typed
            <4> QED
                BY <4>1, Products
        <3> HIDE DEF m
        <3>3. ~(m > PlainLimit)
            BY <3>1, <3>2
        <3> QED
            BY <3>3 DEF m
    <2>3. r = DataRead(q.p, w.device.value[q.p], q.start, q.count)
        <3>1. r = ReadBack(w.device, q, q.count, PlainLimit)
            BY <2>1 DEF PlainRead
        <3>2. ReadBack(w.device, q, q.count, PlainLimit) = PropertyRead(w.device, q.p, q.start, q.count)
            BY <1>4, <2>2 DEF ReadBack
        <3> QED
            BY <1>1, <3>1, <3>2 DEF PropertyRead
    <2>4. r = Got(q.count, SubSeq(q.data, 1, q.count * s))
        BY <2>1, <2>3 DEF WriteShows
    <2> HIDE DEF r
    <2> QED
        BY <2>1, <2>4 DEF Got, r
<1> QED
    BY <1>2, <1>3, <1>4

PropertyAnswerTrue(q, a) ==
    IF a.count > 0 THEN WrittenAsAsked(q, a.count)
    ELSE Same \/ (q.service = "PropertyValueWrite" /\ Desc[q.p].secret = "writeonly")

LEMMA PropertyAnswers ==
    ASSUME ManagementInv, NEW q, Typed(q), Serves(q), q.p \in DataProperty,
           q.service \in {"PropertyValueWrite", "PropertyValueExtWriteCon", "LocalWrite"}
    PROVE  PropertyAnswerTrue(q, last'.answer)
<1> DEFINE w == Written(q)
           a == last'.answer
           r == PlainRead(w.device, q, w.count)
<1>1. device' = w.device /\ a.count = IF q.service = "PropertyValueWrite" THEN r.count ELSE w.count
    <2>1. CASE q.service = "PropertyValueWrite"
        <3>1. PropertyValueWrite(q)
            BY <2>1 DEF Serves, Plain
        <3> QED
            BY <2>1, <3>1 DEF PropertyValueWrite, Finish, Counted, Reply, Answer
    <2>2. CASE q.service = "PropertyValueExtWriteCon"
        <3>1. PropertyValueExtWrite(q)
            BY <2>2 DEF Serves, Plain
        <3> QED
            BY <2>2, <3>1 DEF PropertyValueExtWrite, Finish, Counted, Reply, Answer
    <2>3. CASE q.service = "LocalWrite"
        <3>1. LocalWrite(q)
            BY <2>3 DEF Serves, Plain
        <3> QED
            BY <2>3, <3>1 DEF LocalWrite, Finish, Counted, Answer
    <2> QED
        BY <2>1, <2>2, <2>3
<1>2. CASE w.count = 0 /\ w.device = device
    <2>1. a.count = 0
        BY <1>1, <1>2 DEF PlainRead, Refused, Got
    <2> QED
        BY <1>1, <1>2, <2>1 DEF PropertyAnswerTrue, Same
<1>3. CASE /\ PropertyWriteAllowed(q.p, q) /\ DataWritten(w, device, q.p, q.start, q.count, q.data)
           /\ q.start # 0 => q.count * Desc[q.p].size <= Len(q.data)
           /\ w.count # 0
    <2> HIDE DEF w
    <2>1. WrittenAsAsked(q, w.count)
        BY <1>1, <1>3, CountedAsAsked
    <2>2. w.count > 0
        BY <1>3 DEF DataWritten, Typed
    <2>3. a.count = w.count \/ (a.count = 0 /\ q.service = "PropertyValueWrite" /\ Desc[q.p].secret = "writeonly")
        BY <1>1, <1>3, PlainAnswers
    <2> HIDE DEF a
    <2> QED
        BY <2>1, <2>2, <2>3 DEF PropertyAnswerTrue, a
<1> QED
    <2>1. DataWritten(w, device, q.p, q.start, q.count, q.data) /\ w.count = 0 => w.device = device
        <3> HIDE DEF w
        <3>1. q.count \in Nat
            BY DEF Typed
        <3> QED
            BY <3>1 DEF DataWritten
    <2> QED
        BY <1>2, <1>3, <2>1, WrittenShows

\* What is stored is what was sent, where it was sent to.
LEMMA StoredShows ==
    ASSUME ManagementInv, NEW q, Typed(q), MemoryRange(q.address, Len(q.data))
    PROVE  MemoryAt(Stored(q), q.address, Len(q.data)) = q.data
<1> DEFINE n == Len(q.data)
           f == q.address
           d == q.data
           new == [a \in DOMAIN device.memory |->
                      IF a >= f /\ a < f + n THEN d[a - f + 1] ELSE device.memory[a]]
<1>1. d \in Seq(Nat) /\ n \in Nat /\ f \in Nat /\ MemorySize \in Nat /\ f + n <= MemorySize
    BY ManagementAssumption DEF Typed, MemoryRange
<1>2. Stored(q).memory = new /\ DOMAIN device.memory = 0 .. MemorySize - 1
    <2>1. device \in Device
        BY DEF ManagementInv, DeviceInv
    <2> QED
        BY <2>1 DEF Stored, Device
<1>3. ASSUME NEW i \in 1 .. n
      PROVE  Stored(q).memory[f + i - 1] = d[i]
    <2> DEFINE a == f + i - 1
    <2>1. a \in 0 .. MemorySize - 1 /\ a >= f /\ a < f + n /\ a - f + 1 = i
        BY <1>1
    <2> HIDE DEF a
    <2>2. new[a] = d[i]
        BY <1>2, <2>1
    <2> QED
        BY <1>2, <2>2 DEF a
<1>4. MemoryAt(Stored(q), f, n) = [i \in 1 .. n |-> d[i]]
    BY <1>3 DEF MemoryAt
<1>5. d = [i \in 1 .. n |-> d[i]]
    BY <1>1
<1> QED
    BY <1>4, <1>5

LEMMA MemoryAnswers ==
    ASSUME ManagementInv, NEW q, Typed(q), Serves(q)
    PROVE  LET a == last'.answer
           IN /\ q.service = "MemoryExtWrite" =>
                    IF a.code = "Success" THEN MemoryAt(device', q.address, Len(q.data)) = q.data ELSE Same
              /\ q.service \in Plain \cup {"UserMemoryWrite"} /\ a.count > 0 =>
                    MemoryAt(device', q.address, a.count) = q.data
<1> DEFINE a == last'.answer
           n == Len(q.data)
<1>1. ASSUME q.service = "MemoryExtWrite"
      PROVE  IF a.code = "Success" THEN MemoryAt(device', q.address, n) = q.data ELSE Same
    <2> DEFINE code == IF ~MemoryAccessAllowed(q, q.address, n) THEN "AccessDenied"
                       ELSE IF n = 0 \/ ~MemoryRange(q.address, n) THEN "AddressVoid" ELSE "Success"
    <2>1. MemoryExtWrite(q)
        BY <1>1 DEF Serves, Plain
    <2>2. a.code = code /\ device' = IF code = "Success" THEN Stored(q) ELSE device
        BY <2>1 DEF MemoryExtWrite, Finish, Counted, Reply, Answer
    <2>3. code = "Success" => MemoryRange(q.address, n)
        OBVIOUS
    <2> HIDE DEF code
    <2> QED
        BY <2>2, <2>3, StoredShows DEF Same
<1>2. ASSUME q.service \in Plain \cup {"UserMemoryWrite"}, a.count > 0
      PROVE  MemoryAt(device', q.address, a.count) = q.data
    <2>1. MemoryWrite(q)
        BY <1>2 DEF Serves, Plain
    <2>2. Silence.count = 0 /\ ~(0 > 0)
        BY DEF Silence, Answer
    <2>3. a # Silence
        BY <1>2, <2>2
    <2>4. a = MemoryAnswer(q, StoredOrNot(q), n) /\ device' = StoredOrNot(q)
        BY <2>1, <2>3 DEF MemoryWrite, Tell, Finish, Counted
    <2>5. MemoryRange(q.address, n) /\ a.count = n
        <3>1. \A k, d : Reply(q, "", k, d).count = k
            BY DEF Reply, Answer
        <3>2. \/ MemoryRange(q.address, n) /\ a = Reply(q, "", n, MemoryAt(StoredOrNot(q), q.address, n))
              \/ a = Reply(q, "", 0, << >>)
            BY <2>4 DEF MemoryAnswer
        <3> HIDE DEF a, n
        <3>3. a.count > 0
            BY <1>2 DEF a
        <3> QED
            BY <2>2, <3>1, <3>2, <3>3
    <2>6. device' = Stored(q)
        BY <2>4, <2>5 DEF StoredOrNot
    <2> QED
        BY <2>5, <2>6, StoredShows
<1> QED
    BY <1>1, <1>2

LEMMA LoadEventCounts ==
    ASSUME NEW dev, NEW d
    PROVE  LoadEvent(dev, d).count = 1
<1> DEFINE To(s) == [dev EXCEPT !.load = s]
           freed == [To(Unloaded) EXCEPT !.allocated = FALSE, !.armed = @ \/ dev.allocated]
           given == [dev EXCEPT !.allocated = d[3] > 0, !.armed = @ \/ dev.allocated]
<1>1. LoadEvent(dev, d) \in {Wrote(1, To(Failed), FALSE), Wrote(1, To(Loading), FALSE),
             Wrote(1, To(Loaded), TRUE), Wrote(1, To(Unloaded), FALSE), Wrote(1, freed, FALSE),
             Wrote(1, given, FALSE), Wrote(1, dev, FALSE)}
    <2> HIDE DEF freed, given, To
    <2> QED
        BY DEF LoadEvent, freed, given, To
<1> HIDE DEF freed, given, To
<1> QED
    BY <1>1 DEF Wrote

CommandAnswerTrue(q, a) ==
    /\ q.service \in {"FunctionPropertyCommand", "FunctionPropertyExtCommand"} =>
          Same \/ a.code = "Success"
    /\ q.service = "Restart" => Same \/ a.code \in {"", "Success"}

LEMMA CommandAnswers ==
    ASSUME NEW q, Serves(q)
    PROVE  CommandAnswerTrue(q, last'.answer)
<1> DEFINE a == last'.answer
<1>1. ASSUME NEW answer, Tell(q, answer)
      PROVE  Same
    BY <1>1 DEF Tell, Finish, Same
<1>2. ASSUME NEW n, NEW d, LET r == ModeCommand(q.data) IN Finish(q, r.device, FALSE, Reply(q, r.code, n, d))
      PROVE  Same \/ a.code = "Success"
    <2> DEFINE r == ModeCommand(q.data)
    <2>1. r.device = device \/ r.code = "Success"
        BY ModeResults
    <2> HIDE DEF r
    <2>2. device' = r.device /\ a.code = r.code
        BY <1>2 DEF Finish, Counted, Reply, Answer, r
    <2> QED
        BY <2>1, <2>2 DEF Same
<1>3. ASSUME Desc[q.p].kind = "control", ControlCommand(q)
      PROVE  Same \/ a.code = "Success"
    <2> DEFINE w == IF Short([q EXCEPT !.start = 1, !.count = 1]) THEN Wrote(0, device, FALSE)
                    ELSE PropertyWrite(device, q.p, 1, 1, q.data)
    <2>1. Wrote(0, device, FALSE).device = device
        BY DEF Wrote
    <2>2. w.device = device \/ w.count = 1
        <3>1. w = Wrote(0, device, FALSE) \/ w = LoadEvent(device, q.data)
            BY <1>3 DEF PropertyWrite
        <3> HIDE DEF w
        <3>2. CASE w = Wrote(0, device, FALSE)
            BY ONLY <2>1, <3>2
        <3>3. CASE w = LoadEvent(device, q.data)
            <4>1. LoadEvent(device, q.data).count = 1
                BY LoadEventCounts
            <4> QED
                BY ONLY <3>3, <4>1
        <3> QED
            BY ONLY <3>1, <3>2, <3>3
    <2>3. device' = w.device /\ (w.count = 1 => a.code = "Success")
        <3>1. \A saves : Finish(q, w.device, saves, last'.answer) => device' = w.device
            BY DEF Finish
        <3> QED
            BY <1>3 DEF ControlCommand, Finish, Counted, Reply, Answer
    <2> HIDE DEF w
    <2> QED
        BY <2>2, <2>3 DEF Same
<1>4. ASSUME q.service = "FunctionPropertyCommand"
      PROVE  Same \/ a.code = "Success"
    <2>1. FunctionPropertyCommand(q)
        BY <1>4 DEF Serves, Plain
    <2> QED
        BY <1>1, <1>2, <2>1 DEF FunctionPropertyCommand
<1>5. ASSUME q.service = "FunctionPropertyExtCommand"
      PROVE  Same \/ a.code = "Success"
    <2>1. FunctionPropertyExtCommand(q)
        BY <1>5 DEF Serves, Plain
    <2> QED
        BY <1>1, <1>2, <1>3, <2>1 DEF FunctionPropertyExtCommand
<1>6. ASSUME q.service = "Restart"
      PROVE  Same \/ a.code \in {"", "Success"}
    <2>1. Restart(q)
        BY <1>6 DEF Serves, Plain
    <2>2. CASE \E answer : Tell(q, answer)
        BY <1>1, <2>2
    <2>3. CASE Counted(q, Silence) \/ Counted(q, Answer(ToConnected, "Success", 0, << >>))
        <3>1. Silence.code = "" /\ Answer(ToConnected, "Success", 0, << >>).code = "Success"
            BY DEF Silence, Answer
        <3>2. a = Silence \/ a = Answer(ToConnected, "Success", 0, << >>)
            BY <2>3 DEF Counted
        <3> HIDE DEF a
        <3>3. CASE a = Silence
            BY ONLY <3>1, <3>3
        <3>4. CASE a = Answer(ToConnected, "Success", 0, << >>)
            BY ONLY <3>1, <3>4
        <3> QED
            BY <3>2, <3>3, <3>4
    <2> QED
        BY <2>1, <2>2, <2>3 DEF Restart
<1> QED
    BY <1>4, <1>5, <1>6 DEF CommandAnswerTrue

\* What is answered is what happened, to the octet.
THEOREM AnswersAlwaysTrue == Spec => AnswersTrue
<1> DEFINE True == LET q == last'.request  a == last'.answer
       IN CASE q.service \in {"PropertyValueWrite", "PropertyValueExtWriteCon", "LocalWrite"}
               /\ q.p \in DataProperty ->
                    IF a.count > 0 THEN WrittenAsAsked(q, a.count)
                    ELSE Same \/ (q.service = "PropertyValueWrite" /\ Desc[q.p].secret = "writeonly")
            [] q.service = "MemoryExtWrite" ->
                    IF a.code = "Success" THEN MemoryAt(device', q.address, Len(q.data)) = q.data ELSE Same
            [] q.service \in Plain \cup {"UserMemoryWrite"} /\ a.count > 0 ->
                    MemoryAt(device', q.address, a.count) = q.data
            [] q.service \in {"FunctionPropertyCommand", "FunctionPropertyExtCommand"} ->
                    Same \/ a.code = "Success"
            [] q.service = "Restart" -> Same \/ a.code \in {"", "Success"}
            [] OTHER -> TRUE
<1>1. ASSUME ManagementInv, [Next]_vars
      PROVE  [True]_vars
    <2>1. CASE Served
        <3>1. PICK q : Typed(q) /\ Serves(q)
            BY <2>1, ServedIs
        <3>2. last'.request = q
            BY <1>1, <3>1, ServedKeeps DEF Kept
        <3> DEFINE a == last'.answer
        <3>3. q.p \in DataProperty
              /\ q.service \in {"PropertyValueWrite", "PropertyValueExtWriteCon", "LocalWrite"} =>
                  PropertyAnswerTrue(q, a)
            BY <1>1, <3>1, PropertyAnswers
        <3>4. /\ q.service = "MemoryExtWrite" =>
                    IF a.code = "Success" THEN MemoryAt(device', q.address, Len(q.data)) = q.data ELSE Same
              /\ q.service \in Plain \cup {"UserMemoryWrite"} /\ a.count > 0 =>
                    MemoryAt(device', q.address, a.count) = q.data
            BY <1>1, <3>1, MemoryAnswers
        <3>5. CommandAnswerTrue(q, a)
            BY <3>1, CommandAnswers
        <3> HIDE DEF a
        <3> QED
            BY <3>2, <3>3, <3>4, <3>5 DEF PropertyAnswerTrue, CommandAnswerTrue, a
    <2>2. CASE \/ ProgButton \/ LocalFactoryReset \/ DelayedSave \/ PowerLoss
               \/ \E c \in Client : PeerConnects(c) \/ RestartRequest(c)
               \/ Disconnected \/ ConnectConfirm \/ SendRestart \/ FinishRestart
        <3>1. last'.request.service = "none"
            BY <1>1, <2>2, LocallyKeeps DEF NoRequest
        <3> QED
            BY <3>1 DEF Plain
    <2> QED
        BY <1>1, <2>1, <2>2 DEF Next
<1>2. Spec => []ManagementInv
    BY DevicesAlwaysRestorable
<1>3. ManagementInv /\ [Next]_vars => [True]_vars
    BY <1>1
<1> QED
    BY <1>2, <1>3, PTL DEF Spec, AnswersTrue
=============================================================================
