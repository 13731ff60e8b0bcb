------------------------- MODULE SecureNumbersProofs -------------------------
(***************************************************************************)
(* What makes nonces fresh, for any sizes and numbers of events.           *)
(* The numbers of one device: none is handed out twice, for any last       *)
(* number, any size of reservation and any set of domains.                 *)
(* Two devices that synchronise their sequence numbers over a network that *)
(* loses, delays, repeats and reorders: nothing the receiver learns locks  *)
(* the sender out, a completed synchronisation puts the sender above all   *)
(* that the receiver rejects, and the receiver hands telegrams on once and *)
(* in their order.                                                         *)
(* Secure routing, with any nodes, keys, restarts and failing writes: the  *)
(* timers give every frame a nonce of its own, and a frame that is         *)
(* repeated is handed on once.                                             *)
(***************************************************************************)
EXTENDS MCSecureNumbers, FiniteSetTheorems, TLAPS

-----------------------------------------------------------------------------
(* The numbers of one device.  What was handed out is in order and covered *)
(* by the journal, and so is what is reserved in RAM, always (Durable);    *)
(* while the journal is healthy the next number is above all of them       *)
(* (Ahead).  A power loss destroys the second, and loading the journal     *)
(* restores it from the first.                                             *)

Durable(s) ==
    /\ s \in Counter
    /\ s.reserved <= s.journal
    /\ Increasing(s)
    /\ \A i \in 1 .. Len(s.sent) : s.sent[i] <= s.journal

Ahead(s) == \A i \in 1 .. Len(s.sent) : s.sent[i] < s.next

NumbersInv ==
    /\ outgoing \in [Access -> Counter]
    /\ journalHealthy \in BOOLEAN /\ factoryProvisioned \in BOOLEAN
    /\ \A acc \in Access : Durable(outgoing[acc])
    /\ journalHealthy => \A acc \in Access : Ahead(outgoing[acc])

USE OutgoingAssumption

-----------------------------------------------------------------------------
\* Writing the property changes nothing else.
LEMMA WritePropertyKeeps ==
    ASSUME NEW s \in Counter, NEW n \in Nat
    PROVE  /\ WriteSequenceProperty(s, n) \in Counter
           /\ WriteSequenceProperty(s, n).next = s.next
           /\ WriteSequenceProperty(s, n).reserved = s.reserved
           /\ WriteSequenceProperty(s, n).journal = s.journal
           /\ WriteSequenceProperty(s, n).image = s.image
           /\ WriteSequenceProperty(s, n).sent = s.sent
  BY SMTT(60) DEF WriteSequenceProperty, Lesser, Counter, Sequence

\* Loading the journal puts the counter ahead of every number ever handed out.
LEMMA LoadRecovers ==
    ASSUME NEW s, Durable(s)
    PROVE  Durable(Load(s)) /\ Ahead(Load(s))
<1> DEFINE kept == Greater(s.journal, s.reserved)
           next     == Greater(kept + 1, Greater(s.next, SequenceProperty(s)))
           t        == [s EXCEPT !.reserved = kept, !.next = next]
<1>1. s \in Counter  BY DEF Durable
<1>2. kept = s.journal /\ kept \in Sequence
  BY <1>1 DEF Durable, Greater, Counter, Sequence
<1>3. next \in 1 .. MaxSequence + 1 /\ next > s.journal
  BY <1>1, <1>2 DEF Greater, SequenceProperty, Counter, Sequence
<1>4. t \in Counter  BY <1>1, <1>2, <1>3 DEF Counter
<1>5. t.sent = s.sent /\ t.journal = s.journal /\ t.next = next /\ t.reserved = kept
  BY <1>1 DEF Counter
<1>6. Load(s) = WriteSequenceProperty(t, next)  BY DEF Load
<1> HIDE DEF t, next, kept
<1>7. /\ Load(s) \in Counter
      /\ Load(s).sent = s.sent /\ Load(s).journal = s.journal
      /\ Load(s).next = next /\ Load(s).reserved = kept
  <2>1. next \in Nat  BY <1>3
  <2> QED  BY <2>1, <1>4, <1>5, <1>6, WritePropertyKeeps
<1>8. \A i \in 1 .. Len(s.sent) : s.sent[i] \in Nat /\ s.sent[i] <= s.journal
  BY <1>1 DEF Durable, Counter
<1>9. next \in Nat /\ s.journal \in Nat  BY <1>1, <1>3 DEF Counter, Sequence
<1>10. Durable(Load(s))  BY <1>2, <1>7, <1>8, <1>9 DEF Durable, Increasing
<1>11. Ahead(Load(s))  BY <1>3, <1>7, <1>8, <1>9 DEF Ahead
<1> QED  BY <1>10, <1>11

\* Raising the counter keeps it ahead, whatever the journal answers.
LEMMA EnsuredKeeps ==
    ASSUME NEW s, Durable(s), Ahead(s), NEW floor \in 1 .. MaxSequence, NEW write \in Write
    PROVE  Durable(Ensured(s, floor, write)) /\ Ahead(Ensured(s, floor, write))
<1>1. s \in Counter  BY DEF Durable
<1>2. \A i \in 1 .. Len(s.sent) : s.sent[i] \in Nat /\ s.sent[i] <= s.journal /\ s.sent[i] < s.next
  BY <1>1 DEF Durable, Ahead, Counter
<1>3. ASSUME NEW j \in Sequence, floor > s.next, floor - 1 > s.reserved => j = floor - 1,
             floor - 1 <= s.reserved => j = s.journal
      PROVE  LET t == [s EXCEPT !.journal = j]
             IN  Durable(Raised(t, floor)) /\ Ahead(Raised(t, floor))
  <2> DEFINE t == [s EXCEPT !.journal = j]
             u == [t EXCEPT !.next = floor, !.reserved = Greater(floor - 1, @)]
  <2>1. t \in Counter  BY <1>1 DEF Counter
  <2>2. t.reserved = s.reserved /\ t.sent = s.sent /\ t.journal = j  BY <1>1 DEF Counter
  <2>3. Greater(floor - 1, t.reserved) \in Sequence /\ Greater(floor - 1, t.reserved) <= j
    BY <1>1, <1>3, <2>2 DEF Durable, Greater, Counter, Sequence
  <2> HIDE DEF t
  <2>4. u \in Counter /\ u.next = floor /\ u.reserved = Greater(floor - 1, t.reserved)
          /\ u.sent = s.sent /\ u.journal = j
    <3>1. floor \in 1 .. MaxSequence + 1  OBVIOUS
    <3> QED  BY <2>1, <2>2, <2>3, <3>1 DEF Counter
  <2>5. Raised(t, floor) = WriteSequenceProperty(u, floor)  BY DEF Raised
  <2> HIDE DEF u
  <2>6. /\ Raised(t, floor) \in Counter /\ Raised(t, floor).next = floor
        /\ Raised(t, floor).reserved <= j
        /\ Raised(t, floor).sent = s.sent /\ Raised(t, floor).journal = j
    <3>1. floor \in Nat  OBVIOUS
    <3>2. /\ WriteSequenceProperty(u, floor) \in Counter
          /\ WriteSequenceProperty(u, floor).next = u.next
          /\ WriteSequenceProperty(u, floor).reserved = u.reserved
          /\ WriteSequenceProperty(u, floor).journal = u.journal
          /\ WriteSequenceProperty(u, floor).sent = u.sent
      BY <2>4, <3>1, WritePropertyKeeps
    <3> QED  BY <2>3, <2>4, <2>5, <3>2
  <2>7. \A i \in 1 .. Len(s.sent) : s.sent[i] <= j /\ s.sent[i] < floor
    BY <1>1, <1>2, <1>3, SMTT(60) DEF Durable, Counter, Sequence
  <2> QED  BY <2>6, <2>7 DEF Durable, Ahead, Increasing, t
<1>4. CASE floor <= s.next
  <2>1. Ensured(s, floor, write) = s
    BY <1>1, <1>4 DEF Ensured, Counter, Sequence
  <2> QED  BY <2>1
<1>5. CASE floor > s.next /\ floor - 1 <= s.reserved
  <2>1. [s EXCEPT !.journal = s.journal] = s  BY <1>1 DEF Counter
  <2>2. s.journal \in Sequence  BY <1>1 DEF Counter
  <2>3. Ensured(s, floor, write) = Raised(s, floor)
    BY <1>1, <1>5 DEF Ensured, Counter, Sequence
  <2> QED  BY <1>1, <1>3, <1>5, <2>1, <2>2, <2>3 DEF Counter, Sequence
<1>6. CASE floor > s.next /\ floor - 1 > s.reserved
  <2> DEFINE t == [s EXCEPT !.journal = floor - 1]
  <2>1. floor - 1 \in Sequence  BY DEF Sequence
  <2>2. CASE write = "ok"
    <3>1. Ensured(s, floor, write) = Raised(t, floor)
      BY <1>1, <1>6, <2>2 DEF Ensured, PersistSequence, Counter, Sequence
    <3> QED  BY <1>1, <1>3, <1>6, <2>1, <3>1 DEF Counter, Sequence
  <2>3. CASE write = "unsure"
    <3>1. Ensured(s, floor, write) = t
      BY <1>1, <1>6, <2>3 DEF Ensured, PersistSequence, Counter, Sequence
    <3>2. t \in Counter /\ t.sent = s.sent /\ t.next = s.next /\ t.reserved = s.reserved
            /\ t.journal = floor - 1
      BY <1>1, <2>1 DEF Counter
    <3>3. \A i \in 1 .. Len(s.sent) : s.sent[i] <= floor - 1
      BY <1>1, <1>2, <1>6 DEF Counter
    <3>4. s.reserved <= floor - 1  BY <1>1, <1>6 DEF Counter, Sequence
    <3> QED  BY <3>1, <3>2, <3>3, <3>4 DEF Durable, Ahead, Increasing
  <2>4. CASE write = "failed"
    <3>1. Ensured(s, floor, write) = s
      BY <1>1, <1>6, <2>4 DEF Ensured, PersistSequence, Counter, Sequence
    <3> QED  BY <3>1
  <2> QED  BY <2>2, <2>3, <2>4 DEF Write
<1> QED  BY <1>1, <1>4, <1>5, <1>6 DEF Counter, Sequence

\* Taking the next number, within the reservation or after opening a new one,
\* hands out a number above all earlier ones that the journal covers.
LEMMA TakenKeeps ==
    ASSUME NEW s, Durable(s), Ahead(s), s.next <= MaxSequence, NEW write \in Write
    PROVE  Durable(Taken(s, write)) /\ Ahead(Taken(s, write))
<1>1. s \in Counter  BY DEF Durable
<1>2. \A i \in 1 .. Len(s.sent) : s.sent[i] \in Nat /\ s.sent[i] <= s.journal /\ s.sent[i] < s.next
  BY <1>1 DEF Durable, Ahead, Counter
<1>3. ASSUME NEW t \in Counter, Durable(t), Ahead(t), t.next <= t.reserved
      PROVE  Durable(HandOut(t)) /\ Ahead(HandOut(t))
  <2> DEFINE u == [t EXCEPT !.next = @ + 1, !.sent = Append(@, t.next)]
  <2>1. t.next \in 1 .. MaxSequence /\ t.next <= t.journal
    BY <1>3 DEF Durable, Counter, Sequence
  <2>2. Append(t.sent, t.next) \in Seq(1 .. MaxSequence)  BY <2>1 DEF Counter
  <2>3. /\ u \in Counter /\ u.next = t.next + 1 /\ u.reserved = t.reserved
        /\ u.journal = t.journal /\ u.sent = Append(t.sent, t.next)
    <3>1. t.next + 1 \in 1 .. MaxSequence + 1  BY <2>1
    <3> QED  BY <1>3, <2>2, <3>1 DEF Counter
  <2>4. HandOut(t) = WriteSequenceProperty(u, t.next + 1)  BY DEF HandOut
  <2> HIDE DEF u
  <2>5. /\ HandOut(t) \in Counter /\ HandOut(t).next = t.next + 1
        /\ HandOut(t).reserved = t.reserved /\ HandOut(t).journal = t.journal
        /\ HandOut(t).sent = Append(t.sent, t.next)
    <3> DEFINE n == t.next + 1
    <3>1. n \in Nat  BY <2>1
    <3>2. u \in Counter  BY <2>3
    <3>3. HandOut(t) = WriteSequenceProperty(u, n)  BY <2>4
    <3> HIDE DEF n
    <3>4. /\ HandOut(t) \in Counter /\ HandOut(t).next = u.next
          /\ HandOut(t).reserved = u.reserved /\ HandOut(t).journal = u.journal
          /\ HandOut(t).sent = u.sent
      BY <3>1, <3>2, <3>3, WritePropertyKeeps
    <3> QED  BY <2>3, <3>4
  <2>6. /\ Len(HandOut(t).sent) = Len(t.sent) + 1
        /\ \A i \in 1 .. Len(t.sent) : HandOut(t).sent[i] = t.sent[i]
        /\ HandOut(t).sent[Len(t.sent) + 1] = t.next
        /\ Len(t.sent) \in Nat
    BY <2>5 DEF Counter
  <2>7. \A i \in 1 .. Len(t.sent) : t.sent[i] \in Nat /\ t.sent[i] <= t.journal /\ t.sent[i] < t.next
    <3>1. \A i \in 1 .. Len(t.sent) : t.sent[i] \in 1 .. MaxSequence  BY DEF Counter
    <3> QED  BY <1>3, <3>1 DEF Durable, Ahead
  <2>8. Increasing(HandOut(t))
    <3> SUFFICES ASSUME NEW i \in 1 .. Len(HandOut(t).sent), NEW j \in 1 .. Len(HandOut(t).sent), i < j
                 PROVE  HandOut(t).sent[i] < HandOut(t).sent[j]
      BY DEF Increasing
    <3>1. i \in 1 .. Len(t.sent) /\ HandOut(t).sent[i] = t.sent[i]  BY <2>6
    <3>2. CASE j \in 1 .. Len(t.sent)
      <4>1. t.sent[i] < t.sent[j]  BY <1>3, <3>1, <3>2 DEF Durable, Increasing
      <4> QED  BY <2>6, <3>1, <3>2, <4>1
    <3>3. CASE j = Len(t.sent) + 1  BY <2>6, <2>7, <3>1, <3>3
    <3> QED  BY <2>6, <3>2, <3>3
  <2>9. \A i \in 1 .. Len(HandOut(t).sent) :
            HandOut(t).sent[i] <= t.journal /\ HandOut(t).sent[i] < t.next + 1
    <3> TAKE i \in 1 .. Len(HandOut(t).sent)
    <3>1. CASE i = Len(t.sent) + 1  BY <2>1, <2>6, <3>1
    <3>2. CASE i # Len(t.sent) + 1
      <4>1. i \in 1 .. Len(t.sent)  BY <2>6, <3>2
      <4> QED  BY <2>1, <2>6, <2>7, <4>1
    <3> QED  BY <3>1, <3>2
  <2>10. t.reserved <= t.journal  BY <1>3 DEF Durable
  <2> QED  BY <2>5, <2>8, <2>9, <2>10 DEF Durable, Ahead
<1>4. CASE s.next <= s.reserved
  <2>1. Taken(s, write) = HandOut(s)  BY <1>1, <1>4 DEF Taken, Counter, Sequence
  <2> QED  BY <1>1, <1>3, <1>4, <2>1
<1>5. CASE s.next > s.reserved
  <2> DEFINE end == ReservationEnd(s)
             p   == [s EXCEPT !.journal = end]
             r   == [p EXCEPT !.reserved = end]
  <2>1. end \in Sequence /\ s.next <= end
    BY <1>1 DEF ReservationEnd, Lesser, Counter, Sequence
  <2> HIDE DEF end
  <2>2. \A i \in 1 .. Len(s.sent) : s.sent[i] <= end
    BY <1>1, <1>2, <2>1 DEF Counter, Sequence
  <2>3. p \in Counter /\ p.next = s.next /\ p.sent = s.sent /\ p.journal = end /\ p.reserved = s.reserved
    BY <1>1, <2>1 DEF Counter
  <2>4. s.reserved <= end  BY <1>1, <1>5, <2>1 DEF Counter, Sequence
  <2>5. Durable(p) /\ Ahead(p)  BY <1>2, <2>2, <2>3, <2>4 DEF Durable, Ahead, Increasing
  <2> HIDE DEF p
  <2>6. r \in Counter /\ r.next = p.next /\ r.sent = p.sent /\ r.journal = end /\ r.reserved = end
    BY <2>1, <2>3 DEF Counter
  <2>7. Durable(r) /\ Ahead(r)
    BY <2>1, <2>3, <2>5, <2>6 DEF Durable, Ahead, Increasing, Sequence
  <2> USE DEF end, p
  <2>8. ~(s.next <= s.reserved)  BY <1>1, <1>5 DEF Counter, Sequence
  <2>9. CASE write = "ok"
    <3>1. Taken(s, write) = HandOut(r)  BY <1>5, <2>8, <2>9 DEF Taken, PersistSequence
    <3> HIDE DEF p, end
    <3> QED  BY <1>3, <2>1, <2>3, <2>6, <2>7, <3>1
  <2>10. CASE write = "unsure"
    <3>1. Taken(s, write) = p  BY <1>5, <2>8, <2>10 DEF Taken, PersistSequence
    <3> QED  BY <2>5, <3>1
  <2>11. CASE write = "failed"
    <3>1. Taken(s, write) = s  BY <1>5, <2>8, <2>11 DEF Taken, PersistSequence
    <3> QED  BY <3>1
  <2> QED  BY <2>9, <2>10, <2>11 DEF Write
<1> QED  BY <1>1, <1>4, <1>5 DEF Counter, Sequence

\* The invariant is inductive.
LEMMA NumbersInvInductive == NumbersInv /\ [Next]_vars => NumbersInv'
<1> SUFFICES ASSUME NumbersInv, [Next]_vars  PROVE NumbersInv'
  OBVIOUS
<1> USE DEF NumbersInv
<1>0. \A acc \in Access : outgoing[acc] \in Counter  OBVIOUS
<1>b. ASSUME NEW acc \in Access, NEW s, Becomes(acc, s), Durable(s), journalHealthy => Ahead(s)
      PROVE  NumbersInv'
  <2>1. s \in Counter  BY <1>b DEF Durable
  <2>2. outgoing' \in [Access -> Counter]  BY <1>b, <2>1 DEF Becomes
  <2>3. \A x \in Access : outgoing'[x] = IF x = acc THEN s ELSE outgoing[x]
    BY <1>b DEF Becomes
  <2>4. UNCHANGED <<journalHealthy, factoryProvisioned>>  BY <1>b DEF Becomes
  <2>5. \A x \in Access : Durable(outgoing'[x])  BY <1>b, <2>3
  <2>6. journalHealthy' => \A x \in Access : Ahead(outgoing'[x])  BY <1>b, <2>3, <2>4
  <2> QED  BY <2>2, <2>4, <2>5, <2>6
<1>p. ASSUME NEW s, Durable(s), NEW value \in Sequence, NEW promised \in Sequence,
             NEW saved \in Sequence
      PROVE  LET r == [s EXCEPT !.property = value, !.advertised = promised, !.image = saved]
             IN  /\ Durable(r)
                 /\ Ahead(s) => Ahead(r)
                 /\ r \in Counter
  <2> DEFINE r == [s EXCEPT !.property = value, !.advertised = promised, !.image = saved]
  <2>1. /\ r \in Counter /\ r.next = s.next /\ r.reserved = s.reserved
        /\ r.journal = s.journal /\ r.sent = s.sent
    BY <1>p DEF Durable, Counter
  <2> HIDE DEF r
  <2>2. Durable(r) /\ (Ahead(s) => Ahead(r))
    BY <1>p, <2>1 DEF Durable, Ahead, Increasing
  <2> QED  BY <2>1, <2>2 DEF r
<1>1. ASSUME NEW acc \in Access, ReserveOutgoingSequence(acc)  PROVE NumbersInv'
  <2> DEFINE s     == outgoing[acc]
             floor == SequenceProperty(s)
  <2>1. PICK first \in Write, second \in Write :
            LET ensured == Ensured(s, floor, first)
            IN  \/ /\ ~IsEnsured(s, floor, first) \/ ensured.next > MaxSequence
                   /\ Becomes(acc, ensured)
                \/ /\ IsEnsured(s, floor, first) /\ ensured.next <= MaxSequence
                   /\ Becomes(acc, Taken(ensured, second))
    BY <1>1 DEF ReserveOutgoingSequence
  <2>2. journalHealthy  BY <1>1 DEF ReserveOutgoingSequence
  <2>3. floor \in 1 .. MaxSequence
    BY <1>0 DEF SequenceProperty, Greater, Counter, Sequence
  <2>4. Durable(s) /\ Ahead(s)  BY <2>2
  <2> HIDE DEF s, floor
  <2> DEFINE e == Ensured(s, floor, first)
  <2>5. Durable(e) /\ Ahead(e)  BY <2>3, <2>4, EnsuredKeeps
  <2> HIDE DEF e
  <2>6. CASE Becomes(acc, e)  BY <1>b, <2>5, <2>6
  <2>7. CASE e.next <= MaxSequence /\ Becomes(acc, Taken(e, second))
    <3>1. Durable(Taken(e, second)) /\ Ahead(Taken(e, second))  BY <2>5, <2>7, TakenKeeps
    <3> QED  BY <1>b, <2>7, <3>1
  <2> QED  BY <2>1, <2>6, <2>7 DEF e
<1>2. ASSUME NEW acc \in Access, NEW sequence \in Sequence, EnsureOutgoingSequenceAtLeast(acc, sequence)
      PROVE  NumbersInv'
  <2> DEFINE s     == outgoing[acc]
             floor == Floor(s, sequence)
  <2>1. PICK write \in Write : Becomes(acc, Ensured(s, floor, write))
    BY <1>2 DEF EnsureOutgoingSequenceAtLeast
  <2>2. journalHealthy /\ sequence \in 1 .. MaxSequence
    BY <1>2 DEF EnsureOutgoingSequenceAtLeast
  <2>3. floor \in 1 .. MaxSequence
    BY <1>0, <2>2 DEF Floor, SequenceProperty, Greater, Counter, Sequence
  <2>4. Durable(s) /\ Ahead(s)  BY <2>2
  <2> HIDE DEF s, floor
  <2>5. Durable(Ensured(s, floor, write)) /\ Ahead(Ensured(s, floor, write))
    BY <2>3, <2>4, EnsuredKeeps
  <2> QED  BY <1>b, <2>1, <2>5
<1>3. ASSUME NEW acc \in Access, Advertise(acc)  PROVE NumbersInv'
  <2> DEFINE s == outgoing[acc]
             m == Greater(s.advertised, NextSequenceNumber(s))
             r == [s EXCEPT !.property = s.property, !.advertised = m, !.image = s.image]
  <2>1. m \in Sequence
    BY <1>0 DEF NextSequenceNumber, SequenceProperty, Greater, Counter, Sequence
  <2>2. s \in Counter /\ Durable(s)  BY <1>0
  <2> HIDE DEF m
  <2>3. s.property \in Sequence /\ s.image \in Sequence  BY <2>2 DEF Counter
  <2>4. r = [s EXCEPT !.advertised = m]  BY <2>2 DEF Counter
  <2>5. Becomes(acc, r)  BY <1>3, <2>4 DEF Advertise, m
  <2>6. Durable(r) /\ (Ahead(s) => Ahead(r))  BY <1>p, <2>1, <2>2, <2>3
  <2> HIDE DEF r
  <2> QED  BY <1>b, <2>5, <2>6
<1>4. ASSUME NEW acc \in Access, NEW value \in Sequence, WriteProperty(acc, value)  PROVE NumbersInv'
  <2> DEFINE s == outgoing[acc]
             r == [s EXCEPT !.property = value, !.advertised = s.advertised, !.image = s.image]
  <2>1. s \in Counter /\ Durable(s)  BY <1>0
  <2>2. s.advertised \in Sequence /\ s.image \in Sequence  BY <2>1 DEF Counter
  <2>3. r = [s EXCEPT !.property = value]  BY <2>1 DEF Counter
  <2>4. Becomes(acc, r)  BY <1>4, <2>3 DEF WriteProperty
  <2>5. Durable(r) /\ (Ahead(s) => Ahead(r))  BY <1>p, <2>1, <2>2
  <2> HIDE DEF r
  <2> QED  BY <1>b, <2>4, <2>5
<1>5. CASE Save
  <2> DEFINE live(s)  == Greater(SequenceProperty(s), s.next)
             saved(s) == Lesser(Greater(s.reserved + 1, live(s)), MaxSequence)
             r(s)     == [s EXCEPT !.property = Lesser(live(s), MaxSequence),
                                   !.advertised = s.advertised, !.image = saved(s)]
  <2>1. ASSUME NEW s, Durable(s)
        PROVE  /\ WriteSequenceProperty([s EXCEPT !.image = saved(s)], live(s)) = r(s)
               /\ Durable(r(s)) /\ r(s) \in Counter
               /\ Ahead(s) => Ahead(r(s))
    <3>1. s \in Counter  BY <2>1 DEF Durable
    <3>2. saved(s) \in Sequence /\ Lesser(live(s), MaxSequence) \in Sequence
      BY <3>1 DEF SequenceProperty, Greater, Lesser, Counter, Sequence
    <3>3. s.advertised \in Sequence  BY <3>1 DEF Counter
    <3> HIDE DEF saved, live
    <3>4. WriteSequenceProperty([s EXCEPT !.image = saved(s)], live(s)) = r(s)
      BY <3>1 DEF WriteSequenceProperty, Counter
    <3> QED  BY <1>p, <2>1, <3>2, <3>3, <3>4
  <2>2. outgoing' = [acc \in Access |-> WriteSequenceProperty([outgoing[acc] EXCEPT !.image = saved(outgoing[acc])], live(outgoing[acc]))]
    BY <1>5 DEF Save
  <2> HIDE DEF r, saved, live
  <2>3. outgoing' = [acc \in Access |-> r(outgoing[acc])]  BY <2>1, <2>2
  <2>4. UNCHANGED <<journalHealthy, factoryProvisioned>>  BY <1>5 DEF Save
  <2> QED  BY <2>1, <2>3, <2>4
<1>6. CASE MasterReset
  <2> DEFINE r(s) == WriteSequenceProperty(s, s.next)
  <2>1. ASSUME NEW s, Durable(s)
        PROVE  Durable(r(s)) /\ r(s) \in Counter /\ (Ahead(s) => Ahead(r(s)))
    <3>1. s \in Counter /\ s.next \in Nat  BY <2>1 DEF Durable, Counter
    <3>2. /\ r(s) \in Counter /\ r(s).next = s.next /\ r(s).reserved = s.reserved
          /\ r(s).journal = s.journal /\ r(s).sent = s.sent
      BY <3>1, WritePropertyKeeps
    <3> HIDE DEF r
    <3> QED  BY <2>1, <3>2 DEF Durable, Ahead, Increasing
  <2>2. outgoing' = [acc \in Access |-> r(outgoing[acc])]  BY <1>6 DEF MasterReset
  <2>3. UNCHANGED <<journalHealthy, factoryProvisioned>>  BY <1>6 DEF MasterReset
  <2> HIDE DEF r
  <2> QED  BY <2>1, <2>2, <2>3
<1>7. CASE PowerCycle
  <2>1. PICK bound \in SUBSET Access, restored \in SUBSET Access, valid \in BOOLEAN :
            /\ outgoing' = [acc \in Access |->
                  Booted(outgoing[acc], acc \in bound, valid, acc \in restored)]
            /\ journalHealthy' = (bound = Access /\ (valid => restored = Access))
            /\ factoryProvisioned' \in BOOLEAN
    BY <1>7 DEF PowerCycle, HealthyIfAll
  <2>2. ASSUME NEW s, Durable(s)  PROVE Durable(Constructed(s))
    <3>1. s \in Counter  BY <2>2 DEF Durable
    <3>2. 1 \in 1 .. MaxSequence + 1 /\ 0 \in Sequence /\ 1 \in Sequence  BY DEF Sequence
    <3>3. /\ Constructed(s) \in Counter /\ Constructed(s).reserved = 0
          /\ Constructed(s).journal = s.journal /\ Constructed(s).sent = s.sent
      BY <3>1, <3>2 DEF Constructed, Counter
    <3>4. 0 <= s.journal  BY <3>1 DEF Counter, Sequence
    <3> QED  BY <2>2, <3>3, <3>4 DEF Durable, Increasing
  <2>3. ASSUME NEW s, Durable(s)  PROVE Durable([s EXCEPT !.property = s.image])
    <3> DEFINE r == [s EXCEPT !.property = s.image]
    <3>1. s \in Counter  BY <2>3 DEF Durable
    <3>2. /\ r \in Counter /\ r.next = s.next /\ r.reserved = s.reserved
          /\ r.journal = s.journal /\ r.sent = s.sent
      BY <3>1 DEF Counter
    <3> HIDE DEF r
    <3>3. Durable(r)  BY <2>3, <3>2 DEF Durable, Increasing
    <3> QED  BY <3>3 DEF r
  <2>4. ASSUME NEW s, Durable(s), NEW readable \in BOOLEAN
        PROVE  Durable(Loaded(s, readable)) /\ (readable => Ahead(Loaded(s, readable)))
    BY <2>4, LoadRecovers DEF Loaded
  <2> DEFINE r(acc) == Booted(outgoing[acc], acc \in bound, valid, acc \in restored)
  <2>5. ASSUME NEW acc \in Access
        PROVE  Durable(r(acc)) /\ (journalHealthy' => Ahead(r(acc)))
    <3> DEFINE bind == Loaded(Constructed(outgoing[acc]), acc \in bound)
    <3>1. Durable(Constructed(outgoing[acc]))  BY <2>2
    <3>2. Durable(bind) /\ (acc \in bound => Ahead(bind))
      <4> DEFINE t == Constructed(outgoing[acc])
      <4>1. Durable(t) /\ (acc \in bound) \in BOOLEAN  BY <3>1
      <4> HIDE DEF t
      <4>2. Durable(Loaded(t, acc \in bound)) /\ (acc \in bound => Ahead(Loaded(t, acc \in bound)))
        BY <2>4, <4>1
      <4> QED  BY <4>2 DEF t
    <3>3. r(acc) = IF valid THEN Loaded([bind EXCEPT !.property = bind.image], acc \in restored)
                   ELSE bind
      BY DEF Booted
    <3> HIDE DEF bind, r
    <3>4. CASE ~valid  BY <2>1, <3>2, <3>3, <3>4
    <3>5. CASE valid
      <4>1. Durable([bind EXCEPT !.property = bind.image])  BY <2>3, <3>2
      <4>2. r(acc) = Loaded([bind EXCEPT !.property = bind.image], acc \in restored)  BY <3>3, <3>5
      <4>3. journalHealthy' => acc \in restored  BY <2>1, <3>5
      <4> DEFINE t == [bind EXCEPT !.property = bind.image]
      <4>4. Durable(t) /\ (acc \in restored) \in BOOLEAN  BY <4>1
      <4> HIDE DEF t
      <4>5. /\ Durable(Loaded(t, acc \in restored))
            /\ acc \in restored => Ahead(Loaded(t, acc \in restored))
        BY <2>4, <4>4
      <4> QED  BY <4>2, <4>3, <4>5 DEF t
    <3> QED  BY <3>4, <3>5
  <2>6. outgoing' = [acc \in Access |-> r(acc)]  BY <2>1
  <2>7. journalHealthy' \in BOOLEAN /\ factoryProvisioned' \in BOOLEAN  BY <2>1
  <2> HIDE DEF r
  <2>8. \A acc \in Access : outgoing'[acc] = r(acc)  BY <2>6
  <2>9. outgoing' \in [Access -> Counter]  BY <2>5, <2>6 DEF Durable
  <2> QED  BY <2>5, <2>7, <2>8, <2>9
<1>8. CASE UNCHANGED vars  BY <1>8 DEF vars
<1> QED  BY <1>1, <1>2, <1>3, <1>4, <1>5, <1>6, <1>7, <1>8 DEF Next

\* The invariant holds in every reachable state.
THEOREM NumbersInvAlways == Spec => []NumbersInv
<1>1. Init => NumbersInv
  <2> SUFFICES ASSUME Init PROVE NumbersInv  OBVIOUS
  <2> DEFINE s == [next |-> 1, reserved |-> 0, property |-> 1, journal |-> 0, image |-> 0,
                   sent |-> <<>>, advertised |-> 0]
  <2>1. s \in Counter  BY DEF Counter, Sequence
  <2>2. s.reserved = 0 /\ s.journal = 0 /\ s.sent = <<>>  OBVIOUS
  <2>3. \A acc \in Access : outgoing[acc] = s  BY DEF Init
  <2>4. Durable(s) /\ Ahead(s)
    <3> HIDE DEF s
    <3>1. Len(s.sent) = 0  BY <2>2
    <3> QED  BY <2>1, <2>2, <3>1 DEF Durable, Ahead, Increasing
  <2>5. outgoing = [acc \in Access |-> s] /\ journalHealthy = TRUE /\ factoryProvisioned = TRUE
    BY DEF Init
  <2> HIDE DEF s
  <2> QED  BY <2>1, <2>3, <2>4, <2>5 DEF NumbersInv
<1> QED  BY <1>1, NumbersInvInductive, PTL DEF Spec

\* TypeOK for every number of domains, last number and size of reservation.
THEOREM NumbersTypeCorrect == Spec => []TypeOK
<1>1. NumbersInv => TypeOK  BY DEF NumbersInv, TypeOK
<1> QED  BY <1>1, NumbersInvAlways, PTL

\* No number is used twice, across power losses and resets of any kind.
THEOREM NumbersNeverReused == Spec => []NeverReused
<1>1. NumbersInv => NeverReused  BY DEF NumbersInv, NeverReused, Durable
<1> QED  BY <1>1, NumbersInvAlways, PTL

\* The journal alone covers what was used.
THEOREM JournalAlwaysCovers == Spec => []JournalCoversSent
<1>1. NumbersInv => JournalCoversSent  BY DEF NumbersInv, JournalCoversSent, Durable
<1> QED  BY <1>1, NumbersInvAlways, PTL

\* A peer is never told to expect a number that was used already.
THEOREM AdvertisedAlwaysFresh == Spec => []AdvertisedIsFresh
<1>1. NumbersInv => AdvertisedIsFresh
  <2> SUFFICES ASSUME NumbersInv, journalHealthy, NEW acc \in Access,
                      NextSequenceNumber(outgoing[acc]) # 0,
                      NEW i \in 1 .. Len(outgoing[acc].sent)
               PROVE  outgoing[acc].sent[i] < NextSequenceNumber(outgoing[acc])
    BY DEF AdvertisedIsFresh
  <2>1. outgoing[acc] \in Counter /\ Ahead(outgoing[acc])  BY DEF NumbersInv
  <2>2. outgoing[acc].sent[i] < outgoing[acc].next  BY <2>1 DEF Ahead
  <2>3. outgoing[acc].sent[i] \in Nat  BY <2>1 DEF Counter
  <2> QED  BY <2>1, <2>2, <2>3, SMTT(60) DEF NextSequenceNumber, SequenceProperty, Greater, Counter, Sequence
<1> QED  BY <1>1, NumbersInvAlways, PTL

\* No number is used twice, none is told to a peer after its use, and the journal
\* covers every number used.
THEOREM NumbersAlwaysSafe == Spec => []NumbersSafe
BY NumbersNeverReused, JournalAlwaysCovers, AdvertisedAlwaysFresh, PTL DEF NumbersSafe

HIDE OutgoingAssumption

-----------------------------------------------------------------------------
(* The link: its invariant *)


counter == outgoing[FALSE]
peer    == Link!peer
slot    == entries[1]

IsCached  == slot.sender = "sender"
Lists(t)  == "sender" \in DOMAIN t

\* The counter of the sender.  ETS writes no property here, and so it is never ahead.
CounterInv(s) ==
    /\ s \in Link!Sending!Counter
    /\ s.property <= s.next /\ s.next <= s.journal + 1
    /\ s.reserved <= s.journal /\ s.image = 0

\* A number that the sender has left behind: as long as it can send, and after it has
\* lost everything but the journal.
Behind(n) ==
    /\ n \in Nat
    /\ n <= counter.journal
    /\ journalHealthy => n < counter.next

OneCounter == outgoing \in [{FALSE} -> Link!Sending!Counter]

LinkTypes ==
    /\ OneCounter /\ CounterInv(counter)
    /\ journalHealthy \in BOOLEAN
    /\ sync \in [Link!Device -> Nat] /\ challenges \in [Link!Device -> Nat]
    /\ sync["sender"] <= challenges["sender"]
    /\ entries \in [Link!Receiving!Slot -> Link!Receiving!ReplaySlot]
    /\ table \in Link!Receiving!Table /\ image \in Link!Receiving!Table
    /\ journal \in [{peer} -> Nat]
    /\ delivered \in [{peer} -> Seq(1 .. LinkSequence)]
    /\ telegrams \in Seq(1 .. LinkSequence)

\* What the receiver has recorded the sender has left behind, the floor of a cached
\* sender included; the image has no higher floor than the table.
ReceiverInv ==
    /\ Behind(journal[peer])
    /\ IsCached => Lists(table) /\ Behind(table["sender"]) /\ Behind(slot.sequence)
    /\ Lists(table) /\ Lists(image) => image["sender"] <= table["sender"]

\* So it has the numbers on their way, and all below those it has advertised.
FrameInv(f) ==
    /\ f.kind = "data" => Behind(f.number) /\ \E k \in 1 .. Len(telegrams) : telegrams[k] = f.number
    /\ f.kind = "request" /\ f.to = "receiver" =>
          f.number >= 1 /\ Behind(f.number) /\ f.challenge \in 1 .. challenges["sender"]
    /\ f.kind = "response" /\ f.to = "receiver" => f.number \in Nat /\ f.number >= 1 /\ Behind(f.number - 1)
    /\ f.kind = "response" /\ f.to = "sender" => f.number \in Nat /\ f.challenge \in 1 .. challenges["sender"]

\* An answer that is still awaited is above the floors, unless they are behind anyway.
Covers(n, t) == Lists(t) => t["sender"] < n \/ Behind(t["sender"])

Awaited(f) == f.kind = "response" /\ f.to = "sender" /\ sync["sender"] # 0 /\ f.challenge = sync["sender"]

NetInv ==
    \A f \in net : FrameInv(f) /\ (Awaited(f) => Covers(f.number, table) /\ Covers(f.number, image))

\* Telegrams are numbered and delivered in order; the receiver has recorded the last one
\* delivered.
OrderInv ==
    /\ \A i, j \in 1 .. Len(telegrams) : i < j => telegrams[i] < telegrams[j]
    /\ \A i \in 1 .. Len(telegrams) : Behind(telegrams[i])
    /\ \A i, j \in 1 .. Len(delivered[peer]) : i < j => delivered[peer][i] < delivered[peer][j]
    /\ \A i \in 1 .. Len(delivered[peer]) :
          /\ delivered[peer][i] <= journal[peer]
          /\ IsCached => delivered[peer][i] <= slot.sequence
          /\ \E k \in 1 .. Len(telegrams) : telegrams[k] = delivered[peer][i]

LinkInv == LinkTypes /\ ReceiverInv /\ NetInv /\ OrderInv

-----------------------------------------------------------------------------
(* The counter of the sender *)

USE LinkAssumption

LEMMA CounterTypes ==
    ASSUME NEW s \in Link!Sending!Counter
    PROVE  /\ s.next \in 1 .. LinkSequence + 1 /\ s.reserved \in 0 .. LinkSequence
           /\ s.property \in 0 .. LinkSequence /\ s.journal \in 0 .. LinkSequence
           /\ s.sent \in Seq(1 .. LinkSequence)
BY DEF Link!Sending!Counter, Link!Sending!Sequence

\* What the operators of OutgoingSequence make of a counter
LEMMA WithProperty ==
    ASSUME NEW s \in Link!Sending!Counter, NEW n \in Nat
    PROVE  LET t == Link!Sending!WriteSequenceProperty(s, n) IN
           /\ t \in Link!Sending!Counter
           /\ t.next = s.next /\ t.reserved = s.reserved /\ t.journal = s.journal
           /\ t.image = s.image /\ t.sent = s.sent /\ t.property <= n
<1> DEFINE value == Link!Sending!Lesser(n, LinkSequence)
           t == [s EXCEPT !.property = value]
<1>1. value \in 0 .. LinkSequence /\ value <= n
    BY DEF Link!Sending!Lesser
<1>2. Link!Sending!WriteSequenceProperty(s, n) = t
    BY DEF Link!Sending!WriteSequenceProperty
<1> HIDE DEF value
<1>3. t \in Link!Sending!Counter
    BY <1>1 DEF Link!Sending!Counter, Link!Sending!Sequence
<1>4. /\ t.next = s.next /\ t.reserved = s.reserved /\ t.journal = s.journal
      /\ t.image = s.image /\ t.sent = s.sent /\ t.property = value
    BY DEF Link!Sending!Counter
<1> QED
    BY <1>1, <1>2, <1>3, <1>4

\* The counter with another next number and reservation
At(s, next, limit) == [s EXCEPT !.next = next, !.reserved = limit]

LEMMA Moved ==
    ASSUME NEW s \in Link!Sending!Counter, NEW next \in 1 .. LinkSequence + 1,
           NEW limit \in 0 .. LinkSequence
    PROVE  LET u == At(s, next, limit) IN
           /\ u \in Link!Sending!Counter
           /\ u.next = next /\ u.reserved = limit /\ u.journal = s.journal
           /\ u.image = s.image /\ u.sent = s.sent
<1>1. At(s, next, limit) \in Link!Sending!Counter
    BY DEF At, Link!Sending!Counter, Link!Sending!Sequence
<1> QED
    BY <1>1 DEF At, Link!Sending!Counter

LEMMA WithJournal ==
    ASSUME NEW s, CounterInv(s), NEW value \in 0 .. LinkSequence, NEW write \in Link!Sending!Write,
           s.next <= value + 1, s.reserved <= value
    PROVE  LET t == Link!Sending!PersistSequence(s, value, write) IN
           /\ CounterInv(t)
           /\ t.next = s.next /\ t.reserved = s.reserved /\ t.sent = s.sent
           /\ write = "ok" => t.journal = value
BY DEF CounterInv, Link!Sending!PersistSequence, Link!Sending!Counter, Link!Sending!Sequence,
       Link!Sending!Write

\* A number that is handed out is the next one, and the reservation covers it.
LEMMA HandsOutNext ==
    ASSUME NEW s, CounterInv(s), s.next <= s.reserved
    PROVE  LET t == Link!Sending!HandOut(s) IN
           CounterInv(t) /\ t.next = s.next + 1 /\ t.sent = Append(s.sent, s.next)
<1> DEFINE n == s.next + 1
           u == [s EXCEPT !.next = n, !.sent = Append(s.sent, s.next)]
<1>1. s \in Link!Sending!Counter
    BY DEF CounterInv
<1>2. s.next \in 1 .. LinkSequence /\ n \in 1 .. LinkSequence + 1 /\ s.reserved <= s.journal
      /\ s.sent \in Seq(1 .. LinkSequence) /\ s.journal \in Nat /\ s.reserved \in Nat
    BY <1>1, CounterTypes DEF CounterInv
<1>3. u \in Link!Sending!Counter /\ u.next = n /\ u.sent = Append(s.sent, s.next)
      /\ u.journal = s.journal /\ u.reserved = s.reserved /\ u.image = s.image
    <2>1. Append(s.sent, s.next) \in Seq(1 .. LinkSequence)
        BY <1>2
    <2> HIDE DEF n
    <2> QED
        BY <1>1, <1>2, <2>1 DEF Link!Sending!Counter
<1>4. Link!Sending!HandOut(s) = Link!Sending!WriteSequenceProperty(u, n)
    BY DEF Link!Sending!HandOut
<1>5. n <= s.journal + 1
    BY <1>2
<1> HIDE DEF u, n
<1>6. n \in Nat
    BY <1>2
<1> DEFINE w == Link!Sending!WriteSequenceProperty(u, n)
<1>8. /\ w \in Link!Sending!Counter /\ w.next = u.next /\ w.reserved = u.reserved
      /\ w.journal = u.journal /\ w.image = u.image /\ w.sent = u.sent /\ w.property <= n
    BY <1>3, <1>6, WithProperty
<1> HIDE DEF w
<1>7. LET t == Link!Sending!HandOut(s) IN
      /\ t \in Link!Sending!Counter
      /\ t.next = n /\ t.reserved = s.reserved /\ t.journal = s.journal
      /\ t.image = s.image /\ t.sent = Append(s.sent, s.next) /\ t.property <= n
    BY <1>3, <1>4, <1>8 DEF w
<1> QED
    BY <1>2, <1>5, <1>7 DEF CounterInv, n

\* The next number is taken, or nothing is and the next one is the same.
TakesNext(s, t) ==
    \/ t.sent = s.sent /\ t.next = s.next
    \/ t.sent = Append(s.sent, s.next) /\ t.next = s.next + 1 /\ s.next <= LinkSequence

LEMMA TakenIsNext ==
    ASSUME NEW s, CounterInv(s), s.next <= LinkSequence, NEW write \in Link!Sending!Write
    PROVE  LET t == Link!Sending!Taken(s, write) IN CounterInv(t) /\ TakesNext(s, t)
<1>1. s.next \in 1 .. LinkSequence /\ s.reserved \in 0 .. LinkSequence
    BY CounterTypes DEF CounterInv
<1>2. CASE s.next <= s.reserved
    <2>1. Link!Sending!Taken(s, write) = Link!Sending!HandOut(s)
        BY <1>1, <1>2 DEF Link!Sending!Taken
    <2> QED
        BY <1>2, <2>1, HandsOutNext DEF TakesNext
<1>3. CASE s.next > s.reserved
    <2> DEFINE end == Link!Sending!ReservationEnd(s)
               t == Link!Sending!PersistSequence(s, end, write)
               u == [t EXCEPT !.reserved = end]
    <2>1. end \in s.next .. LinkSequence
        BY <1>1 DEF Link!Sending!ReservationEnd, Link!Sending!Lesser
    <2>2. CounterInv(t) /\ t.next = s.next /\ t.sent = s.sent /\ (write = "ok" => t.journal = end)
        <3> HIDE DEF end
        <3> QED
            BY <1>1, <1>3, <2>1, WithJournal
    <2>3. Link!Sending!Taken(s, write) = IF write = "ok" THEN Link!Sending!HandOut(u) ELSE t
        BY <1>1, <1>3 DEF Link!Sending!Taken
    <2> HIDE DEF t, end
    <2>4. CASE write # "ok"
        BY <2>2, <2>3, <2>4 DEF TakesNext
    <2>5. CASE write = "ok"
        <3>1. /\ u \in Link!Sending!Counter /\ u.next = s.next /\ u.reserved = end
              /\ u.sent = s.sent /\ u.journal = end /\ u.image = t.image /\ u.property = t.property
            BY <1>1, <2>1, <2>2, <2>5 DEF CounterInv, Link!Sending!Counter, Link!Sending!Sequence
        <3>2. CounterInv(u)
            BY <2>1, <2>2, <2>5, <3>1 DEF CounterInv
        <3>3. u.next <= u.reserved
            BY <2>1, <3>1
        <3> HIDE DEF u
        <3> QED
            BY <2>3, <2>5, <3>1, <3>2, <3>3, HandsOutNext DEF TakesNext
    <2> QED
        BY <2>4, <2>5
<1> QED
    BY <1>1, <1>2, <1>3

\* secure(): the property is never ahead, and so the next number is the counter's.
LEMMA ReserveTakesNext ==
    ASSUME OneCounter, CounterInv(counter),
           Link!Sending!ReserveOutgoingSequence(FALSE)
    PROVE  /\ OneCounter' /\ CounterInv(counter')
           /\ TakesNext(counter, counter')
           /\ journalHealthy /\ UNCHANGED journalHealthy
<1> DEFINE floor == Link!Sending!SequenceProperty(counter)
<1>1. /\ counter.next \in 1 .. LinkSequence + 1 /\ counter.property \in 0 .. LinkSequence
      /\ counter.property <= counter.next /\ counter \in Link!Sending!Counter
    BY CounterTypes DEF CounterInv
<1>2. floor \in Nat /\ floor <= counter.next
    BY <1>1 DEF Link!Sending!SequenceProperty, Link!Sending!Greater
<1>3. \A write : Link!Sending!Ensured(counter, floor, write) = counter
    BY <1>1, <1>2 DEF Link!Sending!Ensured
<1>4. PICK first, second \in Link!Sending!Write :
          \/ outgoing' = [outgoing EXCEPT ![FALSE] = Link!Sending!Ensured(counter, floor, first)]
          \/ /\ Link!Sending!Ensured(counter, floor, first).next <= LinkSequence
             /\ outgoing' = [outgoing EXCEPT ![FALSE] =
                   Link!Sending!Taken(Link!Sending!Ensured(counter, floor, first), second)]
    BY DEF Link!Sending!ReserveOutgoingSequence, Link!Sending!Becomes, counter
<1>5. journalHealthy /\ UNCHANGED journalHealthy
    BY DEF Link!Sending!ReserveOutgoingSequence, Link!Sending!Becomes
<1> HIDE DEF floor
<1>6. CASE outgoing' = [outgoing EXCEPT ![FALSE] = counter]
    BY <1>1, <1>5, <1>6 DEF TakesNext, counter, OneCounter
<1>7. CASE counter.next <= LinkSequence
           /\ outgoing' = [outgoing EXCEPT ![FALSE] = Link!Sending!Taken(counter, second)]
    <2>1. counter' = Link!Sending!Taken(counter, second)
        BY <1>7 DEF counter, OneCounter
    <2>2. CounterInv(counter') /\ TakesNext(counter, counter')
        BY <1>7, <2>1, TakenIsNext
    <2> QED
        BY <1>5, <1>7, <2>1, <2>2 DEF CounterInv, OneCounter
<1> QED
    BY <1>3, <1>4, <1>6, <1>7

\* receivedSyncResponse in the sender: the counter only moves forward.
LEMMA EnsureMovesForward ==
    ASSUME OneCounter, CounterInv(counter),
           NEW n, Link!Sending!EnsureOutgoingSequenceAtLeast(FALSE, n)
    PROVE  /\ OneCounter' /\ CounterInv(counter')
           /\ counter.next <= counter'.next /\ counter'.sent = counter.sent
           /\ journalHealthy /\ UNCHANGED journalHealthy
<1> DEFINE floor == Link!Sending!Floor(counter, n)
<1>1. /\ counter.next \in 1 .. LinkSequence + 1 /\ counter.property \in 0 .. LinkSequence
      /\ counter.reserved \in 0 .. LinkSequence /\ counter.journal \in 0 .. LinkSequence
      /\ counter.reserved <= counter.journal
      /\ counter.property <= counter.next /\ counter \in Link!Sending!Counter
    BY CounterTypes DEF CounterInv
<1>2. n \in 1 .. LinkSequence /\ journalHealthy /\ UNCHANGED journalHealthy
    BY DEF Link!Sending!EnsureOutgoingSequenceAtLeast, Link!Sending!Becomes
<1>3. floor \in 1 .. LinkSequence
    BY <1>1, <1>2 DEF Link!Sending!Floor, Link!Sending!SequenceProperty, Link!Sending!Greater
<1>4. PICK write \in Link!Sending!Write :
          outgoing' = [outgoing EXCEPT ![FALSE] = Link!Sending!Ensured(counter, floor, write)]
    BY DEF Link!Sending!EnsureOutgoingSequenceAtLeast, Link!Sending!Becomes, counter
<1> HIDE DEF floor
<1>5. counter' = Link!Sending!Ensured(counter, floor, write)
    BY <1>4 DEF counter, OneCounter
<1>6. ASSUME NEW s, CounterInv(s), s.sent = counter.sent, floor > s.next, floor - 1 <= s.journal
      PROVE  LET t == Link!Sending!Raised(s, floor) IN
             CounterInv(t) /\ t.next = floor /\ t.sent = counter.sent
    <2> DEFINE r == Link!Sending!Greater(floor - 1, s.reserved)
               u == At(s, floor, r)
    <2>1. s \in Link!Sending!Counter /\ s.reserved <= s.journal /\ s.image = 0
        BY <1>6 DEF CounterInv
    <2>2. r \in 0 .. LinkSequence /\ r <= s.journal
        BY <1>3, <1>6, <2>1, CounterTypes DEF Link!Sending!Greater
    <2>3. Link!Sending!Raised(s, floor) = Link!Sending!WriteSequenceProperty(u, floor)
        BY DEF Link!Sending!Raised, At
    <2> HIDE DEF r
    <2>4. /\ u \in Link!Sending!Counter /\ u.next = floor /\ u.reserved = r
          /\ u.sent = s.sent /\ u.journal = s.journal /\ u.image = s.image
        <3>1. floor \in 1 .. LinkSequence + 1
            BY <1>3
        <3> QED
            BY <2>1, <2>2, <3>1, Moved
    <2>5. floor <= s.journal + 1
        BY <1>3, <1>6, <2>1, CounterTypes
    <2> HIDE DEF u
    <2>6. floor \in Nat
        BY <1>3
    <2>7. LET t == Link!Sending!Raised(s, floor) IN
          /\ t \in Link!Sending!Counter /\ t.next = floor /\ t.reserved = r
          /\ t.sent = s.sent /\ t.journal = s.journal /\ t.image = s.image /\ t.property <= floor
        BY <2>3, <2>4, <2>6, WithProperty
    <2> QED
        BY <1>6, <2>1, <2>2, <2>5, <2>7 DEF CounterInv
<1>10. counter' \in Link!Sending!Counter => OneCounter'
    BY <1>4, <1>5 DEF OneCounter
<1> DEFINE Goal == /\ OneCounter' /\ CounterInv(counter')
                   /\ counter.next <= counter'.next /\ counter'.sent = counter.sent
<1>7. ASSUME floor <= counter.next PROVE Goal
    <2>1. counter' = counter
        BY <1>1, <1>3, <1>5, <1>7 DEF Link!Sending!Ensured
    <2> QED
        BY <1>1, <1>10, <2>1
<1>8. ASSUME floor > counter.next, floor - 1 <= counter.reserved PROVE Goal
    <2>1. counter' = Link!Sending!Raised(counter, floor)
        BY <1>1, <1>3, <1>5, <1>8 DEF Link!Sending!Ensured
    <2>2. CounterInv(counter') /\ counter'.next = floor /\ counter'.sent = counter.sent
        <3>1. floor - 1 <= counter.journal
            BY <1>1, <1>3, <1>8
        <3> QED
            BY <1>6, <1>8, <2>1, <3>1
    <2>3. counter' \in Link!Sending!Counter
        BY <2>2 DEF CounterInv
    <2> QED
        BY <1>1, <1>3, <1>8, <1>10, <2>2, <2>3
<1>9. ASSUME floor > counter.next, floor - 1 > counter.reserved PROVE Goal
    <2> DEFINE t == Link!Sending!PersistSequence(counter, floor - 1, write)
    <2>1. counter' = IF write = "ok" THEN Link!Sending!Raised(t, floor) ELSE t
        BY <1>1, <1>3, <1>5, <1>9 DEF Link!Sending!Ensured
    <2>2. /\ CounterInv(t) /\ t.next = counter.next /\ t.sent = counter.sent
          /\ write = "ok" => t.journal = floor - 1
        <3> DEFINE value == floor - 1
        <3>1. value \in 0 .. LinkSequence /\ counter.next <= value + 1 /\ counter.reserved <= value
            BY <1>1, <1>3, <1>9
        <3> HIDE DEF value
        <3>2. LET v == Link!Sending!PersistSequence(counter, value, write) IN
              /\ CounterInv(v) /\ v.next = counter.next /\ v.sent = counter.sent
              /\ write = "ok" => v.journal = value
            BY <3>1, WithJournal
        <3> QED
            BY <3>2 DEF value
    <2> HIDE DEF t
    <2>3. floor - 1 <= floor - 1
        BY <1>3
    <2>4. CounterInv(counter') /\ counter'.sent = counter.sent
          /\ (counter'.next = counter.next \/ counter'.next = floor)
        BY <1>6, <1>9, <2>1, <2>2, <2>3
    <2>5. counter' \in Link!Sending!Counter
        BY <2>4 DEF CounterInv
    <2> QED
        BY <1>1, <1>3, <1>9, <1>10, <2>4, <2>5
<1>11. \/ floor <= counter.next
       \/ floor > counter.next /\ floor - 1 <= counter.reserved
       \/ floor > counter.next /\ floor - 1 > counter.reserved
    BY <1>1, <1>3
<1>12. Goal
    BY <1>7, <1>8, <1>9, <1>11
<1> QED
    BY <1>2, <1>12

\* After a power loss the journal alone decides: the device goes on above it, or not at all.
LEMMA PowerCycleResumes ==
    ASSUME OneCounter, CounterInv(counter),
           Link!Sending!PowerCycle
    PROVE  /\ OneCounter' /\ CounterInv(counter')
           /\ counter'.journal = counter.journal /\ counter'.sent = counter.sent
           /\ journalHealthy' \in BOOLEAN
           /\ journalHealthy' => counter'.next = counter.journal + 1
<1> DEFINE s == Link!Sending!Constructed(counter)
           next == counter.journal + 1
           u == At(s, next, counter.journal)
<1>1. /\ counter \in Link!Sending!Counter /\ counter.image = 0
      /\ counter.journal \in 0 .. LinkSequence
    BY CounterTypes DEF CounterInv
<1>2. /\ s \in Link!Sending!Counter /\ s.next = 1 /\ s.reserved = 0 /\ s.property = 1
      /\ s.journal = counter.journal /\ s.image = 0 /\ s.sent = counter.sent
    <2>1. 1 \in 1 .. LinkSequence + 1 /\ 0 \in 0 .. LinkSequence /\ 1 \in Link!Sending!Sequence
        BY DEF Link!Sending!Sequence
    <2>2. ASSUME NEW c \in Link!Sending!Counter
          PROVE  LET t == Link!Sending!Constructed(c) IN
                 /\ t \in Link!Sending!Counter /\ t.next = 1 /\ t.reserved = 0 /\ t.property = 1
                 /\ t.journal = c.journal /\ t.image = c.image /\ t.sent = c.sent
        <3> DEFINE v == At(c, 1, 0)
                   t == [v EXCEPT !.property = 1]
        <3>1. /\ v \in Link!Sending!Counter /\ v.next = 1 /\ v.reserved = 0
              /\ v.journal = c.journal /\ v.image = c.image /\ v.sent = c.sent
            BY <2>1, Moved
        <3>2. t = Link!Sending!Constructed(c)
            BY DEF Link!Sending!Constructed, At
        <3> HIDE DEF v
        <3>3. t \in Link!Sending!Counter
            BY <2>1, <3>1 DEF Link!Sending!Counter
        <3>4. /\ t.next = 1 /\ t.reserved = 0 /\ t.property = 1
              /\ t.journal = c.journal /\ t.image = c.image /\ t.sent = c.sent
            BY <3>1 DEF Link!Sending!Counter
        <3> QED
            BY <3>2, <3>3, <3>4
    <2> QED
        BY <1>1, <2>2
<1>3. CounterInv(s)
    BY <1>1, <1>2 DEF CounterInv
<1> HIDE DEF s
<1>4. /\ u \in Link!Sending!Counter /\ u.next = next /\ u.reserved = counter.journal
      /\ u.journal = counter.journal /\ u.image = 0 /\ u.sent = counter.sent
    <2>1. next \in 1 .. LinkSequence + 1
        BY <1>1
    <2> DEFINE limit == counter.journal
    <2>2. limit \in 0 .. LinkSequence /\ s \in Link!Sending!Counter
        BY <1>1, <1>2
    <2> HIDE DEF next, limit
    <2>3. LET t == At(s, next, limit) IN
          /\ t \in Link!Sending!Counter /\ t.next = next /\ t.reserved = limit
          /\ t.journal = s.journal /\ t.image = s.image /\ t.sent = s.sent
        BY <2>1, <2>2, Moved
    <2> QED
        BY <1>2, <2>3 DEF limit
<1>5. Link!Sending!Load(s) = Link!Sending!WriteSequenceProperty(u, next)
    <2>1. Link!Sending!Greater(s.journal, s.reserved) = counter.journal
        BY <1>1, <1>2 DEF Link!Sending!Greater
    <2>2. Link!Sending!SequenceProperty(s) = 1
        BY <1>2 DEF Link!Sending!SequenceProperty, Link!Sending!Greater
    <2>3. Link!Sending!Greater(next, Link!Sending!Greater(s.next, 1)) = next
        BY <1>1, <1>2 DEF Link!Sending!Greater
    <2> QED
        BY <2>1, <2>2, <2>3 DEF Link!Sending!Load, At
<1>6. /\ CounterInv(Link!Sending!Load(s)) /\ Link!Sending!Load(s).next = next
      /\ Link!Sending!Load(s).journal = counter.journal /\ Link!Sending!Load(s).sent = counter.sent
    <2>1. next \in Nat /\ next <= counter.journal + 1
        BY <1>1
    <2> HIDE DEF u, next
    <2>2. LET t == Link!Sending!Load(s) IN
          /\ t \in Link!Sending!Counter /\ t.next = next /\ t.reserved = counter.journal
          /\ t.journal = counter.journal /\ t.image = 0 /\ t.sent = counter.sent /\ t.property <= next
        BY <1>4, <1>5, <2>1, WithProperty, SMTT(60)
    <2> QED
        BY <1>1, <2>1, <2>2 DEF CounterInv
<1>7. PICK bound, restored \in SUBSET Link!DataAccess, valid \in BOOLEAN :
        /\ valid => \A acc \in Link!DataAccess : outgoing[acc].image # 0
        /\ outgoing' = [acc \in Link!DataAccess |->
              Link!Sending!Booted(outgoing[acc], acc \in bound, valid, acc \in restored)]
        /\ journalHealthy' = (Link!Sending!HealthyIfAll(bound)
                                /\ (valid => Link!Sending!HealthyIfAll(restored)))
    BY DEF Link!Sending!PowerCycle
<1>8. ~valid
    BY <1>1, <1>7 DEF Link!DataAccess, counter
<1>9. counter' = IF FALSE \in bound THEN Link!Sending!Load(s) ELSE s
    BY <1>7, <1>8 DEF Link!DataAccess, counter, Link!Sending!Booted, Link!Sending!Loaded, s
<1>10. journalHealthy' = (bound = {FALSE})
    BY <1>7, <1>8 DEF Link!DataAccess, Link!Sending!HealthyIfAll
<1>11. outgoing' = [acc \in {FALSE} |-> counter']
    BY <1>7 DEF Link!DataAccess, counter
<1>12. CounterInv(counter') /\ counter' \in Link!Sending!Counter
    BY <1>3, <1>6, <1>9 DEF CounterInv
<1> QED
    BY <1>2, <1>6, <1>9, <1>10, <1>11, <1>12 DEF OneCounter

-----------------------------------------------------------------------------
(* The receiver, which has one slot for one peer *)

LEMMA Peers ==
    /\ Link!Receiving!Peer = {peer} /\ ~peer.toolAccess /\ peer.sender = "sender"
    /\ Link!Receiving!Slot = {1, 2} /\ Link!Receiving!SlotsOf(peer) = {1}
    /\ Link!Receiving!Free # "sender"
<1>1. peer = [toolAccess |-> FALSE, sender |-> "sender"]
    BY DEF peer, Link!peer, Link!Receiving!Data
<1>2. Link!Receiving!Slot = {1, 2}
    BY DEF Link!Receiving!Slot
<1>3. Link!Receiving!SlotsOf(peer) = {1}
    BY <1>1 DEF Link!Receiving!SlotsOf
<1>4. Link!Receiving!Peer = {peer}
    BY <1>1 DEF Link!Receiving!Peer, Link!Receiving!DataPeer, Link!Receiving!Data,
                Link!Receiving!Tool, Link!Sender
<1> QED
    BY <1>1, <1>2, <1>3, <1>4 DEF Link!Receiving!Free

LEMMA TableTypes ==
    ASSUME NEW t \in Link!Receiving!Table
    PROVE  DOMAIN t \subseteq {"sender"} /\ (Lists(t) => t["sender"] \in Nat)
<1>1. PICK listed \in SUBSET Link!Sender : t \in [listed -> Link!Receiving!Sequence]
    BY DEF Link!Receiving!Table
<1> QED
    BY <1>1 DEF Link!Receiving!Sequence, Link!Sender, Lists

Number == IF IsCached THEN slot.sequence ELSE journal[peer]
FloorOf == IF Lists(table) THEN table["sender"] ELSE 0

LEMMA ReceiverTerms ==
    ASSUME LinkTypes
    PROVE  /\ Link!Receiving!Cached(peer) = IF IsCached THEN {1} ELSE {}
           /\ Link!Receiving!Known(peer) <=> Lists(table)
           /\ Link!Receiving!Listed(peer) <=> Lists(table)
           /\ Link!Receiving!Recorded(peer) = Number
           /\ Link!Receiving!LastValid(peer) = IF Number > FloorOf THEN Number ELSE FloorOf
           /\ Number \in Nat /\ FloorOf \in Nat
<1>1. Link!Receiving!Cached(peer) = IF IsCached THEN {1} ELSE {}
    BY Peers DEF Link!Receiving!Cached, IsCached, slot
<1>2. /\ Link!Receiving!Listed(peer) <=> Lists(table)
      /\ Link!Receiving!Known(peer) <=> Lists(table)
    BY Peers DEF Link!Receiving!Known, Link!Receiving!Listed, Lists
<1>3. Link!Receiving!Recorded(peer) = Number
    <2>1. CASE IsCached
        <3>1. (CHOOSE i \in Link!Receiving!Cached(peer) : TRUE) = 1
            BY <1>1, <2>1
        <3> QED
            BY <1>1, <2>1, <3>1 DEF Link!Receiving!Recorded, Number, slot
    <2>2. CASE ~IsCached
        BY <1>1, <2>2 DEF Link!Receiving!Recorded, Number
    <2> QED
        BY <2>1, <2>2
<1>4. Link!Receiving!ReplayFloor(peer) = FloorOf
    BY <1>2, Peers DEF Link!Receiving!ReplayFloor, FloorOf
<1>5. slot.sequence \in Nat
    BY Peers DEF LinkTypes, slot, Link!Receiving!ReplaySlot, Link!Receiving!Sequence
<1>6. Number \in Nat
    BY <1>5 DEF LinkTypes, Number
<1>7. FloorOf \in Nat
    BY TableTypes DEF LinkTypes, FloorOf
<1> QED
    BY <1>1, <1>2, <1>3, <1>4, <1>6, <1>7 DEF Link!Receiving!LastValid, Link!Receiving!Greater

\* Looking a number up raises the cached one to the floor.
LEMMA QueriedTerms ==
    ASSUME LinkTypes, entries' = Link!Receiving!Queried(peer)
    PROVE  /\ entries' \in [Link!Receiving!Slot -> Link!Receiving!ReplaySlot]
           /\ IsCached' <=> IsCached
           /\ IsCached => slot'.sequence = Link!Receiving!LastValid(peer)
<1>1. /\ entries \in [{1, 2} -> Link!Receiving!ReplaySlot]
      /\ Link!Receiving!Cached(peer) = IF IsCached THEN {1} ELSE {}
      /\ Link!Receiving!LastValid(peer) = IF Number > FloorOf THEN Number ELSE FloorOf
    BY Peers, ReceiverTerms DEF LinkTypes
<1>2. IsCached => Link!Receiving!LastValid(peer) \in Link!Receiving!Sequence
    <2>1. slot.sequence \in Link!Receiving!Sequence
        BY <1>1 DEF slot, Link!Receiving!ReplaySlot
    <2>2. FloorOf \in Link!Receiving!Sequence
        <3>1. Lists(table) => table["sender"] \in Link!Receiving!Sequence
            BY DEF LinkTypes, Lists, Link!Receiving!Table
        <3> QED
            BY <3>1 DEF FloorOf, Link!Receiving!Sequence
    <2> QED
        BY <1>1, <2>1, <2>2 DEF Number
<1>3. entries' = [i \in {1, 2} |->
            IF i = 1 /\ IsCached THEN [slot EXCEPT !.sequence = Link!Receiving!LastValid(peer)]
            ELSE entries[i]]
    BY <1>1, Peers DEF Link!Receiving!Queried, slot
<1>4. slot \in Link!Receiving!ReplaySlot
    BY <1>1 DEF slot
<1>5. IsCached => [slot EXCEPT !.sequence = Link!Receiving!LastValid(peer)] \in Link!Receiving!ReplaySlot
    BY <1>2, <1>4 DEF Link!Receiving!ReplaySlot
<1>6. entries' \in [{1, 2} -> Link!Receiving!ReplaySlot]
    BY <1>1, <1>3, <1>5
<1>7. slot' = IF IsCached THEN [slot EXCEPT !.sequence = Link!Receiving!LastValid(peer)] ELSE slot
    BY <1>3 DEF slot
<1>8. IsCached => slot'.sender = slot.sender /\ slot'.sequence = Link!Receiving!LastValid(peer)
    BY <1>4, <1>7 DEF Link!Receiving!ReplaySlot
<1> QED
    BY <1>6, <1>7, <1>8, Peers DEF IsCached

\* Acceptance: the journal, the cache and the table, or what is left of it when the journal
\* cannot be written
LEMMA AcceptTerms ==
    ASSUME LinkTypes, NEW n, NEW write \in Link!Receiving!Write,
           Link!Receiving!AcceptIncomingSequence(peer, n, write)
    PROVE  /\ n \in 0 .. LinkSequence /\ Number < n /\ FloorOf < n /\ Lists(table)
           /\ entries' \in [Link!Receiving!Slot -> Link!Receiving!ReplaySlot]
           /\ IsCached'
           /\ slot'.sequence = IF write = "ok" THEN n ELSE IF Number > FloorOf THEN Number ELSE FloorOf
           /\ journal' \in [{peer} -> Nat] /\ journal'[peer] \in {journal[peer], n}
           /\ write = "ok" => journal'[peer] = n
           /\ table' \in Link!Receiving!Table /\ Lists(table')
           /\ table'["sender"] = IF write = "ok" THEN n ELSE table["sender"]
           /\ UNCHANGED image
<1> DEFINE last == Link!Receiving!LastValid(peer)
           kept == IF write = "ok" THEN n ELSE last
<1>1. /\ last = IF Number > FloorOf THEN Number ELSE FloorOf
      /\ Number \in Nat /\ FloorOf \in Nat
      /\ Link!Receiving!Listed(peer) <=> Lists(table)
      /\ Link!Receiving!Known(peer) <=> Lists(table)
    BY ReceiverTerms
<1>2. /\ n \in 0 .. LinkSequence /\ n > last /\ Lists(table) /\ UNCHANGED image
      /\ journal' = IF write = "failed" THEN journal ELSE [journal EXCEPT ![peer] = n]
      /\ table' = IF write = "ok" THEN [table EXCEPT !["sender"] = n] ELSE table
    BY <1>1, Peers DEF Link!Receiving!AcceptIncomingSequence, Link!Receiving!Sequence, Link!Receiving!Persist
<1>3. PICK i \in Link!Receiving!Slot :
        /\ Link!Receiving!IsEntry(i, peer)
        /\ entries' = [entries EXCEPT ![i] = [sender |-> peer.sender, sequence |-> kept]]
    BY DEF Link!Receiving!AcceptIncomingSequence
<1>4. i = 1 /\ entries' = [entries EXCEPT ![1] = [sender |-> "sender", sequence |-> kept]]
    BY <1>3, Peers DEF Link!Receiving!IsEntry
<1>5. n > Number /\ n > FloorOf /\ kept \in Link!Receiving!Sequence
    BY <1>1, <1>2 DEF Link!Receiving!Sequence
<1>6. [sender |-> "sender", sequence |-> kept] \in Link!Receiving!ReplaySlot
    BY <1>5 DEF Link!Receiving!ReplaySlot, Link!Sender
<1>7. entries \in [{1, 2} -> Link!Receiving!ReplaySlot] /\ journal \in [{peer} -> Nat]
    BY Peers DEF LinkTypes
<1>8. /\ entries' \in [{1, 2} -> Link!Receiving!ReplaySlot]
      /\ entries'[1] = [sender |-> "sender", sequence |-> kept]
    <2> HIDE DEF kept
    <2> QED
        BY <1>4, <1>6, <1>7
<1>9. IsCached' /\ slot'.sequence = kept
    BY <1>8 DEF IsCached, slot
<1>10. /\ journal' \in [{peer} -> Nat] /\ journal'[peer] \in {journal[peer], n}
       /\ write = "ok" => journal'[peer] = n
    BY <1>2, <1>7
<1>11. /\ table' \in Link!Receiving!Table /\ Lists(table')
       /\ table'["sender"] = IF write = "ok" THEN n ELSE table["sender"]
    <2>1. PICK listed \in SUBSET Link!Sender : table \in [listed -> Link!Receiving!Sequence]
        BY DEF LinkTypes, Link!Receiving!Table
    <2>2. "sender" \in listed
        BY <1>2, <2>1 DEF Lists
    <2>3. n \in Link!Receiving!Sequence
        BY <1>2 DEF Link!Receiving!Sequence
    <2>4. /\ table' \in [listed -> Link!Receiving!Sequence]
          /\ table'["sender"] = IF write = "ok" THEN n ELSE table["sender"]
        BY <1>2, <2>1, <2>2, <2>3
    <2> QED
        BY <2>1, <2>2, <2>4 DEF Link!Receiving!Table, Lists
<1> QED
    BY <1>1, <1>2, <1>5, <1>8, <1>9, <1>10, <1>11, Peers

-----------------------------------------------------------------------------
(* What each step keeps *)

receiverState == <<entries, table, image, journal, receivingHealthy, delivered>>
senderState   == <<outgoing, journalHealthy, factoryProvisioned>>

Sent(n)     == \E k \in 1 .. Len(telegrams) : telegrams[k] = n
SentNext(n) == \E k \in 1 .. Len(telegrams') : telegrams'[k] = n

\* A number that is behind after the step
BehindNext(n) ==
    /\ n \in Nat
    /\ n <= counter'.journal
    /\ journalHealthy' => n < counter'.next

\* The sender moves forward while it can send, and after a power loss starts above its journal.
SenderProgress ==
    /\ CounterInv(counter') /\ journalHealthy' \in BOOLEAN
    /\ \/ UNCHANGED <<outgoing, journalHealthy>>
       \/ journalHealthy /\ journalHealthy' /\ counter.next <= counter'.next
       \/ /\ counter'.journal = counter.journal
          /\ journalHealthy' => counter'.next = counter.journal + 1

BehindStays == \A n : Behind(n) => BehindNext(n)

LEMMA BehindKept ==
    ASSUME LinkTypes, SenderProgress
    PROVE  BehindStays
<1> SUFFICES ASSUME NEW n, Behind(n) PROVE BehindNext(n)
    BY DEF BehindStays
<1>1. /\ counter.next \in Nat /\ counter.journal \in Nat /\ n \in Nat
      /\ n <= counter.journal /\ (journalHealthy => n < counter.next)
    BY CounterTypes DEF Behind, LinkTypes, CounterInv
<1>2. /\ counter'.next \in Nat /\ counter'.journal \in Nat
      /\ counter'.next <= counter'.journal + 1
    <2>1. counter' \in Link!Sending!Counter /\ counter'.next <= counter'.journal + 1
        BY DEF SenderProgress, CounterInv
    <2> QED
        BY <2>1, CounterTypes
<1>3. CASE UNCHANGED <<outgoing, journalHealthy>>
    BY <1>3 DEF Behind, BehindNext, counter
<1>4. CASE journalHealthy /\ journalHealthy' /\ counter.next <= counter'.next
    <2>1. n < counter'.next /\ n <= counter'.journal
        BY <1>1, <1>2, <1>4
    <2> QED
        BY <1>1, <2>1 DEF BehindNext
<1>5. CASE /\ counter'.journal = counter.journal
           /\ journalHealthy' => counter'.next = counter.journal + 1
    <2>1. n <= counter'.journal
        BY <1>1, <1>5
    <2>2. n < counter.journal + 1
        BY <1>1
    <2>3. journalHealthy' => n < counter'.next
        BY <1>5, <2>2
    <2> QED
        BY <1>1, <2>1, <2>3 DEF BehindNext
<1> QED
    BY <1>3, <1>4, <1>5 DEF SenderProgress

\* A floor below an awaited answer is not raised, but by numbers that are behind.
FloorsStay ==
    sync["sender"] # 0 /\ sync'["sender"] = sync["sender"] =>
        \A n \in Nat : Covers(n, table) /\ Covers(n, image) =>
            Covers(n, table)' /\ Covers(n, image)'

\* Challenges are drawn anew.
SyncProgress ==
    /\ sync' \in [Link!Device -> Nat] /\ challenges' \in [Link!Device -> Nat]
    /\ challenges["sender"] <= challenges'["sender"]
    /\ sync'["sender"] <= challenges'["sender"]
    /\ sync'["sender"] \in {0, sync["sender"]} \/ sync'["sender"] > challenges["sender"]

LEMMA FramesKept ==
    ASSUME LinkTypes, NetInv, BehindStays, SyncProgress, FloorsStay, \A n : Sent(n) => SentNext(n),
           \A f \in net' \ net : FrameInv(f)' /\ (Awaited(f)' => Covers(f.number, table)' /\ Covers(f.number, image)')
    PROVE  NetInv'
<1>1. /\ challenges["sender"] \in Nat /\ challenges'["sender"] \in Nat
      /\ sync["sender"] \in Nat /\ sync'["sender"] \in Nat
    BY DEF LinkTypes, SyncProgress, Link!Device
<1>2. ASSUME NEW f \in net
      PROVE  FrameInv(f)' /\ (Awaited(f)' => Covers(f.number, table)' /\ Covers(f.number, image)')
    <2>1. FrameInv(f) /\ (Awaited(f) => Covers(f.number, table) /\ Covers(f.number, image))
        BY <1>2 DEF NetInv
    <2>2. FrameInv(f)'
        <3>1. \A c \in 1 .. challenges["sender"] : c \in 1 .. challenges'["sender"]
            BY <1>1 DEF SyncProgress
        <3>2. \A n : Sent(n) => SentNext(n)
            OBVIOUS
        <3> QED
            BY <2>1, <3>1, <3>2 DEF FrameInv, Behind, BehindNext, BehindStays, Sent, SentNext
    <2>3. ASSUME Awaited(f)' PROVE Awaited(f) /\ sync'["sender"] = sync["sender"] /\ f.number \in Nat
        <3>1. f.kind = "response" /\ f.to = "sender" /\ sync'["sender"] # 0 /\ f.challenge = sync'["sender"]
            BY <2>3 DEF Awaited
        <3>2. f.number \in Nat /\ f.challenge \in 1 .. challenges["sender"]
            BY <2>1, <3>1 DEF FrameInv
        <3>3. sync'["sender"] = sync["sender"]
            BY <1>1, <3>1, <3>2 DEF SyncProgress
        <3> QED
            BY <3>1, <3>2, <3>3 DEF Awaited
    <2> QED
        BY <2>1, <2>2, <2>3 DEF FloorsStay, Awaited
<1> QED
    BY <1>2 DEF NetInv

\* The number of a new telegram is above all others.
LEMMA AppendedOrder ==
    ASSUME LinkTypes, OrderInv, CounterInv(counter'), BehindStays, journalHealthy,
           telegrams' = Append(telegrams, counter.next), counter'.next = counter.next + 1
    PROVE  /\ \A i, j \in 1 .. Len(telegrams') : i < j => telegrams'[i] < telegrams'[j]
           /\ \A k \in 1 .. Len(telegrams') : BehindNext(telegrams'[k])
<1>1. /\ telegrams \in Seq(1 .. LinkSequence) /\ Len(telegrams) \in Nat
      /\ Len(telegrams') = Len(telegrams) + 1 /\ telegrams'[Len(telegrams) + 1] = counter.next
      /\ \A k \in 1 .. Len(telegrams) : telegrams'[k] = telegrams[k]
    BY DEF LinkTypes
<1>2. /\ counter.next \in Nat /\ counter'.next \in Nat /\ counter'.journal \in Nat
      /\ counter'.next <= counter'.journal + 1
    <2>1. counter \in Link!Sending!Counter /\ counter' \in Link!Sending!Counter
          /\ counter'.next <= counter'.journal + 1
        BY DEF LinkTypes, CounterInv
    <2> QED
        BY <2>1, CounterTypes
<1>3. \A k \in 1 .. Len(telegrams) : telegrams[k] \in Nat /\ telegrams[k] < counter.next
    BY DEF OrderInv, Behind
<1>4. BehindNext(counter.next)
    <2>1. counter.next <= counter'.journal /\ counter.next < counter'.next
        BY <1>2
    <2> QED
        BY <1>2, <2>1 DEF BehindNext
<1>5. \A k \in 1 .. Len(telegrams) : BehindNext(telegrams[k])
    BY DEF OrderInv, BehindStays
<1>6. \A k \in 1 .. Len(telegrams') : k \in 1 .. Len(telegrams) \/ k = Len(telegrams) + 1
    BY <1>1
<1>7. \A k \in 1 .. Len(telegrams') : BehindNext(telegrams'[k])
    BY <1>1, <1>4, <1>5, <1>6
<1>8. ASSUME NEW i \in 1 .. Len(telegrams'), NEW j \in 1 .. Len(telegrams'), i < j
      PROVE  telegrams'[i] < telegrams'[j]
    <2>1. i \in 1 .. Len(telegrams)
        BY <1>1, <1>8
    <2>2. CASE j \in 1 .. Len(telegrams)
        BY <1>1, <1>8, <2>1, <2>2 DEF OrderInv
    <2>3. CASE j = Len(telegrams) + 1
        BY <1>1, <1>3, <2>1, <2>3
    <2> QED
        BY <1>6, <2>2, <2>3
<1> QED
    BY <1>7, <1>8

\* Steps of the sender: what the receiver holds stays behind.
LEMMA SenderSteps ==
    ASSUME LinkInv, OneCounter', SenderProgress, SyncProgress, UNCHANGED receiverState,
           telegrams' \in Seq(1 .. LinkSequence), \A n : Sent(n) => SentNext(n),
           telegrams' = telegrams \/ (telegrams' = Append(telegrams, counter.next) /\ journalHealthy
                                        /\ counter'.next = counter.next + 1 /\ journalHealthy'),
           \A f \in net' \ net : FrameInv(f)' /\ ~Awaited(f)'
    PROVE  LinkInv'
<1>1. BehindStays
    BY BehindKept DEF LinkInv
<1>2. LinkTypes'
    BY DEF LinkInv, LinkTypes, SenderProgress, SyncProgress, receiverState
<1>3. ReceiverInv'
    BY <1>1 DEF LinkInv, ReceiverInv, BehindStays, Behind, BehindNext, IsCached, slot, receiverState
<1>4. FloorsStay
    BY <1>1 DEF FloorsStay, Covers, BehindStays, Behind, BehindNext, receiverState
<1>5. NetInv'
    BY <1>1, <1>4, FramesKept DEF LinkInv
<1>6. OrderInv'
    <2>1. \A i \in 1 .. Len(delivered'[peer]) :
              /\ delivered'[peer][i] <= journal'[peer]
              /\ IsCached' => delivered'[peer][i] <= slot'.sequence
              /\ SentNext(delivered'[peer][i])
        <3>1. \A i \in 1 .. Len(delivered[peer]) :
                  /\ delivered[peer][i] <= journal[peer]
                  /\ IsCached => delivered[peer][i] <= slot.sequence
                  /\ SentNext(delivered[peer][i])
            BY DEF LinkInv, OrderInv, Sent
        <3> QED
            BY <3>1 DEF IsCached, slot, receiverState
    <2>2. \A i, j \in 1 .. Len(delivered'[peer]) : i < j => delivered'[peer][i] < delivered'[peer][j]
        BY DEF LinkInv, OrderInv, receiverState
    <2>3. /\ \A i, j \in 1 .. Len(telegrams') : i < j => telegrams'[i] < telegrams'[j]
          /\ \A k \in 1 .. Len(telegrams') : BehindNext(telegrams'[k])
        <3>1. CASE telegrams' = telegrams
            BY <1>1, <3>1 DEF LinkInv, OrderInv, BehindStays
        <3>2. CASE telegrams' = Append(telegrams, counter.next) /\ journalHealthy /\ journalHealthy'
                   /\ counter'.next = counter.next + 1
            BY <1>1, <3>2, AppendedOrder DEF LinkInv, SenderProgress
        <3> QED
            BY <3>1, <3>2
    <2> QED
        BY <2>1, <2>2, <2>3 DEF OrderInv, Behind, BehindNext, SentNext
<1> QED
    BY <1>2, <1>3, <1>5, <1>6 DEF LinkInv

-----------------------------------------------------------------------------
(* The steps of the sender *)

LEMMA NumberTaken ==
    ASSUME LinkTypes, CounterInv(counter'), TakesNext(counter, counter')
    PROVE  /\ counter.next <= counter'.next
           /\ Link!TakesNumber =>
                /\ Link!Taken = counter.next /\ counter'.next = counter.next + 1
                /\ counter.next \in 1 .. LinkSequence
<1>1. /\ counter.next \in 1 .. LinkSequence + 1 /\ counter.sent \in Seq(1 .. LinkSequence)
    BY CounterTypes DEF LinkTypes, CounterInv
<1>2. Link!TakesNumber <=> counter'.sent # counter.sent
    BY DEF Link!TakesNumber, Link!counter, counter
<1>3. Link!Taken = counter'.sent[Len(counter'.sent)]
    BY DEF Link!Taken, Link!counter, counter
<1>4. CASE counter'.sent = counter.sent /\ counter'.next = counter.next
    BY <1>1, <1>2, <1>4
<1>5. CASE /\ counter'.sent = Append(counter.sent, counter.next)
           /\ counter'.next = counter.next + 1 /\ counter.next <= LinkSequence
    <2>1. Len(counter'.sent) = Len(counter.sent) + 1
        BY <1>1, <1>5
    <2>2. counter'.sent[Len(counter'.sent)] = counter.next
        BY <1>1, <1>5, <2>1
    <2> QED
        BY <1>1, <1>3, <1>5, <2>2
<1> QED
    BY <1>4, <1>5 DEF TakesNext

LEMMA SendTelegramStep ==
    ASSUME LinkInv, Link!SendTelegram
    PROVE  LinkInv'
<1>1. /\ OneCounter' /\ CounterInv(counter') /\ TakesNext(counter, counter')
      /\ journalHealthy /\ UNCHANGED journalHealthy
    BY ReserveTakesNext DEF LinkInv, LinkTypes, Link!SendTelegram
<1>2. /\ counter.next <= counter'.next
      /\ Link!TakesNumber =>
            /\ Link!Taken = counter.next /\ counter'.next = counter.next + 1
            /\ counter.next \in 1 .. LinkSequence
    BY <1>1, NumberTaken DEF LinkInv
<1>3. UNCHANGED receiverState /\ UNCHANGED <<sync, challenges>>
    BY DEF Link!SendTelegram, Link!receiving, receiverState
<1>4. SenderProgress
    BY <1>1, <1>2 DEF SenderProgress
<1>5. SyncProgress
    BY <1>3 DEF SyncProgress, LinkInv, LinkTypes, Link!Device
<1>6. CASE ~Link!TakesNumber
    <2>1. telegrams' = telegrams /\ net' = net
        BY <1>6 DEF Link!SendTelegram
    <2>2. /\ telegrams' \in Seq(1 .. LinkSequence) /\ \A n : Sent(n) => SentNext(n)
          /\ net' \ net = {}
        BY <2>1 DEF LinkInv, LinkTypes, Sent, SentNext
    <2> HIDE DEF LinkInv
    <2> QED
        BY <1>1, <1>3, <1>4, <1>5, <2>1, <2>2, SenderSteps
<1>7. CASE Link!TakesNumber
    <2>1. /\ telegrams' = Append(telegrams, counter.next)
          /\ net' = net \cup {Link!Telegram(counter.next)}
        BY <1>2, <1>7 DEF Link!SendTelegram
    <2>2. telegrams \in Seq(1 .. LinkSequence)
        BY DEF LinkInv, LinkTypes
    <2>3. /\ telegrams' \in Seq(1 .. LinkSequence) /\ Len(telegrams') = Len(telegrams) + 1
          /\ telegrams'[Len(telegrams')] = counter.next /\ Len(telegrams) \in Nat
          /\ \A k \in 1 .. Len(telegrams) : telegrams'[k] = telegrams[k]
        BY <1>2, <1>7, <2>1, <2>2
    <2>4. (\A n : Sent(n) => SentNext(n)) /\ SentNext(counter.next)
        BY <2>3 DEF Sent, SentNext
    <2>5. BehindNext(counter.next)
        <3>1. counter.next \in Nat /\ counter.next < counter'.next
            BY <1>2, <1>7
        <3>2. counter'.next <= counter'.journal + 1 /\ counter'.journal \in Nat /\ counter'.next \in Nat
            BY <1>1, CounterTypes DEF CounterInv
        <3>3. counter.next <= counter'.journal
            BY <3>1, <3>2
        <3> QED
            BY <3>1, <3>3 DEF BehindNext
    <2>6. ASSUME NEW f \in net' \ net PROVE FrameInv(f)' /\ ~Awaited(f)'
        <3>1. f = [kind |-> "data", number |-> counter.next]
            BY <2>1, <2>6 DEF Link!Telegram
        <3>2. f.kind = "data" /\ f.number = counter.next
            BY <3>1
        <3> QED
            BY <2>4, <2>5, <3>2 DEF FrameInv, Awaited, Behind, BehindNext, SentNext
    <2> HIDE DEF LinkInv
    <2>7. counter'.next = counter.next + 1
        BY <1>2, <1>7
    <2> QED
        BY <1>1, <1>3, <1>4, <1>5, <2>1, <2>3, <2>4, <2>6, <2>7, SenderSteps
<1> QED
    BY <1>6, <1>7

\* Steps that send no telegram
LEMMA SilentSenderStep ==
    ASSUME LinkInv, OneCounter', SenderProgress, SyncProgress, UNCHANGED receiverState,
           telegrams' = telegrams, \A f \in net' \ net : FrameInv(f)' /\ ~Awaited(f)'
    PROVE  LinkInv'
<1>1. telegrams' \in Seq(1 .. LinkSequence) /\ \A n : Sent(n) => SentNext(n)
    BY DEF LinkInv, LinkTypes, Sent, SentNext
<1> QED
    BY <1>1, SenderSteps

LEMMA SenderStartsSyncStep ==
    ASSUME LinkInv, Link!SenderStartsSync
    PROVE  LinkInv'
<1>1. /\ OneCounter' /\ CounterInv(counter') /\ TakesNext(counter, counter')
      /\ journalHealthy /\ UNCHANGED journalHealthy
    BY ReserveTakesNext DEF LinkInv, LinkTypes, Link!SenderStartsSync
<1>2. /\ counter.next <= counter'.next
      /\ Link!TakesNumber =>
            /\ Link!Taken = counter.next /\ counter'.next = counter.next + 1
            /\ counter.next \in 1 .. LinkSequence
    BY <1>1, NumberTaken DEF LinkInv
<1> DEFINE drawn == challenges["sender"] + 1
<1>3. /\ UNCHANGED receiverState /\ telegrams' = telegrams
      /\ challenges' = [challenges EXCEPT !["sender"] = drawn]
      /\ sync' = sync \/ sync' = [sync EXCEPT !["sender"] = drawn]
      /\ sync["sender"] = 0
    BY DEF Link!SenderStartsSync, Link!receiving, receiverState, Link!Draw
<1>4. SenderProgress
    BY <1>1, <1>2 DEF SenderProgress
<1>5. drawn \in Nat /\ drawn > challenges["sender"] /\ challenges["sender"] \in Nat
    BY DEF LinkInv, LinkTypes, Link!Device
<1>6. SyncProgress /\ challenges'["sender"] = drawn
    <2> HIDE DEF drawn
    <2>1. sync \in [Link!Device -> Nat] /\ challenges \in [Link!Device -> Nat] /\ "sender" \in Link!Device
        BY DEF LinkInv, LinkTypes, Link!Device
    <2>2. /\ challenges' \in [Link!Device -> Nat] /\ challenges'["sender"] = drawn
          /\ sync' \in [Link!Device -> Nat] /\ sync'["sender"] \in {0, drawn}
        BY <1>3, <1>5, <2>1
    <2> QED
        BY <1>5, <2>2 DEF SyncProgress
<1>7. ASSUME NEW f \in net' \ net PROVE FrameInv(f)' /\ ~Awaited(f)'
    <2>1. Link!TakesNumber /\ f = Link!Request("receiver", drawn, Link!Taken)
        BY <1>7 DEF Link!SenderStartsSync, Link!Draw
    <2>2. f.kind = "request" /\ f.to = "receiver" /\ f.challenge = drawn /\ f.number = counter.next
        BY <1>2, <2>1 DEF Link!Request
    <2>3. BehindNext(counter.next) /\ counter.next >= 1
        <3>1. counter.next \in Nat /\ counter.next < counter'.next /\ counter.next >= 1
            BY <1>2, <2>1
        <3>2. counter'.next <= counter'.journal + 1 /\ counter'.journal \in Nat /\ counter'.next \in Nat
            BY <1>1, CounterTypes DEF CounterInv
        <3>3. counter.next <= counter'.journal
            BY <3>1, <3>2
        <3> QED
            BY <3>1, <3>3 DEF BehindNext
    <2>4. drawn \in 1 .. challenges'["sender"]
        BY <1>5, <1>6
    <2> QED
        BY <2>2, <2>3, <2>4 DEF FrameInv, Awaited, Behind, BehindNext
<1> QED
    BY <1>1, <1>3, <1>4, <1>6, <1>7, SilentSenderStep

LEMMA SenderAnswersSyncStep ==
    ASSUME LinkInv, NEW f0 \in net, Link!SenderAnswersSync(f0)
    PROVE  LinkInv'
<1> DEFINE next == Link!Sending!NextSequenceNumber(counter)
<1>1. /\ counter \in Link!Sending!Counter /\ counter.property <= counter.next
      /\ counter.next \in 1 .. LinkSequence + 1 /\ counter.property \in 0 .. LinkSequence
      /\ counter.journal \in Nat /\ counter.next <= counter.journal + 1
    BY CounterTypes DEF LinkInv, LinkTypes, CounterInv
<1>2. /\ journalHealthy /\ UNCHANGED journalHealthy /\ next # 0
      /\ outgoing' = [outgoing EXCEPT ![FALSE] =
            [counter EXCEPT !.advertised = Link!Sending!Greater(counter.advertised, next)]]
    BY DEF Link!SenderAnswersSync, Link!Sending!Advertise, Link!Sending!Becomes, counter
<1>3. next = counter.next /\ next \in 1 .. LinkSequence
    BY <1>1, <1>2 DEF Link!Sending!NextSequenceNumber, Link!Sending!SequenceProperty,
                      Link!Sending!Greater
<1> DEFINE a == Link!Sending!Greater(counter.advertised, next)
<1>4. a \in 0 .. LinkSequence
    BY <1>1, <1>3 DEF Link!Sending!Greater, Link!Sending!Counter, Link!Sending!Sequence
<1> HIDE DEF a
<1>5. counter' = [counter EXCEPT !.advertised = a]
    BY <1>2 DEF a, counter, LinkInv, LinkTypes, OneCounter
<1>6. /\ counter' \in Link!Sending!Counter /\ counter'.next = counter.next
      /\ counter'.journal = counter.journal /\ counter'.property = counter.property
      /\ counter'.reserved = counter.reserved /\ counter'.image = counter.image
    BY <1>1, <1>4, <1>5 DEF Link!Sending!Counter, Link!Sending!Sequence
<1>7. CounterInv(counter')
    BY <1>6 DEF LinkInv, LinkTypes, CounterInv
<1>8. OneCounter'
    BY <1>2, <1>5, <1>6 DEF a, LinkInv, LinkTypes, OneCounter
<1>9. SenderProgress
    <2>1. counter.next <= counter'.next
        BY <1>1, <1>6
    <2> QED
        BY <1>2, <1>7, <2>1 DEF SenderProgress
<1>10. UNCHANGED receiverState /\ UNCHANGED <<sync, challenges, telegrams>>
    BY DEF Link!SenderAnswersSync, Link!receiving, receiverState
<1>11. SyncProgress
    BY <1>10 DEF SyncProgress, LinkInv, LinkTypes, Link!Device
<1>12. ASSUME NEW f \in net' \ net PROVE FrameInv(f)' /\ ~Awaited(f)'
    <2>1. f = Link!Response("receiver", f0.challenge, next)
        BY <1>12 DEF Link!SenderAnswersSync, Link!counter, counter
    <2>2. f.kind = "response" /\ f.to = "receiver" /\ f.number = next
        BY <2>1 DEF Link!Response
    <2>3. f.number \in Nat /\ f.number >= 1 /\ BehindNext(f.number - 1)
        <3>1. f.number \in Nat /\ f.number >= 1 /\ f.number - 1 \in Nat
            BY <1>3, <2>2
        <3>2. f.number - 1 <= counter'.journal /\ f.number - 1 < counter'.next
            BY <1>1, <1>3, <1>6, <2>2
        <3> QED
            BY <3>1, <3>2 DEF BehindNext
    <2> QED
        BY <2>2, <2>3 DEF FrameInv, Awaited, Behind, BehindNext
<1> QED
    BY <1>8, <1>9, <1>10, <1>11, <1>12, SilentSenderStep

LEMMA SenderSynchronisedStep ==
    ASSUME LinkInv, NEW f0 \in net, Link!SenderSynchronised(f0)
    PROVE  LinkInv'
<1>1. /\ OneCounter' /\ CounterInv(counter') /\ counter.next <= counter'.next
      /\ journalHealthy /\ UNCHANGED journalHealthy
    BY EnsureMovesForward DEF LinkInv, LinkTypes, Link!SenderSynchronised
<1>2. /\ UNCHANGED receiverState /\ UNCHANGED <<challenges, telegrams, net>>
      /\ sync' = sync \/ sync' = [sync EXCEPT !["sender"] = 0]
    BY DEF Link!SenderSynchronised, Link!receiving, receiverState
<1>3. SenderProgress
    BY <1>1 DEF SenderProgress
<1>4. SyncProgress
    BY <1>2 DEF SyncProgress, LinkInv, LinkTypes, Link!Device
<1> QED
    BY <1>1, <1>2, <1>3, <1>4, SilentSenderStep

LEMMA SenderPowerCycleStep ==
    ASSUME LinkInv, Link!SenderPowerCycle
    PROVE  LinkInv'
<1>1. /\ OneCounter' /\ CounterInv(counter') /\ counter'.journal = counter.journal
      /\ journalHealthy' \in BOOLEAN
      /\ journalHealthy' => counter'.next = counter.journal + 1
    BY PowerCycleResumes DEF LinkInv, LinkTypes, Link!SenderPowerCycle
<1>2. /\ UNCHANGED receiverState /\ UNCHANGED <<challenges, telegrams, net>>
      /\ sync' = [sync EXCEPT !["sender"] = 0]
    BY DEF Link!SenderPowerCycle, Link!receiving, receiverState
<1>3. SenderProgress
    BY <1>1 DEF SenderProgress
<1>4. SyncProgress
    BY <1>2 DEF SyncProgress, LinkInv, LinkTypes, Link!Device
<1> QED
    BY <1>1, <1>2, <1>3, <1>4, SilentSenderStep

-----------------------------------------------------------------------------
(* The steps of the receiver *)

LEMMA SmallerBehind ==
    ASSUME LinkTypes, NEW n, Behind(n), NEW m \in Nat, m <= n
    PROVE  Behind(m)
<1>1. /\ counter.next \in Nat /\ counter.journal \in Nat /\ n \in Nat
      /\ n <= counter.journal /\ (journalHealthy => n < counter.next)
    BY CounterTypes DEF Behind, LinkTypes, CounterInv
<1>2. m <= counter.journal /\ (n < counter.next => m < counter.next)
    BY <1>1
<1> QED
    BY <1>1, <1>2 DEF Behind

ReceiverTypesNext ==
    /\ entries' \in [Link!Receiving!Slot -> Link!Receiving!ReplaySlot]
    /\ table' \in Link!Receiving!Table /\ image' \in Link!Receiving!Table
    /\ journal' \in [{peer} -> Nat]
    /\ delivered' \in [{peer} -> Seq(1 .. LinkSequence)]

\* What the receiver has recorded after the step, and what it has delivered
Recorded ==
    /\ Behind(journal'[peer])
    /\ IsCached' => Lists(table') /\ Behind(table'["sender"]) /\ Behind(slot'.sequence)
    /\ Lists(table') /\ Lists(image') => image'["sender"] <= table'["sender"]

DeliveredInOrder ==
    /\ \A i, j \in 1 .. Len(delivered'[peer]) : i < j => delivered'[peer][i] < delivered'[peer][j]
    /\ \A i \in 1 .. Len(delivered'[peer]) :
          /\ delivered'[peer][i] <= journal'[peer]
          /\ IsCached' => delivered'[peer][i] <= slot'.sequence
          /\ Sent(delivered'[peer][i])

\* Steps of the receiver: what is behind the sender stays there.
LEMMA ReceiverSteps ==
    ASSUME LinkInv, UNCHANGED senderState, UNCHANGED telegrams, SyncProgress,
           ReceiverTypesNext, Recorded, DeliveredInOrder, FloorsStay,
           \A f \in net' \ net : FrameInv(f) /\ (Awaited(f)' => Covers(f.number, table') /\ Covers(f.number, image'))
    PROVE  LinkInv'
<1>1. UNCHANGED <<outgoing, journalHealthy>> /\ UNCHANGED counter
    BY DEF senderState, counter
<1>2. SenderProgress /\ OneCounter'
    BY <1>1 DEF SenderProgress, LinkInv, LinkTypes, CounterInv, OneCounter
<1>3. BehindStays
    BY <1>2, BehindKept DEF LinkInv
<1>4. LinkTypes'
    BY <1>1, <1>2 DEF LinkInv, LinkTypes, SenderProgress, SyncProgress, ReceiverTypesNext
<1>5. ReceiverInv'
    BY <1>1 DEF ReceiverInv, Recorded, Behind
<1>6. \A n : Sent(n) => SentNext(n)
    BY DEF Sent, SentNext
<1>7. ASSUME NEW f \in net' \ net
      PROVE  FrameInv(f)' /\ (Awaited(f)' => Covers(f.number, table)' /\ Covers(f.number, image)')
    <2>1. FrameInv(f) /\ (Awaited(f)' => Covers(f.number, table') /\ Covers(f.number, image'))
        BY <1>7
    <2>2. FrameInv(f)'
        <3>1. challenges["sender"] \in Nat /\ challenges'["sender"] \in Nat
              /\ challenges["sender"] <= challenges'["sender"]
            BY DEF LinkInv, LinkTypes, SyncProgress, Link!Device
        <3>2. \A c \in 1 .. challenges["sender"] : c \in 1 .. challenges'["sender"]
            BY <3>1
        <3> QED
            BY <1>1, <2>1, <3>2 DEF FrameInv, Behind
    <2> QED
        BY <1>1, <2>1, <2>2 DEF Covers, Behind
<1>8. NetInv'
    BY <1>3, <1>6, <1>7, FramesKept DEF LinkInv
<1>9. OrderInv'
    <2>1. /\ \A i, j \in 1 .. Len(telegrams') : i < j => telegrams'[i] < telegrams'[j]
          /\ \A k \in 1 .. Len(telegrams') : BehindNext(telegrams'[k])
        BY <1>3 DEF LinkInv, OrderInv, BehindStays
    <2>2. \A n : Sent(n) <=> SentNext(n)
        BY DEF Sent, SentNext
    <2> QED
        BY <2>1, <2>2 DEF DeliveredInOrder, OrderInv, SentNext, Behind, BehindNext
<1> QED
    BY <1>4, <1>5, <1>8, <1>9 DEF LinkInv

\* What the receiver has delivered is recorded.
LEMMA DeliveredRecorded ==
    ASSUME LinkInv
    PROVE  /\ Number \in Nat /\ FloorOf \in Nat
           /\ \A i \in 1 .. Len(delivered[peer]) : delivered[peer][i] <= Number
           /\ Number <= journal[peer] \/ IsCached
<1>1. Number \in Nat /\ FloorOf \in Nat
    BY ReceiverTerms DEF LinkInv
<1>2. journal[peer] \in Nat
    BY DEF LinkInv, LinkTypes
<1> QED
    BY <1>1, <1>2 DEF LinkInv, OrderInv, Number

\* A number is looked up.
LEMMA LookedUp ==
    ASSUME LinkInv, entries' = Link!Receiving!Queried(peer),
           UNCHANGED <<outgoing, journalHealthy, table, image, journal, delivered>>
    PROVE  ReceiverTypesNext /\ Recorded /\ DeliveredInOrder /\ FloorsStay
<1> DEFINE last == Link!Receiving!LastValid(peer)
<1>1. /\ entries' \in [Link!Receiving!Slot -> Link!Receiving!ReplaySlot]
      /\ IsCached' <=> IsCached
      /\ IsCached => slot'.sequence = last
      /\ last = IF Number > FloorOf THEN Number ELSE FloorOf
      /\ Number \in Nat /\ FloorOf \in Nat
    BY QueriedTerms, ReceiverTerms DEF LinkInv
<1>2. ReceiverTypesNext
    BY <1>1 DEF ReceiverTypesNext, LinkInv, LinkTypes
<1>3. IsCached => Behind(last)
    BY <1>1 DEF LinkInv, ReceiverInv, Number, FloorOf
<1>4. Recorded
    BY <1>1, <1>3 DEF Recorded, LinkInv, ReceiverInv
<1>5. \A i \in 1 .. Len(delivered[peer]) : delivered[peer][i] <= Number /\ delivered[peer][i] \in Nat
    <2>1. delivered[peer] \in Seq(1 .. LinkSequence)
        BY DEF LinkInv, LinkTypes
    <2> QED
        BY <2>1, DeliveredRecorded
<1>6. DeliveredInOrder
    <2>1. \A i \in 1 .. Len(delivered[peer]) : IsCached => delivered[peer][i] <= last
        BY <1>1, <1>5
    <2> QED
        BY <1>1, <2>1 DEF LinkInv, OrderInv, DeliveredInOrder, Sent
<1>7. FloorsStay
    BY DEF FloorsStay, Covers, Behind, counter
<1> QED
    BY <1>2, <1>4, <1>6, <1>7

\* A number is taken that the sender has left behind; if it came with a telegram that was
\* sent, that may be delivered.
LEMMA TakenUp ==
    ASSUME LinkInv, UNCHANGED <<outgoing, journalHealthy>>,
           NEW n, Behind(n), NEW write \in Link!Receiving!Write,
           Link!Receiving!AcceptIncomingSequence(peer, n, write),
           \/ UNCHANGED delivered
           \/ /\ write = "ok" /\ n \in 1 .. LinkSequence /\ Sent(n)
              /\ delivered' = [delivered EXCEPT ![peer] = Append(@, n)]
    PROVE  ReceiverTypesNext /\ Recorded /\ DeliveredInOrder /\ FloorsStay
<1>1. /\ n \in 0 .. LinkSequence /\ Number < n /\ FloorOf < n /\ Lists(table)
      /\ entries' \in [Link!Receiving!Slot -> Link!Receiving!ReplaySlot]
      /\ IsCached'
      /\ slot'.sequence = IF write = "ok" THEN n ELSE IF Number > FloorOf THEN Number ELSE FloorOf
      /\ journal' \in [{peer} -> Nat] /\ journal'[peer] \in {journal[peer], n}
      /\ write = "ok" => journal'[peer] = n
      /\ table' \in Link!Receiving!Table /\ Lists(table')
      /\ table'["sender"] = IF write = "ok" THEN n ELSE table["sender"]
      /\ UNCHANGED image
    BY AcceptTerms DEF LinkInv
<1>2. /\ Number \in Nat /\ FloorOf \in Nat
      /\ FloorOf = table["sender"]
    BY <1>1, ReceiverTerms DEF LinkInv, FloorOf
<1>3. Behind(Number) /\ Behind(FloorOf)
    BY <1>1, <1>2, SmallerBehind DEF LinkInv
<1> DEFINE q == delivered[peer]
<1>4. /\ q \in Seq(1 .. LinkSequence) /\ delivered \in [{peer} -> Seq(1 .. LinkSequence)]
    BY DEF LinkInv, LinkTypes
<1>5. \A i \in 1 .. Len(q) : q[i] \in Nat /\ q[i] <= Number /\ q[i] <= journal[peer] /\ Sent(q[i])
    BY <1>4, DeliveredRecorded DEF LinkInv, OrderInv, Sent
<1>6. \A i, j \in 1 .. Len(q) : i < j => q[i] < q[j]
    BY DEF LinkInv, OrderInv
<1>7. \/ delivered' = delivered
      \/ /\ write = "ok" /\ n \in 1 .. LinkSequence /\ Sent(n)
         /\ delivered'[peer] = Append(q, n)
         /\ delivered' \in [{peer} -> Seq(1 .. LinkSequence)]
    <2>1. CASE UNCHANGED delivered
        BY <2>1
    <2>2. CASE /\ write = "ok" /\ n \in 1 .. LinkSequence /\ Sent(n)
               /\ delivered' = [delivered EXCEPT ![peer] = Append(@, n)]
        <3>1. Append(q, n) \in Seq(1 .. LinkSequence)
            BY <1>4, <2>2
        <3>2. delivered' = [delivered EXCEPT ![peer] = Append(q, n)]
            BY <2>2
        <3> HIDE DEF q
        <3>3. delivered'[peer] = Append(q, n) /\ delivered' \in [{peer} -> Seq(1 .. LinkSequence)]
            BY <1>4, <3>1, <3>2
        <3> QED
            BY <2>2, <3>3 DEF q
    <2> QED
        BY <2>1, <2>2
<1>8. ReceiverTypesNext
    BY <1>1, <1>4, <1>7 DEF ReceiverTypesNext, LinkInv, LinkTypes
<1>9. Recorded
    <2>1. Behind(journal'[peer]) /\ Behind(slot'.sequence) /\ Behind(table'["sender"])
        BY <1>1, <1>2, <1>3 DEF LinkInv, ReceiverInv
    <2>2. Lists(image') => image'["sender"] <= table'["sender"]
        <3>1. Lists(image) => image["sender"] \in Nat /\ image["sender"] <= FloorOf
            BY <1>1, <1>2, TableTypes DEF LinkInv, LinkTypes, ReceiverInv
        <3>2. table'["sender"] \in {n, FloorOf}
            BY <1>1, <1>2
        <3> QED
            BY <1>1, <1>2, <3>1, <3>2
    <2> QED
        BY <2>1, <2>2, <1>1 DEF Recorded
<1>10. \A i \in 1 .. Len(q) : q[i] <= journal'[peer] /\ q[i] <= slot'.sequence
    <2>1. slot'.sequence \in Nat /\ slot'.sequence >= Number
        BY <1>1, <1>2
    <2>2. journal'[peer] = journal[peer] \/ journal'[peer] = n
        BY <1>1
    <2> QED
        BY <1>1, <1>2, <1>5, <2>1, <2>2
<1>11. DeliveredInOrder
    <2>1. CASE delivered' = delivered
        BY <1>5, <1>6, <1>10, <2>1 DEF DeliveredInOrder
    <2>2. CASE write = "ok" /\ n \in 1 .. LinkSequence /\ Sent(n) /\ delivered'[peer] = Append(q, n)
        <3> DEFINE r == delivered'[peer]
        <3>1. /\ Len(r) = Len(q) + 1 /\ r[Len(q) + 1] = n /\ Len(q) \in Nat
              /\ \A i \in 1 .. Len(q) : r[i] = q[i]
            BY <1>4, <2>2
        <3>2. \A i \in 1 .. Len(r) : i \in 1 .. Len(q) \/ i = Len(q) + 1
            BY <3>1
        <3>3. n <= journal'[peer] /\ n <= slot'.sequence
            BY <1>1, <2>2
        <3> HIDE DEF q, r
        <3>4. \A i \in 1 .. Len(r) : r[i] <= journal'[peer] /\ r[i] <= slot'.sequence /\ Sent(r[i])
            BY <1>5, <1>10, <2>2, <3>1, <3>2, <3>3
        <3>5. ASSUME NEW i \in 1 .. Len(r), NEW j \in 1 .. Len(r), i < j PROVE r[i] < r[j]
            <4>1. i \in 1 .. Len(q) /\ r[i] = q[i]
                BY <3>1, <3>5
            <4>2. CASE j \in 1 .. Len(q)
                BY <1>6, <3>1, <3>5, <4>1, <4>2
            <4>3. CASE j = Len(q) + 1
                <5>1. q[i] < n
                    BY <1>1, <1>2, <1>5, <4>1
                <5> QED
                    BY <3>1, <4>1, <4>3, <5>1
            <4> QED
                BY <3>2, <4>2, <4>3
        <3> QED
            BY <3>4, <3>5 DEF DeliveredInOrder, r
    <2> QED
        BY <1>7, <2>1, <2>2
<1>12. FloorsStay
    <2>1. table'["sender"] = table["sender"] \/ Behind(table'["sender"])
        BY <1>1
    <2> QED
        BY <1>1, <2>1 DEF FloorsStay, Covers, Behind, counter
<1> QED
    BY <1>8, <1>9, <1>11, <1>12

LEMMA ReceiverStartsSyncStep ==
    ASSUME LinkInv, Link!ReceiverStartsSync
    PROVE  LinkInv'
<1> DEFINE drawn == challenges["receiver"] + 1
<1>1. /\ UNCHANGED receiverState /\ UNCHANGED senderState /\ UNCHANGED telegrams
      /\ challenges' = [challenges EXCEPT !["receiver"] = drawn]
      /\ sync' = [sync EXCEPT !["receiver"] = drawn]
      /\ net' = net \cup {Link!Request("sender", drawn, 0)}
    BY DEF Link!ReceiverStartsSync, Link!receiving, Link!sending, receiverState, senderState, Link!Draw
<1>2. drawn \in Nat
    BY DEF LinkInv, LinkTypes, Link!Device
<1>3. SyncProgress
    <2> HIDE DEF drawn
    <2>1. /\ sync \in [Link!Device -> Nat] /\ challenges \in [Link!Device -> Nat]
          /\ sync["sender"] <= challenges["sender"]
          /\ "sender" \in Link!Device /\ "receiver" \in Link!Device
        BY DEF LinkInv, LinkTypes, Link!Device
    <2>2. sync' \in [Link!Device -> Nat] /\ challenges' \in [Link!Device -> Nat]
        BY <1>1, <1>2, <2>1
    <2>3. sync'["sender"] = sync["sender"] /\ challenges'["sender"] = challenges["sender"]
        BY <1>1, <2>1
    <2> QED
        BY <2>1, <2>2, <2>3 DEF SyncProgress
<1>4. ASSUME NEW f \in net' \ net PROVE FrameInv(f)' /\ ~Awaited(f)'
    <2>1. f = Link!Request("sender", drawn, 0)
        BY <1>1, <1>4
    <2>2. f.kind = "request" /\ f.to = "sender"
        BY <2>1 DEF Link!Request
    <2> QED
        BY <2>2 DEF FrameInv, Awaited
<1>5. SenderProgress /\ OneCounter'
    BY <1>1 DEF SenderProgress, LinkInv, LinkTypes, CounterInv, OneCounter, senderState, counter
<1> QED
    BY <1>1, <1>3, <1>4, <1>5, SilentSenderStep

LEMMA SyncExpiresStep ==
    ASSUME LinkInv, NEW d \in Link!Device, Link!SyncExpires(d)
    PROVE  LinkInv'
<1>1. /\ UNCHANGED receiverState /\ UNCHANGED senderState
      /\ UNCHANGED <<challenges, telegrams, net>>
      /\ sync' = [sync EXCEPT ![d] = 0]
    BY DEF Link!SyncExpires, Link!receiving, Link!sending, receiverState, senderState
<1>2. SyncProgress
    BY <1>1 DEF SyncProgress, LinkInv, LinkTypes, Link!Device
<1>3. SenderProgress /\ OneCounter'
    BY <1>1 DEF SenderProgress, LinkInv, LinkTypes, CounterInv, OneCounter, senderState, counter
<1> QED
    BY <1>1, <1>2, <1>3, SilentSenderStep

\* ETS lists a sender that the receiver does not know, and so has not cached.
LEMMA CommissionStep ==
    ASSUME LinkInv, NEW n \in 1 .. LinkSequence, Link!Commission(n)
    PROVE  LinkInv'
<1>1. /\ table = Link!Receiving!NoTable /\ image = Link!Receiving!NoTable /\ sync["sender"] = 0
      /\ UNCHANGED <<entries, image, journal, delivered>>
      /\ UNCHANGED senderState /\ UNCHANGED <<sync, challenges, telegrams, net>>
      /\ table' = [b \in (DOMAIN table \ {"sender"}) \cup {"sender"} |->
                      IF b = "sender" THEN n ELSE table[b]]
    BY DEF Link!Commission, Link!Receiving!WriteTable, Link!sending, senderState
<1>2. ~Lists(table) /\ ~Lists(image) /\ DOMAIN table = {}
    BY <1>1 DEF Link!Receiving!NoTable, Lists
<1>3. table' \in Link!Receiving!Table
    <2>1. table' = [b \in {"sender"} |-> n]
        BY <1>1, <1>2
    <2>2. n \in Link!Receiving!Sequence
        BY DEF Link!Receiving!Sequence
    <2>3. table' \in [{"sender"} -> Link!Receiving!Sequence]
        BY <2>1, <2>2
    <2> QED
        BY <2>3 DEF Link!Receiving!Table, Link!Sender
<1>4. ReceiverTypesNext
    BY <1>1, <1>3 DEF ReceiverTypesNext, LinkInv, LinkTypes
<1>5. ~IsCached /\ ~IsCached' /\ ~Lists(image')
    BY <1>1, <1>2 DEF LinkInv, ReceiverInv, IsCached, slot
<1>6. Recorded /\ DeliveredInOrder
    BY <1>1, <1>5 DEF Recorded, DeliveredInOrder, LinkInv, ReceiverInv, OrderInv, Sent
<1>7. SyncProgress /\ FloorsStay
    BY <1>1 DEF SyncProgress, FloorsStay, LinkInv, LinkTypes, Link!Device
<1> QED
    BY <1>1, <1>4, <1>6, <1>7, ReceiverSteps

LEMMA ReceiverSavesStep ==
    ASSUME LinkInv, Link!ReceiverSaves
    PROVE  LinkInv'
<1>1. /\ UNCHANGED <<entries, table, journal, delivered>> /\ image' = table
      /\ UNCHANGED senderState /\ UNCHANGED <<sync, challenges, telegrams, net>>
    BY DEF Link!ReceiverSaves, Link!Receiving!Save, Link!sending, senderState
<1>2. ReceiverTypesNext
    BY <1>1 DEF ReceiverTypesNext, LinkInv, LinkTypes
<1>3. IsCached' <=> IsCached
    BY <1>1 DEF IsCached, slot
<1>4. Recorded
    <2>1. Lists(table) => table["sender"] \in Nat
        BY TableTypes DEF LinkInv, LinkTypes
    <2> QED
        BY <1>1, <1>3, <2>1 DEF Recorded, LinkInv, ReceiverInv, slot
<1>5. DeliveredInOrder
    BY <1>1, <1>3 DEF DeliveredInOrder, LinkInv, OrderInv, Sent, slot
<1>6. SyncProgress
    BY <1>1 DEF SyncProgress, LinkInv, LinkTypes, Link!Device
<1>7. FloorsStay
    BY <1>1 DEF FloorsStay, Covers, Behind, counter, senderState
<1> QED
    BY <1>1, <1>2, <1>4, <1>5, <1>6, <1>7, ReceiverSteps

LEMMA EmptyTable ==
    /\ Link!Receiving!NoTable \in Link!Receiving!Table /\ ~Lists(Link!Receiving!NoTable)
    /\ Link!Receiving!EmptySlot \in Link!Receiving!ReplaySlot
<1>1. Link!Receiving!NoTable \in [{} -> Link!Receiving!Sequence] /\ {} \in SUBSET Link!Sender
    BY DEF Link!Receiving!NoTable
<1>2. Link!Receiving!NoTable \in Link!Receiving!Table
    BY <1>1 DEF Link!Receiving!Table
<1>3. 0 \in Link!Receiving!Sequence
    BY DEF Link!Receiving!Sequence
<1> QED
    BY <1>2, <1>3 DEF Link!Receiving!NoTable, Lists, Link!Receiving!EmptySlot, Link!Receiving!ReplaySlot

LEMMA ReceiverPowerCycleStep ==
    ASSUME LinkInv, Link!ReceiverPowerCycle
    PROVE  LinkInv'
<1>1. /\ entries' = [i \in Link!Receiving!Slot |-> Link!Receiving!EmptySlot]
      /\ table' \in {Link!Receiving!NoTable, image}
      /\ UNCHANGED <<image, journal, delivered>>
      /\ UNCHANGED senderState /\ UNCHANGED <<challenges, telegrams, net>>
      /\ sync' = [sync EXCEPT !["receiver"] = 0]
    BY DEF Link!ReceiverPowerCycle, Link!Receiving!PowerCycle, Link!sending, senderState
<1>2. /\ Link!Receiving!NoTable \in Link!Receiving!Table /\ ~Lists(Link!Receiving!NoTable)
      /\ Link!Receiving!EmptySlot \in Link!Receiving!ReplaySlot
    BY EmptyTable
<1>3. ReceiverTypesNext
    BY <1>1, <1>2 DEF ReceiverTypesNext, LinkInv, LinkTypes
<1>4. ~IsCached'
    BY <1>1, Peers DEF IsCached, slot, Link!Receiving!EmptySlot
<1>5. Recorded
    <2>1. Lists(image) => image["sender"] \in Nat
        BY TableTypes DEF LinkInv, LinkTypes
    <2> QED
        BY <1>1, <1>2, <1>4, <2>1 DEF Recorded, LinkInv, ReceiverInv
<1>6. DeliveredInOrder
    BY <1>1, <1>4 DEF DeliveredInOrder, LinkInv, OrderInv, Sent
<1>7. SyncProgress
    BY <1>1 DEF SyncProgress, LinkInv, LinkTypes, Link!Device
<1>8. FloorsStay
    BY <1>1, <1>2 DEF FloorsStay, Covers, Behind, counter, senderState
<1> QED
    BY <1>1, <1>3, <1>5, <1>6, <1>7, <1>8, ReceiverSteps

LEMMA ReceiveTelegramStep ==
    ASSUME LinkInv, NEW n \in 1 .. LinkSequence, Link!ReceiveTelegram(n)
    PROVE  LinkInv'
<1>1. /\ UNCHANGED senderState /\ UNCHANGED <<outgoing, journalHealthy>>
      /\ UNCHANGED <<sync, challenges, telegrams, net>>
    BY DEF Link!ReceiveTelegram, Link!sending, senderState
<1>2. Behind(n) /\ Sent(n)
    <2>1. FrameInv(Link!Telegram(n))
        BY DEF LinkInv, NetInv, Link!ReceiveTelegram
    <2> QED
        BY <2>1 DEF FrameInv, Link!Telegram, Sent
<1>3. ReceiverTypesNext /\ Recorded /\ DeliveredInOrder /\ FloorsStay
    <2>1. CASE Link!Receiving!ReceiveData(peer, n)
        <3>1. PICK write \in Link!Receiving!Write :
                /\ Link!Receiving!AcceptIncomingSequence(peer, n, write)
                /\ delivered' = IF write = "ok" THEN [delivered EXCEPT ![peer] = Append(@, n)] ELSE delivered
            BY <2>1 DEF Link!Receiving!ReceiveData
        <3>2. \/ UNCHANGED delivered
              \/ /\ write = "ok" /\ n \in 1 .. LinkSequence /\ Sent(n)
                 /\ delivered' = [delivered EXCEPT ![peer] = Append(@, n)]
            BY <1>2, <3>1
        <3> HIDE DEF LinkInv
        <3> QED
            BY <1>1, <1>2, <3>1, <3>2, TakenUp
    <2>2. CASE Link!Receiving!ReceiveUnauthenticated(peer)
        BY <1>1, <2>2, LookedUp DEF Link!Receiving!ReceiveUnauthenticated
    <2> QED
        BY <2>1, <2>2 DEF Link!ReceiveTelegram, Link!peer, peer
<1>4. SyncProgress
    BY <1>1 DEF SyncProgress, LinkInv, LinkTypes, Link!Device
<1> QED
    BY <1>1, <1>3, <1>4, ReceiverSteps

\* What the receiver answers is above all that it rejects, now and in the saved table.
LEMMA ReceiverAnswersSyncStep ==
    ASSUME LinkInv, NEW f0 \in net, Link!ReceiverAnswersSync(f0)
    PROVE  LinkInv'
<1> DEFINE last == Link!Receiving!LastValid(peer)
           reply == Link!Response("sender", f0.challenge, Link!Answered(f0))
<1>1. /\ UNCHANGED senderState /\ UNCHANGED <<outgoing, journalHealthy>>
      /\ UNCHANGED <<sync, challenges, telegrams>> /\ UNCHANGED delivered
      /\ f0.kind = "request" /\ f0.to = "receiver"
      /\ net' \ net \subseteq {reply}
      /\ Lists(table)
    <2>1. Link!Receiving!Known(peer) <=> Lists(table)
        BY ReceiverTerms DEF LinkInv
    <2> QED
        BY <2>1 DEF Link!ReceiverAnswersSync, Link!sending, senderState, Link!peer, peer
<1>2. f0.number \in Nat /\ f0.number >= 1 /\ Behind(f0.number) /\ f0.challenge \in 1 .. challenges["sender"]
    BY <1>1 DEF LinkInv, NetInv, FrameInv, Behind
<1>3. /\ Number \in Nat /\ FloorOf \in Nat /\ FloorOf = table["sender"]
      /\ last = IF Number > FloorOf THEN Number ELSE FloorOf
    BY <1>1, ReceiverTerms DEF LinkInv, FloorOf
<1>4. Link!Answered(f0) = IF f0.number > last + 1 THEN f0.number ELSE last + 1
    BY DEF Link!Answered, Link!peer, peer
<1> HIDE DEF last
<1>5. Link!Answered(f0) \in Nat /\ FloorOf < Link!Answered(f0)
    BY <1>2, <1>3, <1>4
<1>6. Behind(f0.number - 1)
    <2>1. f0.number - 1 \in Nat /\ f0.number - 1 <= f0.number
        BY <1>2
    <2> QED
        BY <1>2, <2>1, SmallerBehind DEF LinkInv
<1>7. ASSUME entries' = Link!Receiving!Queried(peer), UNCHANGED <<table, image, journal>>
      PROVE  /\ ReceiverTypesNext /\ Recorded /\ DeliveredInOrder /\ FloorsStay
             /\ Lists(table') /\ UNCHANGED image /\ table'["sender"] = FloorOf
    <2>1. ReceiverTypesNext /\ Recorded /\ DeliveredInOrder /\ FloorsStay
        BY <1>1, <1>7, LookedUp
    <2>2. Lists(table') /\ UNCHANGED image /\ table'["sender"] = FloorOf
        BY <1>1, <1>3, <1>7
    <2> QED
        BY <2>1, <2>2
<1>8. ASSUME NEW write \in Link!Receiving!Write, f0.number > last + 1,
             Link!Receiving!AcceptIncomingSequence(peer, f0.number - 1, write)
      PROVE  /\ ReceiverTypesNext /\ Recorded /\ DeliveredInOrder /\ FloorsStay
             /\ Lists(table') /\ UNCHANGED image
             /\ table'["sender"] = IF write = "ok" THEN f0.number - 1 ELSE FloorOf
    <2> DEFINE n == f0.number - 1
    <2>1. Behind(n) /\ Link!Receiving!AcceptIncomingSequence(peer, n, write)
        BY <1>6, <1>8
    <2> HIDE DEF n
    <2>2. ReceiverTypesNext /\ Recorded /\ DeliveredInOrder /\ FloorsStay
        BY <1>1, <2>1, TakenUp
    <2>3. /\ Lists(table') /\ UNCHANGED image
          /\ table'["sender"] = IF write = "ok" THEN n ELSE table["sender"]
        BY <2>1, AcceptTerms DEF LinkInv
    <2> QED
        BY <1>3, <2>2, <2>3 DEF n
<1>9. /\ ReceiverTypesNext /\ Recorded /\ DeliveredInOrder /\ FloorsStay
      /\ Lists(table') /\ UNCHANGED image /\ table'["sender"] < Link!Answered(f0)
    <2>1. CASE f0.number <= last + 1 /\ entries' = Link!Receiving!Queried(peer)
               /\ UNCHANGED <<table, image, journal>>
        BY <1>5, <1>7, <2>1
    <2>2. CASE /\ f0.number > last + 1
               /\ \E write \in Link!Receiving!Write :
                    Link!Receiving!AcceptIncomingSequence(peer, f0.number - 1, write)
        <3>1. PICK write \in Link!Receiving!Write :
                Link!Receiving!AcceptIncomingSequence(peer, f0.number - 1, write)
            BY <2>2
        <3>2. f0.number - 1 < Link!Answered(f0)
            BY <1>2, <1>4, <2>2
        <3> QED
            BY <1>5, <1>8, <2>2, <3>1, <3>2
    <2> QED
        BY <2>1, <2>2 DEF Link!ReceiverAnswersSync, Link!peer, peer, last
<1>10. ASSUME NEW f \in net' \ net
       PROVE  FrameInv(f) /\ Covers(f.number, table') /\ Covers(f.number, image')
    <2>1. /\ f.kind = "response" /\ f.to = "sender" /\ f.challenge = f0.challenge
          /\ f.number = Link!Answered(f0)
        BY <1>1, <1>10 DEF Link!Response
    <2>2. FrameInv(f)
        BY <1>2, <1>5, <2>1 DEF FrameInv
    <2>3. Covers(f.number, table')
        BY <1>9, <2>1 DEF Covers
    <2>4. Covers(f.number, image')
        <3>1. Lists(image) => image["sender"] \in Nat /\ image["sender"] <= FloorOf
            BY <1>1, <1>3, TableTypes DEF LinkInv, LinkTypes, ReceiverInv
        <3>2. Lists(image) => image["sender"] < f.number
            BY <1>3, <1>5, <2>1, <3>1
        <3> QED
            BY <1>9, <3>2 DEF Covers
    <2> QED
        BY <2>2, <2>3, <2>4
<1>11. SyncProgress
    BY <1>1 DEF SyncProgress, LinkInv, LinkTypes, Link!Device
<1> HIDE DEF LinkInv
<1> QED
    BY <1>1, <1>9, <1>10, <1>11, ReceiverSteps

LEMMA ReceiverSynchronisedStep ==
    ASSUME LinkInv, NEW f0 \in net, Link!ReceiverSynchronised(f0)
    PROVE  LinkInv'
<1> DEFINE n == Link!ReceiverTakes(f0)
<1>1. /\ UNCHANGED senderState /\ UNCHANGED <<outgoing, journalHealthy>>
      /\ UNCHANGED <<challenges, telegrams, net>> /\ UNCHANGED delivered
      /\ f0.kind = "response" /\ f0.to = "receiver"
      /\ sync' = sync \/ sync' = [sync EXCEPT !["receiver"] = 0]
    BY DEF Link!ReceiverSynchronised, Link!IsAwaited, Link!sending, senderState
<1>2. Behind(n)
    BY <1>1 DEF LinkInv, NetInv, FrameInv, Link!ReceiverTakes
<1>3. ReceiverTypesNext /\ Recorded /\ DeliveredInOrder /\ FloorsStay
    <2>1. CASE \E write \in Link!Receiving!Write : Link!Receiving!AcceptIncomingSequence(peer, n, write)
        <3>1. PICK write \in Link!Receiving!Write : Link!Receiving!AcceptIncomingSequence(peer, n, write)
            BY <2>1
        <3> HIDE DEF n, LinkInv
        <3> QED
            BY <1>1, <1>2, <3>1, TakenUp
    <2>2. CASE entries' = Link!Receiving!Queried(peer) /\ UNCHANGED <<table, image, journal>>
        BY <1>1, <2>2, LookedUp
    <2> QED
        BY <2>1, <2>2 DEF Link!ReceiverSynchronised, Link!peer, peer
<1>4. SyncProgress
    BY <1>1 DEF SyncProgress, LinkInv, LinkTypes, Link!Device
<1> HIDE DEF LinkInv
<1> QED
    BY <1>1, <1>3, <1>4, ReceiverSteps

-----------------------------------------------------------------------------
(* The invariant *)

LEMMA LinkStarts == Link!Init => LinkInv
<1> SUFFICES ASSUME Link!Init PROVE LinkInv
    OBVIOUS
<1>1. /\ entries = [i \in Link!Receiving!Slot |-> Link!Receiving!EmptySlot]
      /\ table = Link!Receiving!NoTable /\ image = Link!Receiving!NoTable
      /\ journal = [p \in Link!Receiving!Peer |-> 0]
      /\ delivered = [p \in Link!Receiving!Peer |-> <<>>]
      /\ sync = [d \in Link!Device |-> 0] /\ challenges = [d \in Link!Device |-> 0]
      /\ telegrams = <<>> /\ net = {}
    BY DEF Link!Init, Link!Receiving!Init
<1>2. OneCounter /\ CounterInv(counter) /\ journalHealthy \in BOOLEAN /\ counter.journal \in Nat
      /\ (journalHealthy => 0 < counter.next)
    <2> DEFINE s == [next |-> 1, reserved |-> 0, property |-> 1, journal |-> 0, image |-> 0,
                     sent |-> <<>>, advertised |-> 0]
    <2>1. journalHealthy = TRUE /\ outgoing = [acc \in {FALSE} |-> s]
        BY DEF Link!Init, Link!Sending!Init, Link!DataAccess
    <2>2. s \in Link!Sending!Counter
        BY DEF Link!Sending!Counter, Link!Sending!Sequence
    <2>3. counter = s
        BY <2>1 DEF counter
    <2> HIDE DEF s
    <2>4. OneCounter /\ counter \in Link!Sending!Counter
        BY <2>1, <2>2, <2>3 DEF OneCounter
    <2> USE DEF s
    <2>5. /\ counter.next = 1 /\ counter.reserved = 0 /\ counter.property = 1
          /\ counter.journal = 0 /\ counter.image = 0
        BY <2>3
    <2> HIDE DEF s
    <2> QED
        BY <2>1, <2>4, <2>5 DEF CounterInv
<1>3. /\ table \in Link!Receiving!Table /\ ~Lists(table)
      /\ Link!Receiving!EmptySlot \in Link!Receiving!ReplaySlot
    BY <1>1, EmptyTable
<1>4. ~IsCached
    BY <1>1, Peers DEF IsCached, slot, Link!Receiving!EmptySlot
<1>5. LinkTypes
    <2>1. sync["sender"] = 0 /\ challenges["sender"] = 0
        BY <1>1 DEF Link!Device
    <2>2. /\ sync \in [Link!Device -> Nat] /\ challenges \in [Link!Device -> Nat]
          /\ entries \in [Link!Receiving!Slot -> Link!Receiving!ReplaySlot]
          /\ journal \in [{peer} -> Nat]
          /\ delivered \in [{peer} -> Seq(1 .. LinkSequence)]
          /\ telegrams \in Seq(1 .. LinkSequence)
        BY <1>1, <1>3, Peers
    <2> QED
        BY <1>1, <1>2, <1>3, <2>1, <2>2 DEF LinkTypes
<1>6. journal[peer] = 0 /\ delivered[peer] = <<>> /\ Behind(0)
    BY <1>1, <1>2, Peers, CounterTypes DEF Behind, CounterInv
<1>7. ReceiverInv
    BY <1>1, <1>3, <1>4, <1>6 DEF ReceiverInv
<1>8. NetInv /\ OrderInv
    BY <1>1, <1>6 DEF NetInv, OrderInv
<1> QED
    BY <1>5, <1>7, <1>8 DEF LinkInv

LEMMA LinkStep == LinkInv /\ [Link!Next]_(Link!vars) => LinkInv'
<1> SUFFICES ASSUME LinkInv, [Link!Next]_(Link!vars) PROVE LinkInv'
    OBVIOUS
<1> HIDE DEF LinkInv
<1>1. CASE UNCHANGED Link!vars
    <2>1. /\ UNCHANGED receiverState /\ UNCHANGED senderState
          /\ UNCHANGED <<sync, challenges, telegrams, net>>
        BY <1>1 DEF Link!vars, Link!receiving, Link!sending, receiverState, senderState
    <2>2. SyncProgress
        BY <2>1 DEF SyncProgress, LinkInv, LinkTypes, Link!Device
    <2>3. SenderProgress /\ OneCounter'
        BY <2>1 DEF SenderProgress, LinkInv, LinkTypes, CounterInv, OneCounter, senderState, counter
    <2> QED
        BY <2>1, <2>2, <2>3, SilentSenderStep
<1>2. CASE Link!SendTelegram
    BY <1>2, SendTelegramStep
<1>3. CASE Link!SenderStartsSync
    BY <1>3, SenderStartsSyncStep
<1>4. CASE Link!ReceiverStartsSync
    BY <1>4, ReceiverStartsSyncStep
<1>5. ASSUME NEW n \in 1 .. LinkSequence, Link!ReceiveTelegram(n) \/ Link!Commission(n)
      PROVE  LinkInv'
    BY <1>5, ReceiveTelegramStep, CommissionStep
<1>6. ASSUME NEW f \in net,
             \/ Link!ReceiverAnswersSync(f) \/ Link!SenderAnswersSync(f)
             \/ Link!SenderSynchronised(f) \/ Link!ReceiverSynchronised(f)
      PROVE  LinkInv'
    BY <1>6, ReceiverAnswersSyncStep, SenderAnswersSyncStep, SenderSynchronisedStep,
       ReceiverSynchronisedStep
<1>7. ASSUME NEW d \in Link!Device, Link!SyncExpires(d)
      PROVE  LinkInv'
    BY <1>7, SyncExpiresStep
<1>8. CASE Link!ReceiverSaves
    BY <1>8, ReceiverSavesStep
<1>9. CASE Link!SenderPowerCycle
    BY <1>9, SenderPowerCycleStep
<1>10. CASE Link!ReceiverPowerCycle
    BY <1>10, ReceiverPowerCycleStep
<1> QED
    BY <1>1, <1>2, <1>3, <1>4, <1>5, <1>6, <1>7, <1>8, <1>9, <1>10 DEF Link!Next

LEMMA LinkInvariant == Link!Spec => []LinkInv
BY LinkStarts, LinkStep, PTL DEF Link!Spec

-----------------------------------------------------------------------------
(* Nothing locks the sender out *)

\* The receiver never takes a number for used that the sender will use, for any last number
\* and reservation and however often the two synchronise.
THEOREM SenderNeverLockedOut == Link!Spec => []NotLockedOut
<1>1. LinkInv => NotLockedOut
    <2> SUFFICES ASSUME LinkInv PROVE NotLockedOut
        OBVIOUS
    <2>1. Link!Receiving!Recorded(peer) = Number
        BY ReceiverTerms DEF LinkInv
    <2>2. Behind(Number)
        BY DEF LinkInv, ReceiverInv, Number
    <2> QED
        BY <2>1, <2>2 DEF NotLockedOut, Link!NotLockedOut, Link!peer, peer, Link!counter, counter, Behind
<1> QED
    BY <1>1, LinkInvariant, PTL

\* A synchronisation that the sender completes puts it above all that the receiver rejects.
THEOREM SynchronisationHeals == Link!Spec => SyncHeals
<1>1. ASSUME LinkInv, LinkInv', NEW f \in net, Link!SenderSynchronised(f),
             sync["sender"] # 0, sync'["sender"] = 0
      PROVE  counter'.next > Link!Receiving!LastValid(peer)
    <2>1. /\ f.kind = "response" /\ f.to = "sender" /\ f.challenge = sync["sender"]
          /\ sync' = IF counter'.next >= f.number THEN [sync EXCEPT !["sender"] = 0] ELSE sync
          /\ UNCHANGED receiverState
        BY <1>1 DEF Link!SenderSynchronised, Link!IsAwaited, Link!receiving, receiverState,
                    Link!counter, counter
    <2>2. counter'.next >= f.number /\ f.number \in Nat
        BY <1>1, <2>1 DEF LinkInv, NetInv, FrameInv
    <2>3. /\ counter.next <= counter'.next /\ counter.next \in Nat /\ counter'.next \in Nat
          /\ journalHealthy
        <3>1. counter.next <= counter'.next /\ journalHealthy
            BY <1>1, EnsureMovesForward DEF LinkInv, LinkTypes, Link!SenderSynchronised
        <3>2. counter \in Link!Sending!Counter /\ counter' \in Link!Sending!Counter
            BY <1>1 DEF LinkInv, LinkTypes, CounterInv
        <3> QED
            BY <3>1, <3>2, CounterTypes
    <2>4. Covers(f.number, table)
        BY <1>1, <2>1 DEF LinkInv, NetInv, Awaited
    <2>5. /\ Number \in Nat /\ FloorOf \in Nat
          /\ Link!Receiving!LastValid(peer) = IF Number > FloorOf THEN Number ELSE FloorOf
        BY <1>1, ReceiverTerms DEF LinkInv
    <2>6. Number < counter'.next
        <3>1. Number < counter.next
            BY <1>1, <2>3 DEF LinkInv, ReceiverInv, Number, Behind
        <3> QED
            BY <2>3, <2>5, <3>1
    <2>7. FloorOf < counter'.next
        <3>1. CASE ~Lists(table)
            <4>1. FloorOf = 0 /\ 0 <= Number
                BY <2>5, <3>1 DEF FloorOf
            <4> QED
                BY <2>3, <2>5, <2>6, <4>1
        <3>2. CASE Lists(table) /\ table["sender"] < f.number
            <4>1. FloorOf < f.number
                BY <3>2 DEF FloorOf
            <4> QED
                BY <2>2, <2>3, <2>5, <4>1
        <3>3. CASE Lists(table) /\ Behind(table["sender"])
            <4>1. FloorOf < counter.next
                BY <2>3, <3>3 DEF FloorOf, Behind
            <4> QED
                BY <2>3, <2>5, <4>1
        <3> QED
            BY <2>4, <3>1, <3>2, <3>3 DEF Covers
    <2> QED
        BY <2>5, <2>6, <2>7
<1> DEFINE Heals == sync["sender"] # 0 /\ sync'["sender"] = 0
                        /\ (\E f \in net : Link!SenderSynchronised(f)) =>
                    Link!counter'.next > Link!Receiving!LastValid(Link!peer)
<1>2. LinkInv /\ LinkInv' => Heals
    BY <1>1 DEF Link!counter, counter, Link!peer, peer
<1>3. SyncHeals <=> [][Heals]_(Link!vars)
    BY DEF SyncHeals, Link!SyncHeals
<1> HIDE DEF Heals
<1> QED
    BY <1>2, <1>3, LinkInvariant, PTL

-----------------------------------------------------------------------------
(* Telegrams are delivered once and in order *)

LEMMA LinkCardinality == \A S : Link!Cardinality(S) = Cardinality(S)
BY DEF Link!Cardinality, Cardinality

\* Numbers increase, and so the position of a number is the index of its telegram.
Positions ==
    /\ \A k \in 1 .. Len(telegrams) : Link!Position(telegrams[k]) = k
    /\ \A i \in 1 .. Len(delivered[peer]) :
          \E k \in 1 .. Len(telegrams) : telegrams[k] = delivered[peer][i]
    /\ \A i, j \in 1 .. Len(telegrams) : telegrams[i] < telegrams[j] => i < j
    /\ telegrams \in Seq(1 .. LinkSequence) /\ delivered \in [{peer} -> Seq(1 .. LinkSequence)]
    /\ \A i, j \in 1 .. Len(delivered[peer]) : i < j => delivered[peer][i] < delivered[peer][j]

LEMMA PositionsHold == LinkInv => Positions
<1> SUFFICES ASSUME LinkInv PROVE Positions
    OBVIOUS
<1>1. /\ telegrams \in Seq(1 .. LinkSequence)
      /\ \A i, j \in 1 .. Len(telegrams) : i < j => telegrams[i] < telegrams[j]
    BY DEF LinkInv, LinkTypes, OrderInv
<1>2. ASSUME NEW k \in 1 .. Len(telegrams) PROVE Link!Position(telegrams[k]) = k
    <2>1. \A i \in 1 .. Len(telegrams) : telegrams[i] \in Nat /\ Len(telegrams) \in Nat
        BY <1>1
    <2>2. \A i \in 1 .. Len(telegrams) : telegrams[i] <= telegrams[k] <=> i <= k
        <3> TAKE i \in 1 .. Len(telegrams)
        <3>1. i < k \/ i = k \/ k < i
            BY <2>1
        <3> QED
            BY <1>1, <2>1, <3>1
    <2>3. {i \in 1 .. Len(telegrams) : telegrams[i] <= telegrams[k]} = 1 .. k
        BY <2>1, <2>2
    <2>4. Cardinality(1 .. k) = k
        <3>1. k \in Nat /\ 1 \in Int /\ k \in Int /\ k >= 1
            BY <2>1
        <3>2. Cardinality(1 .. k) = IF 1 > k THEN 0 ELSE k - 1 + 1
            BY <3>1, FS_Interval
        <3> QED
            BY <3>1, <3>2
    <2> QED
        BY <2>3, <2>4, LinkCardinality DEF Link!Position
<1>3. \A i, j \in 1 .. Len(telegrams) : telegrams[i] < telegrams[j] => i < j
    <2> TAKE i, j \in 1 .. Len(telegrams)
    <2>1. telegrams[i] \in Nat /\ telegrams[j] \in Nat /\ Len(telegrams) \in Nat
        BY <1>1
    <2>2. i < j \/ i = j \/ j < i
        BY <2>1
    <2> QED
        BY <1>1, <2>1, <2>2
<1> QED
    BY <1>1, <1>2, <1>3 DEF Positions, LinkInv, LinkTypes, OrderInv

\* What a step does to the telegrams and to what is delivered
LEMMA TelegramSteps ==
    ASSUME LinkInv, [Link!Next]_(Link!vars)
    PROVE  \/ UNCHANGED <<telegrams, delivered>>
           \/ UNCHANGED delivered /\ \E c : telegrams' = Append(telegrams, c)
           \/ /\ UNCHANGED telegrams
              /\ \E n : delivered' = [delivered EXCEPT ![peer] = Append(@, n)]
<1>1. CASE UNCHANGED Link!vars
    BY <1>1 DEF Link!vars, Link!receiving
<1>2. CASE Link!SendTelegram
    BY <1>2 DEF Link!SendTelegram, Link!receiving
<1>3. CASE Link!SenderStartsSync
    BY <1>3 DEF Link!SenderStartsSync, Link!receiving
<1>4. CASE Link!ReceiverStartsSync
    BY <1>4 DEF Link!ReceiverStartsSync, Link!receiving
<1>5. ASSUME NEW n, Link!ReceiveTelegram(n)
      PROVE  /\ UNCHANGED telegrams
             /\ \/ UNCHANGED delivered
                \/ delivered' = [delivered EXCEPT ![peer] = Append(@, n)]
    BY <1>5 DEF Link!ReceiveTelegram, Link!Receiving!ReceiveData, Link!Receiving!ReceiveUnauthenticated,
                Link!peer, peer
<1>6. ASSUME NEW n, Link!Commission(n) PROVE UNCHANGED <<telegrams, delivered>>
    BY <1>6 DEF Link!Commission, Link!Receiving!WriteTable
<1>7. ASSUME NEW f,
             \/ Link!ReceiverAnswersSync(f) \/ Link!SenderAnswersSync(f)
             \/ Link!SenderSynchronised(f) \/ Link!ReceiverSynchronised(f)
      PROVE  UNCHANGED <<telegrams, delivered>>
    BY <1>7 DEF Link!ReceiverAnswersSync, Link!SenderAnswersSync, Link!SenderSynchronised,
                Link!ReceiverSynchronised, Link!receiving
<1>8. ASSUME NEW d, Link!SyncExpires(d) PROVE UNCHANGED <<telegrams, delivered>>
    BY <1>8 DEF Link!SyncExpires, Link!receiving
<1>9. CASE Link!ReceiverSaves \/ Link!SenderPowerCycle \/ Link!ReceiverPowerCycle
    BY <1>9 DEF Link!ReceiverSaves, Link!SenderPowerCycle, Link!ReceiverPowerCycle, Link!receiving,
                Link!Receiving!Save, Link!Receiving!PowerCycle
<1> QED
    BY <1>1, <1>2, <1>3, <1>4, <1>5, <1>6, <1>7, <1>8, <1>9 DEF Link!Next

\* A sequence and the same with one more element, as functions
LEMMA Extended ==
    ASSUME NEW m \in Nat, NEW f \in [1 .. m -> Nat], NEW g \in [1 .. m + 1 -> Nat],
           \A i \in 1 .. m : g[i] = f[i]
    PROVE  f \in Seq(Nat) /\ Len(f) = m /\ g = Append(f, g[m + 1]) /\ (f = <<>> <=> m = 0)
<1>1. f \in Seq(Nat) /\ Len(f) = m
    OBVIOUS
<1>2. Append(f, g[m + 1]) \in [1 .. m + 1 -> Nat]
    <2>1. g[m + 1] \in Nat
        OBVIOUS
    <2> DEFINE h == Append(f, g[m + 1])
    <2>2. h \in Seq(Nat) /\ Len(h) = m + 1
        BY <1>1, <2>1
    <2> HIDE DEF h
    <2>3. h \in [1 .. Len(h) -> Nat]
        BY <2>2
    <2> QED
        BY <2>2, <2>3 DEF h
<1>3. \A i \in 1 .. m + 1 : g[i] = Append(f, g[m + 1])[i]
    BY <1>1
<1>4. g = Append(f, g[m + 1])
    BY <1>2, <1>3
<1>5. f = <<>> <=> m = 0
    BY <1>1
<1> QED
    BY <1>1, <1>4, <1>5

\* The receiver's application gets each telegram of the sender at most once and in the order
\* of sending, whatever the network and the power do: the detailed link implements the
\* abstract delivery, one step or a stutter for each of its steps.
THEOREM LinkDeliversInOrder == Link!Spec => ImplementsOrderedDelivery
<1> DEFINE got == [i \in 1 .. Len(delivered[peer]) |-> Link!Position(delivered[peer][i])]
           sentOf == [m \in {"sender"} |-> Len(telegrams)]
           gotOf == [n \in {"receiver"} |-> [m \in {"sender"} |-> got]]
<1>1. Link!Init => Link!Ordered!Init
    <2> SUFFICES ASSUME Link!Init PROVE Link!Ordered!Init
        OBVIOUS
    <2>1. telegrams = <<>> /\ delivered[peer] = <<>>
        BY Peers DEF Link!Init, Link!Receiving!Init
    <2>2. got = <<>> /\ Len(telegrams) = 0
        BY <2>1
    <2> HIDE DEF got
    <2>3. sentOf = [m \in {"sender"} |-> 0]
          /\ gotOf = [n \in {"receiver"} |-> [m \in {"sender"} |-> <<>>]]
        BY <2>2
    <2> QED
        BY <2>3 DEF Link!Ordered!Init, got, Link!peer, peer
<1>2. LinkInv' => Positions'
    BY PositionsHold, PTL
<1>3. ASSUME LinkInv, LinkInv', [Link!Next]_(Link!vars)
      PROVE  [Link!Ordered!Next]_<<sentOf, gotOf>>
    <2>1. Positions /\ Positions'
        BY <1>2, <1>3, PositionsHold
    <2>2. /\ telegrams \in Seq(1 .. LinkSequence) /\ delivered[peer] \in Seq(1 .. LinkSequence)
          /\ telegrams' \in Seq(1 .. LinkSequence) /\ delivered'[peer] \in Seq(1 .. LinkSequence)
          /\ delivered \in [{peer} -> Seq(1 .. LinkSequence)]
        BY <2>1 DEF Positions
    <2>3. \A i \in 1 .. Len(delivered[peer]) : \E k \in 1 .. Len(telegrams) :
              telegrams[k] = delivered[peer][i] /\ got[i] = k
        BY <2>1 DEF Positions
    <2>4. \A i \in 1 .. Len(delivered'[peer]) : \E k \in 1 .. Len(telegrams') :
              telegrams'[k] = delivered'[peer][i] /\ got'[i] = k
        BY <2>1 DEF Positions
    <2>9. /\ got \in [1 .. Len(delivered[peer]) -> Nat] /\ got' \in [1 .. Len(delivered'[peer]) -> Nat]
          /\ Len(delivered[peer]) \in Nat /\ Len(telegrams) \in Nat /\ Len(telegrams') \in Nat
        <3>1. Len(delivered[peer]) \in Nat /\ Len(telegrams) \in Nat /\ Len(telegrams') \in Nat
            BY <2>2
        <3>2. /\ got = [i \in 1 .. Len(delivered[peer]) |-> got[i]]
              /\ got' = [i \in 1 .. Len(delivered'[peer]) |-> got'[i]]
            OBVIOUS
        <3> HIDE DEF got
        <3>3. /\ \A i \in 1 .. Len(delivered[peer]) : got[i] \in Nat
              /\ \A i \in 1 .. Len(delivered'[peer]) : got'[i] \in Nat
            BY <2>3, <2>4, <3>1
        <3> QED
            BY <3>1, <3>2, <3>3
    <2> HIDE DEF got
    <2>10. ASSUME Len(telegrams) <= Len(telegrams'),
                  \A k \in 1 .. Len(telegrams) : telegrams'[k] = telegrams[k],
                  NEW i \in 1 .. Len(delivered[peer]), i \in 1 .. Len(delivered'[peer]),
                  delivered'[peer][i] = delivered[peer][i]
           PROVE  got'[i] = got[i]
        <3>1. PICK k \in 1 .. Len(telegrams) : telegrams[k] = delivered[peer][i] /\ got[i] = k
            BY <2>3, <2>10
        <3>2. PICK m \in 1 .. Len(telegrams') : telegrams'[m] = delivered'[peer][i] /\ got'[i] = m
            BY <2>4, <2>10
        <3>3. k \in 1 .. Len(telegrams') /\ telegrams'[k] = telegrams'[m]
            BY <2>9, <2>10, <3>1, <3>2
        <3>4. k = m
            BY <2>1, <3>2, <3>3 DEF Positions
        <3> QED
            BY <3>1, <3>2, <3>4
    <2>5. CASE UNCHANGED <<telegrams, delivered>>
        <3>1. \A i \in 1 .. Len(delivered[peer]) : got'[i] = got[i]
            BY <2>5, <2>9, <2>10
        <3>2. got' = got
            BY <2>5, <2>9, <3>1
        <3> QED
            BY <2>5, <3>2
    <2>6. ASSUME UNCHANGED delivered, NEW c, telegrams' = Append(telegrams, c)
          PROVE  Link!Ordered!Send("sender")
        <3>1. /\ Len(telegrams') = Len(telegrams) + 1 /\ Len(telegrams) \in Nat
              /\ \A k \in 1 .. Len(telegrams) : telegrams'[k] = telegrams[k]
            BY <2>2, <2>6
        <3>2. got' = got
            <4>1. \A i \in 1 .. Len(delivered[peer]) : got'[i] = got[i]
                BY <2>6, <2>9, <2>10, <3>1
            <4> QED
                BY <2>6, <2>9, <4>1
        <3>3. sentOf' = [sentOf EXCEPT !["sender"] = @ + 1] /\ gotOf' = gotOf
            BY <3>1, <3>2
        <3> QED
            BY <3>3 DEF Link!Ordered!Send, got, Link!peer, peer
    <2>7. ASSUME UNCHANGED telegrams, NEW n, delivered' = [delivered EXCEPT ![peer] = Append(@, n)]
          PROVE  Link!Ordered!Indicate("sender", "receiver")
        <3> DEFINE q == delivered[peer]
        <3>1. delivered'[peer] = Append(q, n)
            BY <2>2, <2>7
        <3>2. /\ Len(delivered'[peer]) = Len(q) + 1 /\ delivered'[peer][Len(q) + 1] = n /\ Len(q) \in Nat
              /\ \A i \in 1 .. Len(q) : delivered'[peer][i] = q[i]
            BY <2>2, <3>1
        <3>3. PICK id \in 1 .. Len(telegrams') : telegrams'[id] = n /\ got'[Len(q) + 1] = id
            <4>1. Len(q) + 1 \in 1 .. Len(delivered'[peer])
                BY <3>2
            <4> QED
                BY <2>4, <3>2, <4>1
        <3>4. \A i \in 1 .. Len(q) : got'[i] = got[i]
            BY <2>7, <2>9, <2>10, <3>2
        <3>7. /\ got \in Seq(Nat) /\ Len(got) = Len(q) /\ got' = Append(got, id)
              /\ got = <<>> <=> Len(q) = 0
            <4>1. got \in [1 .. Len(q) -> Nat] /\ got' \in [1 .. Len(q) + 1 -> Nat] /\ Len(q) \in Nat
                BY <2>9, <3>2
            <4> HIDE DEF q
            <4> QED
                BY <3>3, <3>4, <4>1, Extended
        <3>8. ASSUME q # <<>> PROVE got[Len(q)] < id
            <4>1. Len(q) \in 1 .. Len(q)
                BY <2>2, <3>2, <3>8
            <4>2. PICK k \in 1 .. Len(telegrams) : telegrams[k] = q[Len(q)] /\ got[Len(q)] = k
                BY <2>3, <4>1
            <4>3. delivered'[peer][Len(q)] < n
                BY <2>1, <3>2, <4>1 DEF Positions
            <4>4. telegrams'[k] < telegrams'[id] /\ k \in 1 .. Len(telegrams')
                BY <2>7, <3>2, <3>3, <4>1, <4>2, <4>3
            <4>5. k < id
                BY <2>1, <3>3, <4>4 DEF Positions
            <4> QED
                BY <4>2, <4>5
        <3>9. id \in Link!Ordered!Last(got) + 1 .. Len(telegrams)
            <4>1. got = <<>> <=> q = <<>>
                BY <2>2, <3>7
            <4>2. id \in Nat /\ id >= 1 /\ id <= Len(telegrams) /\ Len(telegrams) \in Nat
                BY <2>7, <2>9, <3>3
            <4>3. q # <<>> => got[Len(q)] \in Nat
                <5>1. q # <<>> => Len(q) \in 1 .. Len(q)
                    BY <2>2
                <5> QED
                    BY <2>9, <5>1
            <4>4. Link!Ordered!Last(got) = IF got = <<>> THEN 0 ELSE got[Len(q)]
                BY <3>7 DEF Link!Ordered!Last
            <4> QED
                BY <3>8, <4>1, <4>2, <4>3, <4>4
        <3>10. /\ gotOf' = [gotOf EXCEPT !["receiver"]["sender"] = Append(@, id)]
               /\ sentOf' = sentOf
               /\ gotOf["receiver"]["sender"] = got /\ sentOf["sender"] = Len(telegrams)
            BY <2>7, <3>7
        <3> QED
            BY <3>9, <3>10 DEF Link!Ordered!Indicate, got, Link!peer, peer
    <2>8. "sender" \in {"sender"} /\ "receiver" \in {"receiver"}
        OBVIOUS
    <2> QED
        BY <1>3, <2>5, <2>6, <2>7, <2>8, TelegramSteps DEF Link!Ordered!Next
<1>4. ImplementsOrderedDelivery <=> Link!Ordered!Init /\ [][Link!Ordered!Next]_<<sentOf, gotOf>>
    BY DEF ImplementsOrderedDelivery, Link!ImplementsOrderedDelivery, Link!Ordered!Spec, Link!peer, peer
<1> HIDE DEF got, sentOf, gotOf
<1> QED
    BY <1>1, <1>3, <1>4, LinkInvariant, PTL DEF Link!Spec

-----------------------------------------------------------------------------
(* Secure routing: the nonces *)

Configuration == [key : Key, group : Group]
Reservations  == [key : Key \cup {"none"}, group : Group \cup {"none"}, limit : Nat]
Frame == [key : Key, group : Group, timer : Nat, serial : Node, tag : Nat, id : Nat]

\* The operators of Routing that say no more than their name
USE DEF Routing!Configured, Routing!IsReserved, Routing!IsSameKey, Routing!StartTimer

RoutingTypes ==
    /\ config \in [Node -> Configuration]
    /\ inForce \in [Node -> Configuration \cup {Routing!Unconfigured}]
    /\ record \in [Node -> Reservations]
    /\ marker \in [Node -> [Key -> {"none", "pending", "used"}]]
    /\ timer \in [Node -> Nat] /\ reserved \in [Node -> Nat]
    /\ nextTag \in [Node -> [timer : Nat, tag : Nat]]
    /\ frames \subseteq Frame /\ IsFiniteSet(frames)
    /\ notification.timer \in Nat

Own(n) == {f \in frames : f.serial = n}

\* What n sent under a key lies below the limit that is durable for that key; of the keys
\* before that one, the marker tells that they were used.
SentIsCovered(n) ==
    \A f \in Own(n) :
        /\ marker[n][f.key] = "used"
        /\ record[n].key = f.key => f.timer < record[n].limit

\* A node that may send has its timer within the durable reservation.
TimerIsReserved(n) ==
    Routing!Configured(n) =>
        /\ record[n].key = inForce[n].key /\ record[n].limit = reserved[n]
        /\ marker[n][inForce[n].key] = "used"
        /\ timer[n] < reserved[n]

\* What it sent under its key is behind its timer, or behind the next tag of this tick.
SentIsBehind(n) ==
    Routing!Configured(n) =>
        \A f \in Own(n) : f.key = inForce[n].key =>
            /\ f.timer <= timer[n]
            /\ f.timer = timer[n] => nextTag[n].timer = timer[n] /\ f.tag < nextTag[n].tag

NonceInv ==
    /\ RoutingTypes
    /\ \A n \in Node : SentIsCovered(n) /\ TimerIsReserved(n) /\ SentIsBehind(n)
    /\ NonceFresh

\* The part of the invariant that speaks of one node
NodeInv(n) == SentIsCovered(n) /\ TimerIsReserved(n) /\ SentIsBehind(n)

\* What the invariant of n depends on
NodeVars(n) == <<inForce[n], record[n], marker[n], timer[n], reserved[n], nextTag[n]>>

LEMMA OtherNodes ==
    ASSUME NEW n \in Node, NodeInv(n), UNCHANGED NodeVars(n), Own(n)' = Own(n)
    PROVE  NodeInv(n)'
BY DEF NodeInv, NodeVars, SentIsCovered, TimerIsReserved, SentIsBehind

\* A node that loses its configuration, or never had one, keeps the invariant with
\* what it has stored.
LEMMA BecomesUnconfigured ==
    ASSUME NEW n \in Node, NodeInv(n), Own(n)' = Own(n),
           inForce'[n] = Routing!Unconfigured, record'[n] = record[n], marker'[n] = marker[n]
    PROVE  NodeInv(n)'
BY DEF NodeInv, SentIsCovered, TimerIsReserved, SentIsBehind

\* A timer that moves forward within a durable reservation
LEMMA TimerAdvances ==
    ASSUME NonceInv, NEW n \in Node, NEW t \in Nat,
           Routing!Configured(n), t > timer[n], Routing!Reserve(n, t), timer'[n] = t,
           Own(n)' = Own(n), UNCHANGED <<inForce, marker, nextTag>>
    PROVE  /\ NodeInv(n)'
           /\ record' \in [Node -> Reservations]
           /\ reserved' \in [Node -> Nat]
           /\ \A m \in Node : m # n => record'[m] = record[m] /\ reserved'[m] = reserved[m]
<1>1. Chunk \in Nat \ {0}
    BY RoutingAssumption DEF Routing!SecureRoutingAssumption
<1>2. /\ inForce[n] \in Configuration
      /\ timer[n] \in Nat /\ reserved[n] \in Nat /\ record[n].limit \in Nat
    BY DEF NonceInv, RoutingTypes, Reservations
<1>3. SentIsCovered(n) /\ TimerIsReserved(n) /\ SentIsBehind(n)
    BY DEF NonceInv
<1>4. \A f \in Own(n) : f.timer \in Nat
    BY DEF NonceInv, RoutingTypes, Own, Frame
<1>5. CASE t < reserved[n]
    <2>1. UNCHANGED <<record, reserved>>
        BY <1>5 DEF Routing!Reserve
    <2>2. NodeInv(n)'
        BY <1>2, <1>3, <1>4, <1>5, <2>1 DEF NodeInv, SentIsCovered, TimerIsReserved, SentIsBehind
    <2> QED
        BY <2>1, <2>2 DEF NonceInv, RoutingTypes
<1>6. CASE ~(t < reserved[n])
    <2>1. /\ record' = [record EXCEPT ![n] = [key |-> inForce[n].key, group |-> inForce[n].group,
                                              limit |-> t + Chunk]]
          /\ reserved' = [reserved EXCEPT ![n] = t + Chunk]
        BY <1>6 DEF Routing!Reserve
    <2>2. t + Chunk \in Nat /\ t + Chunk > t
        BY <1>1
    <2>3. /\ record' \in [Node -> Reservations]
          /\ reserved' \in [Node -> Nat]
        <3>1. [key |-> inForce[n].key, group |-> inForce[n].group, limit |-> t + Chunk] \in Reservations
            BY <1>2, <2>2 DEF Reservations, Configuration
        <3> QED
            BY <2>1, <2>2, <3>1 DEF NonceInv, RoutingTypes
    <2>4. record'[n].key = inForce[n].key /\ record'[n].limit = t + Chunk /\ reserved'[n] = t + Chunk
        BY <2>1 DEF NonceInv, RoutingTypes
    <2>5. SentIsCovered(n)'
        BY <1>2, <1>3, <1>4, <2>2, <2>4 DEF SentIsCovered, SentIsBehind
    <2>6. TimerIsReserved(n)' /\ SentIsBehind(n)'
        BY <1>2, <1>3, <1>4, <2>2, <2>4 DEF TimerIsReserved, SentIsBehind
    <2> QED
        BY <2>1, <2>3, <2>5, <2>6 DEF NodeInv
<1> QED
    BY <1>5, <1>6

\* A step of one node that sends nothing
LEMMA QuietStep ==
    ASSUME NonceInv, NEW n \in Node, frames' = frames, RoutingTypes', NodeInv(n)',
           \A m \in Node : m # n => UNCHANGED NodeVars(m)
    PROVE  NonceInv'
<1>1. \A m \in Node : Own(m)' = Own(m)
    BY DEF Own
<1>2. \A m \in Node : m # n => NodeInv(m)'
    BY <1>1, OtherNodes DEF NonceInv, NodeInv
<1>3. NonceFresh'
    BY DEF NonceInv, NonceFresh, Routing!NonceFresh
<1> QED
    BY <1>2, <1>3 DEF NonceInv, NodeInv

LEMMA UnconfiguredStep ==
    ASSUME NonceInv, NEW n \in Node, inForce' = [inForce EXCEPT ![n] = Routing!Unconfigured],
           UNCHANGED <<frames, record, marker>>, RoutingTypes',
           \A m \in Node : m # n => UNCHANGED <<timer[m], reserved[m], nextTag[m]>>
    PROVE  NonceInv'
<1>1. Own(n)' = Own(n)
    BY DEF Own
<1>2. inForce'[n] = Routing!Unconfigured
    BY DEF NonceInv, RoutingTypes
<1>3. NodeInv(n)'
    BY <1>1, <1>2, BecomesUnconfigured DEF NonceInv, NodeInv
<1> QED
    BY <1>3, QuietStep DEF NodeVars

LEMMA TimerStep ==
    ASSUME NonceInv, NEW n \in Node, NEW t \in Nat,
           Routing!Configured(n), t > timer[n], Routing!Reserve(n, t),
           timer' = [timer EXCEPT ![n] = t],
           UNCHANGED <<inForce, marker, nextTag, frames, config>>, notification'.timer \in Nat
    PROVE  NonceInv'
<1>1. timer'[n] = t /\ timer' \in [Node -> Nat] /\ \A m \in Node : m # n => timer'[m] = timer[m]
    BY DEF NonceInv, RoutingTypes
<1>2. Own(n)' = Own(n)
    BY DEF Own
<1>3. /\ NodeInv(n)'
      /\ record' \in [Node -> Reservations]
      /\ reserved' \in [Node -> Nat]
      /\ \A m \in Node : m # n => record'[m] = record[m] /\ reserved'[m] = reserved[m]
    BY <1>1, <1>2, TimerAdvances
<1>4. RoutingTypes'
    BY <1>1, <1>3 DEF NonceInv, RoutingTypes
<1> QED
    BY <1>1, <1>3, <1>4, QuietStep DEF NodeVars

\* configure(): a key that was used is taken up again at its reserved limit only; one that
\* was not has sent nothing.
LEMMA ConfigureStep ==
    ASSUME NonceInv, NEW n \in Node, NEW written \in {"nothing", "marker", "reservation", "all"},
           Routing!Configure(n, written)
    PROVE  NonceInv'
<1> USE DEF NonceInv, RoutingTypes
<1> DEFINE start == Routing!StartTimer(n)
           key == config[n].key
<1>1. Chunk \in Nat \ {0}
    BY RoutingAssumption DEF Routing!SecureRoutingAssumption
<1>2. start \in Nat /\ start + Chunk \in Nat /\ start < start + Chunk /\ config[n] \in Configuration
    BY <1>1 DEF Reservations
<1>3. key \in Key /\ config[n].group \in Group
    BY <1>2 DEF Configuration
<1>4. /\ marker' = [marker EXCEPT ![n] = [@ EXCEPT ![key] = Routing!MarkerAfter(n, written)]]
      /\ UNCHANGED <<config, nextTag, frames, notification>>
    BY DEF Routing!Configure, Routing!network
<1>5. Routing!MarkerAfter(n, written) \in {"none", "pending", "used"}
    BY <1>3 DEF Routing!MarkerAfter
<1>6. /\ marker' \in [Node -> [Key -> {"none", "pending", "used"}]]
      /\ \A m \in Node : m # n => marker'[m] = marker[m]
      /\ \A k \in Key : k # key => marker'[n][k] = marker[n][k]
      /\ marker'[n][key] = Routing!MarkerAfter(n, written)
    BY <1>3, <1>4, <1>5
<1>7. \A k \in Key : marker[n][k] = "used" => marker'[n][k] = "used"
    BY <1>6 DEF Routing!MarkerAfter
<1>8. Own(n)' = Own(n) /\ \A f \in Own(n) : f.key \in Key /\ f.timer \in Nat
    BY <1>4 DEF Own, Frame
<1>9. CASE written \in {"nothing", "marker"}
    <2>1. /\ record' = record
          /\ inForce' = [inForce EXCEPT ![n] = Routing!Unconfigured]
          /\ timer' = [timer EXCEPT ![n] = 0] /\ reserved' = [reserved EXCEPT ![n] = 0]
        BY <1>9 DEF Routing!Configure, Routing!IsReservationWritten
    <2>2. RoutingTypes'
        BY <1>4, <1>6, <2>1
    <2>3. SentIsCovered(n)'
        BY <1>7, <1>8, <2>1 DEF SentIsCovered
    <2>4. inForce'[n] = Routing!Unconfigured
        BY <2>1
    <2>5. NodeInv(n)'
        BY <2>3, <2>4 DEF NodeInv, TimerIsReserved, SentIsBehind
    <2>6. \A m \in Node : m # n => UNCHANGED NodeVars(m)
        BY <1>4, <1>6, <2>1 DEF NodeVars
    <2> HIDE DEF NonceInv, RoutingTypes
    <2> QED
        BY <1>4, <2>2, <2>5, <2>6, QuietStep
<1>10. CASE written \in {"reservation", "all"}
    <2>1. /\ record' = [record EXCEPT ![n] = [key |-> key, group |-> config[n].group,
                                              limit |-> start + Chunk]]
          /\ inForce' = [inForce EXCEPT ![n] = IF written = "all" THEN config[n]
                                                ELSE Routing!Unconfigured]
          /\ timer' = [timer EXCEPT ![n] = IF written = "all" THEN start ELSE 0]
          /\ reserved' = [reserved EXCEPT ![n] = IF written = "all" THEN start + Chunk ELSE 0]
        BY <1>10 DEF Routing!Configure, Routing!IsReservationWritten
    <2>2. RoutingTypes'
        <3>1. record' \in [Node -> Reservations]
            <4>1. [key |-> key, group |-> config[n].group, limit |-> start + Chunk] \in Reservations
                BY <1>2, <1>3 DEF Reservations
            <4> QED
                BY <2>1, <4>1
        <3>2. inForce' \in [Node -> Configuration \cup {Routing!Unconfigured}]
            BY <1>2, <2>1
        <3>3. timer' \in [Node -> Nat] /\ reserved' \in [Node -> Nat]
            BY <1>2, <2>1
        <3> QED
            BY <1>4, <1>6, <3>1, <3>2, <3>3
    <2>3. /\ record'[n].key = key /\ record'[n].limit = start + Chunk
          /\ written = "all" => /\ inForce'[n] = config[n] /\ timer'[n] = start
                                /\ reserved'[n] = start + Chunk /\ marker'[n][key] = "used"
          /\ written # "all" => inForce'[n] = Routing!Unconfigured
        BY <1>6, <2>1 DEF Routing!MarkerAfter
    <2>4. SentIsCovered(n)
        OBVIOUS
    <2>5. \A f \in Own(n) : f.key = key => f.timer < start
        <3>1. CASE record[n].limit # 0 /\ record[n].key = key
            BY <1>2, <2>4, <3>1 DEF SentIsCovered
        <3>2. CASE ~(record[n].limit # 0 /\ record[n].key = key)
            <4>1. marker[n][key] # "used"
                BY <3>2 DEF Routing!Configure, Routing!IsRefused
            <4> QED
                BY <2>4, <4>1 DEF SentIsCovered
        <3> QED
            BY <3>1, <3>2
    <2>6. \A f \in Own(n) : f.key = key => f.timer < start + Chunk
        BY <1>2, <1>8, <2>5
    <2>7. SentIsCovered(n)'
        BY <1>7, <1>8, <2>3, <2>4, <2>6 DEF SentIsCovered
    <2>8. TimerIsReserved(n)' /\ SentIsBehind(n)'
        BY <1>2, <1>8, <2>3, <2>5 DEF TimerIsReserved, SentIsBehind
    <2>9. NodeInv(n)'
        BY <2>7, <2>8 DEF NodeInv
    <2>10. \A m \in Node : m # n => UNCHANGED NodeVars(m)
        BY <1>4, <1>6, <2>1 DEF NodeVars
    <2> HIDE DEF NonceInv, RoutingTypes
    <2> QED
        BY <1>4, <2>2, <2>9, <2>10, QuietStep
<1> QED
    BY <1>9, <1>10

LEMMA RoutingCardinality == \A S : Routing!Cardinality(S) = Cardinality(S)
BY DEF Cardinality, Routing!Cardinality

LEMMA FramesGrow ==
    ASSUME RoutingTypes, NEW n \in Node, NEW t \in Nat, NEW tag \in Nat,
           Routing!Configured(n), Routing!Transmit(n, t, tag)
    PROVE  \E g \in Frame :
              /\ frames' = frames \cup {g}
              /\ g.key = inForce[n].key /\ g.timer = t /\ g.serial = n /\ g.tag = tag
              /\ g.id = Cardinality(frames) + 1
              /\ IsFiniteSet(frames')
              /\ nextTag' = [nextTag EXCEPT ![n] = [timer |-> t, tag |-> tag + 1]]
<1> DEFINE g == [key |-> inForce[n].key, group |-> inForce[n].group, timer |-> t,
                 serial |-> n, tag |-> tag, id |-> Cardinality(frames) + 1]
<1>1. Cardinality(frames) + 1 \in Nat
    BY FS_CardinalityType DEF RoutingTypes
<1>2. inForce[n].key \in Key /\ inForce[n].group \in Group
    BY DEF RoutingTypes, Configuration
<1>3. g \in Frame
    BY <1>1, <1>2 DEF Frame
<1>4. /\ frames' = frames \cup {g}
      /\ nextTag' = [nextTag EXCEPT ![n] = [timer |-> t, tag |-> tag + 1]]
    BY RoutingCardinality DEF Routing!Transmit
<1>5. IsFiniteSet(frames')
    BY <1>4, FS_AddElement DEF RoutingTypes
<1>6. g.key = inForce[n].key /\ g.timer = t /\ g.serial = n /\ g.tag = tag
      /\ g.id = Cardinality(frames) + 1
    OBVIOUS
<1> HIDE DEF g
<1> QED
    BY <1>3, <1>4, <1>5, <1>6

\* What is sent at timer t with a tag that is new is told apart from all that was sent.
LEMMA TransmitStep ==
    ASSUME NonceInv, NEW n \in Node, NEW t \in Nat, NEW tag \in Nat,
           Routing!Configured(n), Routing!Transmit(n, t, tag),
           \A f \in Own(n) : f.key = inForce[n].key =>
               f.timer <= t /\ (f.timer = t => f.tag < tag),
           t < reserved'[n], timer'[n] = t, timer' \in [Node -> Nat],
           record'[n].key = inForce[n].key, record'[n].limit = reserved'[n],
           record[n].limit <= record'[n].limit,
           record' \in [Node -> Reservations], reserved' \in [Node -> Nat],
           \A m \in Node : m # n => UNCHANGED <<record[m], reserved[m], timer[m]>>,
           UNCHANGED <<config, inForce, marker, notification>>
    PROVE  NonceInv'
<1>1. PICK g \in Frame :
        /\ frames' = frames \cup {g}
        /\ g.key = inForce[n].key /\ g.timer = t /\ g.serial = n /\ g.tag = tag
        /\ IsFiniteSet(frames')
        /\ nextTag' = [nextTag EXCEPT ![n] = [timer |-> t, tag |-> tag + 1]]
    BY FramesGrow DEF NonceInv
<1>2. RoutingTypes'
    <2>1. nextTag' \in [Node -> [timer : Nat, tag : Nat]]
        BY <1>1 DEF NonceInv, RoutingTypes
    <2> QED
        BY <1>1, <2>1 DEF NonceInv, RoutingTypes
<1>3. Own(n)' = Own(n) \cup {g} /\ \A m \in Node : m # n => Own(m)' = Own(m)
    BY <1>1 DEF Own
<1>4. nextTag'[n].timer = t /\ nextTag'[n].tag = tag + 1
    BY <1>1 DEF NonceInv, RoutingTypes
<1>5. /\ \A f \in Own(n) : f.timer \in Nat /\ f.tag \in Nat
      /\ record[n].limit \in Nat /\ record'[n].limit \in Nat
    BY DEF NonceInv, RoutingTypes, Own, Frame, Reservations
<1>6. SentIsCovered(n) /\ TimerIsReserved(n) /\ SentIsBehind(n)
    BY DEF NonceInv
<1>7. SentIsCovered(n)'
    BY <1>1, <1>3, <1>5, <1>6 DEF SentIsCovered, TimerIsReserved
<1>8. TimerIsReserved(n)'
    BY <1>6 DEF TimerIsReserved
<1>9. SentIsBehind(n)'
    BY <1>1, <1>3, <1>4, <1>5 DEF SentIsBehind
<1>10. \A m \in Node : m # n => NodeInv(m)'
    <2>1. \A m \in Node : m # n => nextTag'[m] = nextTag[m]
        BY <1>1 DEF NonceInv, RoutingTypes
    <2> QED
        BY <1>3, <2>1, OtherNodes DEF NonceInv, NodeInv, NodeVars
<1>11. NonceFresh'
    <2>1. \A f \in frames : ~(f.key = g.key /\ f.timer = g.timer /\ f.serial = g.serial /\ f.tag = g.tag)
        BY <1>1 DEF Own
    <2> QED
        BY <1>1, <2>1 DEF NonceInv, NonceFresh, Routing!NonceFresh
<1> QED
    BY <1>2, <1>7, <1>8, <1>9, <1>10, <1>11 DEF NonceInv, NodeInv

LEMMA SendStep ==
    ASSUME NonceInv, NEW n \in Node, Routing!Send(n)
    PROVE  NonceInv'
<1>1. /\ Routing!Configured(n)
      /\ inForce[n] \in Configuration /\ timer[n] \in Nat /\ reserved[n] \in Nat
      /\ record[n].limit \in Nat /\ nextTag[n].tag \in Nat /\ nextTag[n].timer \in Nat
      /\ inForce[n].key \in Key /\ inForce[n].group \in Group
    BY DEF NonceInv, RoutingTypes, Reservations, Routing!Send, Routing!IsReady,
           Routing!IsCurrent, Configuration
<1>2. /\ \A f \in Own(n) : f.timer \in Nat /\ f.tag \in Nat
      /\ SentIsCovered(n) /\ TimerIsReserved(n) /\ SentIsBehind(n)
    BY DEF NonceInv, RoutingTypes, Own, Frame
<1>3. UNCHANGED <<config, inForce, marker, notification>>
    BY DEF Routing!Send
<1>4. MaxTag \in Nat /\ Chunk \in Nat \ {0}
    BY RoutingAssumption DEF Routing!SecureRoutingAssumption
<1>5. CASE ~Routing!IsExhausted(n) /\ Routing!Transmit(n, timer[n], Routing!TagOf(n))
           /\ UNCHANGED <<record, reserved, timer>>
    <2>1. \A x \in Nat : x <= MaxTag => x % (MaxTag + 1) = x
        BY <1>4
    <2>2. /\ Routing!TagOf(n) \in Nat
          /\ nextTag[n].timer = timer[n] => Routing!TagOf(n) = nextTag[n].tag
        BY <1>1, <1>4, <1>5, <2>1 DEF Routing!TagOf, Routing!IsExhausted
    <2>3. \A f \in Own(n) : f.key = inForce[n].key =>
               f.timer <= timer[n] /\ (f.timer = timer[n] => f.tag < Routing!TagOf(n))
        BY <1>1, <1>2, <2>2 DEF SentIsBehind
    <2>4. /\ timer[n] < reserved'[n] /\ record'[n].key = inForce[n].key
          /\ record'[n].limit = reserved'[n] /\ record[n].limit <= record'[n].limit
        BY <1>1, <1>2, <1>5 DEF TimerIsReserved
    <2>5. record' \in [Node -> Reservations] /\ reserved' \in [Node -> Nat] /\ timer' \in [Node -> Nat]
        BY <1>5 DEF NonceInv, RoutingTypes
    <2> QED
        BY <1>1, <1>3, <1>5, <2>2, <2>3, <2>4, <2>5, TransmitStep
<1>6. CASE Routing!Reserve(n, timer[n] + 1) /\ timer' = [timer EXCEPT ![n] = @ + 1]
           /\ Routing!Transmit(n, timer[n] + 1, 0)
    <2> DEFINE t == timer[n] + 1
    <2>1. t \in Nat /\ t > timer[n] /\ timer'[n] = t /\ timer' \in [Node -> Nat]
        BY <1>1, <1>6 DEF NonceInv, RoutingTypes
    <2>2. \A f \in Own(n) : f.key = inForce[n].key => f.timer <= t /\ f.timer # t
        BY <1>1, <1>2, <2>1 DEF SentIsBehind
    <2>3. \/ UNCHANGED <<record, reserved>> /\ t < reserved[n]
          \/ /\ record' = [record EXCEPT ![n] = [key |-> inForce[n].key, group |-> inForce[n].group,
                                                 limit |-> t + Chunk]]
             /\ reserved' = [reserved EXCEPT ![n] = t + Chunk]
             /\ ~(t < reserved[n])
        BY <1>6 DEF Routing!Reserve
    <2>4. /\ record'[n].key = inForce[n].key /\ record'[n].limit = reserved'[n]
          /\ t < reserved'[n] /\ record[n].limit <= record'[n].limit
        BY <1>1, <1>2, <1>4, <2>1, <2>3 DEF NonceInv, RoutingTypes, TimerIsReserved
    <2>5. record' \in [Node -> Reservations] /\ reserved' \in [Node -> Nat]
        <3>1. [key |-> inForce[n].key, group |-> inForce[n].group, limit |-> t + Chunk] \in Reservations
            BY <1>1, <1>4, <2>1 DEF Reservations
        <3>2. t + Chunk \in Nat
            BY <1>4, <2>1
        <3>3. record \in [Node -> Reservations] /\ reserved \in [Node -> Nat]
            BY DEF NonceInv, RoutingTypes
        <3> HIDE DEF t
        <3> QED
            BY <2>3, <3>1, <3>2, <3>3
    <2>6. \A m \in Node : m # n => UNCHANGED <<record[m], reserved[m], timer[m]>>
        BY <1>6, <2>3 DEF NonceInv, RoutingTypes
    <2>7. Routing!Transmit(n, t, 0) /\ 0 \in Nat
        BY <1>6
    <2> HIDE DEF t
    <2> QED
        BY <1>1, <1>3, <2>1, <2>2, <2>4, <2>5, <2>6, <2>7, TransmitStep
<1> QED
    BY <1>5, <1>6 DEF Routing!Send

\* The other steps of loop(), of the storage and of ETS
LEMMA AdvanceStep ==
    ASSUME NonceInv, NEW n \in Node, Routing!Advance(n)
    PROVE  NonceInv'
<1>1. Routing!Configured(n) /\ timer[n] \in Nat
    BY DEF NonceInv, RoutingTypes, Routing!Advance, Routing!IsCurrent
<1>2. /\ UNCHANGED <<config, marker, nextTag, frames, notification>>
      /\ timer' = [timer EXCEPT ![n] = timer[n] + 1]
    BY DEF Routing!Advance, Routing!tagging, Routing!network
<1>3. timer[n] + 1 \in Nat /\ timer[n] + 1 > timer[n]
    BY <1>1
<1>4. notification'.timer \in Nat
    BY <1>2 DEF NonceInv, RoutingTypes
<1>5. CASE Routing!Reserve(n, timer[n] + 1) /\ UNCHANGED inForce
    BY <1>1, <1>2, <1>3, <1>4, <1>5, TimerStep
<1>6. CASE Routing!ReserveFails(n, timer[n] + 1)
    <2>1. /\ inForce' = [inForce EXCEPT ![n] = Routing!Unconfigured]
          /\ UNCHANGED <<record, reserved>>
        BY <1>6 DEF Routing!ReserveFails
    <2>2. RoutingTypes'
        BY <1>2, <1>3, <2>1 DEF NonceInv, RoutingTypes
    <2>3. \A m \in Node : m # n => UNCHANGED <<timer[m], reserved[m], nextTag[m]>>
        BY <1>2, <2>1 DEF NonceInv, RoutingTypes
    <2> QED
        BY <1>2, <2>1, <2>2, <2>3, UnconfiguredStep
<1> QED
    BY <1>5, <1>6 DEF Routing!Advance

LEMMA ForgetfulStep ==
    ASSUME NonceInv, NEW n \in Node, Routing!Refuse(n) \/ Routing!Restart(n)
    PROVE  NonceInv'
<1>1. /\ inForce' = [inForce EXCEPT ![n] = Routing!Unconfigured]
      /\ timer' = [timer EXCEPT ![n] = 0]
      /\ reserved' = [reserved EXCEPT ![n] = 0]
      /\ nextTag' = nextTag \/ nextTag' = [nextTag EXCEPT ![n] = [timer |-> 0, tag |-> 0]]
      /\ UNCHANGED <<config, record, marker, frames, notification>>
    BY DEF Routing!Refuse, Routing!Restart, Routing!durable, Routing!network
<1>2. RoutingTypes'
    <2>1. nextTag' \in [Node -> [timer : Nat, tag : Nat]]
        <3>1. [timer |-> 0, tag |-> 0] \in [timer : Nat, tag : Nat]
            OBVIOUS
        <3> QED
            BY <1>1, <3>1 DEF NonceInv, RoutingTypes
    <2> QED
        BY <1>1, <2>1 DEF NonceInv, RoutingTypes
<1>3. \A m \in Node : m # n => UNCHANGED <<timer[m], reserved[m], nextTag[m]>>
    BY <1>1 DEF NonceInv, RoutingTypes
<1> QED
    BY <1>1, <1>2, <1>3, UnconfiguredStep

LEMMA CannotFollowStep ==
    ASSUME NonceInv, NEW n \in Node, NEW m, Routing!CannotFollow(n, m)
    PROVE  NonceInv'
<1>1. /\ inForce' = [inForce EXCEPT ![n] = Routing!Unconfigured]
      /\ UNCHANGED <<config, record, marker, timer, reserved, nextTag, frames, notification>>
    BY DEF Routing!CannotFollow, Routing!ReserveFails, Routing!tagging, Routing!network
<1>2. RoutingTypes'
    BY <1>1 DEF NonceInv, RoutingTypes
<1> QED
    BY <1>1, <1>2, UnconfiguredStep

\* Steps that leave alone all that the invariant speaks of
LEMMA IdleStep ==
    ASSUME NonceInv, RoutingTypes',
           UNCHANGED <<inForce, record, marker, timer, reserved, nextTag, frames>>
    PROVE  NonceInv'
<1>1. \A m \in Node : Own(m)' = Own(m)
    BY DEF Own
<1>2. \A m \in Node : NodeInv(m)'
    BY <1>1, OtherNodes DEF NonceInv, NodeInv, NodeVars
<1> QED
    BY <1>2 DEF NonceInv, NodeInv, NonceFresh, Routing!NonceFresh

\* synchronize(): the timer follows a later one, as far as it can be reserved.
LEMMA SynchronizeStep ==
    ASSUME NonceInv, NEW n \in Node, NEW m, m.timer \in Nat, NEW isNotification,
           Routing!IsReady(n), Routing!Synchronize(n, m, isNotification),
           UNCHANGED <<config, marker, inForce, nextTag, frames, notification>>
    PROVE  NonceInv'
<1>1. Routing!Configured(n) /\ notification'.timer \in Nat
    BY DEF NonceInv, RoutingTypes, Routing!IsReady, Routing!IsCurrent
<1>2. CASE m.timer > timer[n] /\ Routing!Reserve(n, m.timer) /\ timer' = [timer EXCEPT ![n] = m.timer]
    BY <1>1, <1>2, TimerStep
<1>3. CASE UNCHANGED <<record, reserved, timer>>
    <2>1. RoutingTypes'
        BY <1>3 DEF NonceInv, RoutingTypes
    <2> QED
        BY <1>3, <2>1, IdleStep
<1> QED
    BY <1>2, <1>3 DEF Routing!Synchronize

LEMMA HearStep ==
    ASSUME NonceInv, NEW n \in Node,
           Routing!HearNotification(n) \/ \E f \in frames : Routing!Hear(n, f)
    PROVE  NonceInv'
<1>1. CASE Routing!HearNotification(n)
    <2>1. /\ Routing!IsReady(n) /\ Routing!Synchronize(n, notification, TRUE)
          /\ UNCHANGED <<config, marker, inForce, nextTag, frames, notification>>
        BY <1>1 DEF Routing!HearNotification, Routing!network
    <2> QED
        BY <2>1, SynchronizeStep DEF NonceInv, RoutingTypes
<1>2. ASSUME NEW f \in frames, Routing!Hear(n, f) PROVE NonceInv'
    <2>1. /\ Routing!IsReady(n) /\ Routing!Synchronize(n, f, FALSE) /\ f.timer \in Nat
          /\ UNCHANGED <<config, marker, inForce, nextTag, frames, notification>>
        BY <1>2 DEF Routing!Hear, Routing!network, NonceInv, RoutingTypes, Frame
    <2> QED
        BY <2>1, SynchronizeStep
<1> QED
    BY <1>1, <1>2

LEMMA OtherSteps ==
    ASSUME NonceInv,
           \/ Routing!Tick
           \/ \E n \in Node :
                \/ \E tag \in 1 .. MaxTag : Routing!Notify(n, tag)
                \/ \E c \in Configuration : Routing!Rekey(n, c)
           \/ UNCHANGED Routing!vars
    PROVE  NonceInv'
<1>1. UNCHANGED <<inForce, record, marker, timer, reserved, nextTag, frames>>
    BY DEF Routing!Tick, Routing!Notify, Routing!Rekey, Routing!vars, Routing!durable,
           Routing!clock, Routing!tagging, Routing!network
<1>2. config' \in [Node -> Configuration]
    BY DEF NonceInv, RoutingTypes, Routing!Tick, Routing!Notify, Routing!Rekey, Routing!vars
<1>3. notification'.timer \in Nat
    <2>1. CASE Routing!Tick
        BY <2>1 DEF Routing!Tick, Routing!NoNotification
    <2>2. ASSUME NEW n \in Node, NEW tag \in 1 .. MaxTag, Routing!Notify(n, tag)
          PROVE  notification'.timer \in Nat
        BY <2>2 DEF Routing!Notify, NonceInv, RoutingTypes
    <2>3. CASE UNCHANGED notification
        BY <2>3 DEF NonceInv, RoutingTypes
    <2> QED
        BY <2>1, <2>2, <2>3 DEF Routing!Rekey, Routing!vars, Routing!network
<1> QED
    BY <1>1, <1>2, <1>3, IdleStep DEF NonceInv, RoutingTypes

LEMMA NonceInvariant == Routing!Spec => []NonceInv
<1>1. Routing!Init => NonceInv
    <2> SUFFICES ASSUME Routing!Init PROVE NonceInv
        OBVIOUS
    <2>1. RoutingTypes
        BY FS_EmptySet DEF RoutingTypes, Reservations, Configuration, Routing!Init,
                           Routing!Unconfigured, Routing!NoNotification
    <2>2. frames = {} /\ \A n \in Node : ~Routing!Configured(n)
        BY DEF Routing!Init
    <2> QED
        BY <2>1, <2>2 DEF NonceInv, NonceFresh, Routing!NonceFresh, Own, SentIsCovered,
                          TimerIsReserved, SentIsBehind
<1>2. NonceInv /\ [Routing!Next]_(Routing!vars) => NonceInv'
    <2> SUFFICES ASSUME NonceInv, [Routing!Next]_(Routing!vars) PROVE NonceInv'
        OBVIOUS
    <2> HIDE DEF NonceInv
    <2> QED
        BY ConfigureStep, SendStep, AdvanceStep, ForgetfulStep, CannotFollowStep, HearStep,
           OtherSteps DEF Routing!Next, Configuration
<1> QED
    BY <1>1, <1>2, PTL DEF Routing!Spec

\* For any number of nodes, keys and groups, and any order of restarts, failing writes and
\* changes of the key: no two frames are encrypted with the same nonce (send(), advance(),
\* synchronize(), configure() and reserve() of IpSecureRouting).
THEOREM NoncesAlwaysFresh == Routing!Spec => []NonceFresh
<1>1. NonceInv => NonceFresh
    BY DEF NonceInv
<1> QED
    BY <1>1, NonceInvariant, PTL

-----------------------------------------------------------------------------
(* Secure routing: repeated frames *)

\* The frames are numbered in the order in which they are sent.
Numbered ==
    /\ \A f \in frames : f.id \in 1 .. Cardinality(frames)
    /\ \A f, g \in frames : f.id = g.id => f = g

\* What a node has handed on is in its replay cache, or too late to be handed on again.
Remembered(n) ==
    Routing!Configured(n) =>
        \A id \in accepted[n] : \E f \in frames :
            f.id = id /\ (f \in replay[n] \/ f.timer + Latency < timer[n])

OnceInv ==
    /\ accepted \in [Node -> SUBSET Nat] /\ replay \in [Node -> SUBSET Frame]
    /\ Numbered
    /\ \A n \in Node : Remembered(n)
    /\ AcceptedOnce

\* A node hands nothing on in this step: it forgets everything, or its timer does not go back.
HandsNothingOn(n) ==
    \/ accepted'[n] = {}
    \/ /\ accepted'[n] = accepted[n] /\ replay'[n] = replay[n]
       /\ Routing!Configured(n)' => Routing!Configured(n) /\ timer[n] <= timer'[n]

LEMMA StillRemembered ==
    ASSUME NonceInv, NonceInv', NEW n \in Node, Remembered(n), HandsNothingOn(n), frames \subseteq frames'
    PROVE  Remembered(n)'
<1>1. Latency \in Nat
    BY RoutingAssumption DEF Routing!SecureRoutingAssumption
<1>2. timer[n] \in Nat /\ timer'[n] \in Nat /\ \A f \in frames : f.timer \in Nat
    BY DEF NonceInv, RoutingTypes, Frame
<1>3. CASE accepted'[n] = {}
    BY <1>3 DEF Remembered
<1>4. CASE accepted'[n] # {} /\ Routing!Configured(n)'
    <2>1. /\ accepted'[n] = accepted[n] /\ replay'[n] = replay[n]
          /\ Routing!Configured(n) /\ timer[n] <= timer'[n]
        BY <1>4 DEF HandsNothingOn
    <2>2. \A f \in frames : f.timer + Latency < timer[n] => f.timer + Latency < timer'[n]
        BY <1>1, <1>2, <2>1
    <2> QED
        BY <2>1, <2>2 DEF Remembered
<1> QED
    BY <1>3, <1>4 DEF Remembered

\* The number of a new frame is new.
LEMMA NumberedStep ==
    ASSUME NonceInv, Numbered, NEW n \in Node, Routing!Send(n)
    PROVE  Numbered' /\ frames \subseteq frames'
<1>1. nextTag[n].tag \in Nat /\ nextTag[n].timer \in Nat /\ timer[n] \in Nat /\ MaxTag \in Nat
    BY RoutingAssumption DEF NonceInv, RoutingTypes, Routing!SecureRoutingAssumption
<1>2. \A x \in Nat : x % (MaxTag + 1) \in Nat
    BY <1>1
<1>3. Routing!TagOf(n) \in Nat
    BY <1>1, <1>2 DEF Routing!TagOf
<1>4. \E t \in Nat, tag \in Nat : Routing!Transmit(n, t, tag)
    <2>1. timer[n] + 1 \in Nat /\ 0 \in Nat
        BY <1>1
    <2> QED
        BY <1>1, <1>3, <2>1 DEF Routing!Send
<1>5. Routing!Configured(n)
    BY DEF Routing!Send, Routing!IsReady, Routing!IsCurrent
<1>6. PICK g \in Frame : frames' = frames \cup {g} /\ g.id = Cardinality(frames) + 1
    BY <1>4, <1>5, FramesGrow DEF NonceInv
<1>7. /\ Cardinality(frames) \in Nat
      /\ \A f \in frames : f.id \in Nat /\ f.id <= Cardinality(frames)
    BY FS_CardinalityType DEF NonceInv, RoutingTypes, Numbered
<1>8. g \notin frames
    BY <1>6, <1>7
<1>9. Cardinality(frames') = Cardinality(frames) + 1
    BY <1>6, <1>8, FS_AddElement DEF NonceInv, RoutingTypes
<1>10. \A f \in frames' : f.id \in 1 .. Cardinality(frames')
    BY <1>6, <1>7, <1>9 DEF Numbered
<1>11. \A f \in frames : f.id # g.id
    BY <1>6, <1>7
<1> QED
    BY <1>6, <1>10, <1>11 DEF Numbered

\* A frame is handed on only if it is neither in the cache nor too late for it.
LEMMA HearOnce ==
    ASSUME NonceInv, NonceInv', OnceInv, NEW n \in Node, NEW f \in frames, Routing!Hear(n, f)
    PROVE  OnceInv'
<1> DEFINE now == timer'[n]
<1>1. Latency \in Nat
    BY RoutingAssumption DEF Routing!SecureRoutingAssumption
<1>2. /\ timer[n] \in Nat /\ now \in Nat /\ f.timer \in Nat /\ f.id \in Nat /\ f \in Frame
      /\ \A g \in frames : g.timer \in Nat /\ g.id \in Nat
    BY DEF NonceInv, RoutingTypes, Frame
<1>3. /\ UNCHANGED <<frames, inForce>> /\ Routing!Synchronize(n, f, FALSE)
      /\ Routing!Configured(n)
    BY DEF Routing!Hear, Routing!network, Routing!IsReady, Routing!IsCurrent
<1>4. timer[n] <= now /\ f.timer <= now /\ \A m \in Node : m # n => timer'[m] = timer[m]
    <2>1. \/ timer' = [timer EXCEPT ![n] = f.timer] /\ f.timer > timer[n]
          \/ timer' = timer /\ f.timer <= timer[n]
        BY <1>3 DEF Routing!Synchronize
    <2>2. timer \in [Node -> Nat]
        BY DEF NonceInv, RoutingTypes
    <2> QED
        BY <1>2, <2>1, <2>2
<1>5. Numbered'
    BY <1>3 DEF OnceInv, Numbered
<1>6. CASE UNCHANGED <<replay, accepted, repeated>>
    <2>1. \A m \in Node : HandsNothingOn(m)
        <3>1. \A m \in Node : timer[m] \in Nat /\ timer[m] <= timer'[m]
            <4>1. timer \in [Node -> Nat]
                BY DEF NonceInv, RoutingTypes
            <4>2. \A m \in Node : timer[m] \in Nat
                BY <4>1
            <4> HIDE DEF NonceInv
            <4> QED
                BY <1>4, <4>2
        <3> QED
            BY <1>3, <1>6, <3>1 DEF HandsNothingOn
    <2>2. \A m \in Node : Remembered(m)'
        BY <1>3, <2>1, StillRemembered DEF OnceInv
    <2> QED
        BY <1>5, <1>6, <2>2 DEF OnceInv, AcceptedOnce, Routing!AcceptedOnce
<1>7. CASE /\ Routing!IsAccepted(n, f, now)
           /\ replay' = [replay EXCEPT ![n] = Routing!Live(@, now) \cup {f}]
           /\ accepted' = [accepted EXCEPT ![n] = @ \cup {f.id}]
           /\ repeated' = (repeated \/ f.id \in accepted[n])
    <2>1. /\ replay'[n] = {g \in replay[n] : now - g.timer <= Latency} \cup {f}
          /\ accepted'[n] = accepted[n] \cup {f.id}
          /\ \A m \in Node : m # n => replay'[m] = replay[m] /\ accepted'[m] = accepted[m]
        BY <1>7 DEF OnceInv, Routing!Live
    <2>2. /\ accepted' \in [Node -> SUBSET Nat] /\ replay' \in [Node -> SUBSET Frame]
        BY <1>2, <1>7 DEF OnceInv, Routing!Live
    <2>3. now - f.timer <= Latency /\ f \notin {g \in replay[n] : now - g.timer <= Latency}
        BY <1>7 DEF Routing!IsAccepted, Routing!IsFresh, Routing!Live
    <2>4. f.id \notin accepted[n]
        <3> SUFFICES ASSUME f.id \in accepted[n] PROVE FALSE
            OBVIOUS
        <3>1. PICK g \in frames : g.id = f.id /\ (g \in replay[n] \/ g.timer + Latency < timer[n])
            BY <1>3 DEF OnceInv, Remembered
        <3>2. g = f
            BY <3>1 DEF OnceInv, Numbered
        <3> QED
            BY <1>1, <1>2, <1>4, <2>3, <3>1, <3>2
    <2>5. AcceptedOnce'
        BY <1>7, <2>4 DEF OnceInv, AcceptedOnce, Routing!AcceptedOnce
    <2>6. Remembered(n)'
        <3>1. ASSUME NEW id \in accepted[n]
              PROVE  \E g \in frames : g.id = id /\ (g \in replay'[n] \/ g.timer + Latency < now)
            <4>1. PICK g \in frames : g.id = id /\ (g \in replay[n] \/ g.timer + Latency < timer[n])
                BY <1>3, <3>1 DEF OnceInv, Remembered
            <4>2. g \in replay'[n] \/ g.timer + Latency < now
                BY <1>1, <1>2, <1>4, <2>1, <4>1
            <4> QED
                BY <4>1, <4>2
        <3> QED
            BY <1>3, <2>1, <3>1 DEF Remembered
    <2>7. \A m \in Node : m # n => HandsNothingOn(m)
        BY <1>3, <1>4, <2>1 DEF HandsNothingOn, NonceInv, RoutingTypes
    <2>8. \A m \in Node : m # n => Remembered(m)'
        BY <1>3, <2>7, StillRemembered DEF OnceInv
    <2> QED
        BY <1>5, <2>2, <2>5, <2>6, <2>8 DEF OnceInv
<1> QED
    BY <1>6, <1>7 DEF Routing!Hear, Routing!ghosts

\* All other steps
LEMMA NothingHandedOn ==
    ASSUME NonceInv, NonceInv', OnceInv,
           accepted' \in [Node -> SUBSET Nat], replay' \in [Node -> SUBSET Frame],
           repeated' = repeated, \A n \in Node : HandsNothingOn(n),
           frames' = frames \/ \E n \in Node : Routing!Send(n)
    PROVE  OnceInv'
<1>1. Numbered' /\ frames \subseteq frames'
    BY NumberedStep DEF OnceInv, Numbered
<1>2. \A n \in Node : Remembered(n)'
    BY <1>1, StillRemembered DEF OnceInv
<1> QED
    BY <1>1, <1>2 DEF OnceInv, AcceptedOnce, Routing!AcceptedOnce

\* However often and late a frame is repeated on the way, a node that keeps its
\* configuration hands it on once (receive(), synchronize(), accept() of IpSecureRouting).
THEOREM FramesAcceptedOnce == Routing!Spec => []AcceptedOnce
<1>1. Routing!Init => OnceInv
    <2> SUFFICES ASSUME Routing!Init PROVE OnceInv
        OBVIOUS
    <2>1. frames = {} /\ ~repeated /\ \A n \in Node : ~Routing!Configured(n)
        BY DEF Routing!Init
    <2>2. accepted \in [Node -> SUBSET Nat] /\ replay \in [Node -> SUBSET Frame]
        BY DEF Routing!Init
    <2> QED
        BY <2>1, <2>2 DEF OnceInv, Numbered, Remembered, AcceptedOnce, Routing!AcceptedOnce
<1>2. NonceInv /\ NonceInv' /\ OnceInv /\ [Routing!Next]_(Routing!vars) => OnceInv'
    <2> SUFFICES ASSUME NonceInv, NonceInv', OnceInv, [Routing!Next]_(Routing!vars) PROVE OnceInv'
        OBVIOUS
    <2>1. \A n \in Node : timer[n] \in Nat
        BY DEF NonceInv, RoutingTypes
    <2>2. ASSUME UNCHANGED <<accepted, replay, repeated>>, frames' = frames \/ \E m \in Node : Routing!Send(m),
                 \A n \in Node : Routing!Configured(n)' => Routing!Configured(n) /\ timer[n] <= timer'[n]
          PROVE  OnceInv'
        BY <2>2, NothingHandedOn DEF OnceInv, HandsNothingOn
    <2>3. CASE Routing!Tick \/ UNCHANGED Routing!vars
        <3>1. UNCHANGED <<accepted, replay, repeated, frames, inForce, timer>>
            BY <2>3 DEF Routing!Tick, Routing!vars, Routing!ghosts, Routing!network, Routing!clock
        <3> QED
            BY <2>1, <2>2, <3>1
    <2>4. ASSUME NEW n \in Node, Routing!Refuse(n) PROVE OnceInv'
        <3>1. /\ UNCHANGED <<accepted, replay, repeated, frames>>
              /\ inForce' = [inForce EXCEPT ![n] = Routing!Unconfigured]
              /\ timer' = [timer EXCEPT ![n] = 0]
            BY <2>4 DEF Routing!Refuse, Routing!ghosts, Routing!network
        <3> QED
            BY <2>1, <2>2, <3>1 DEF NonceInv, RoutingTypes
    <2>5. ASSUME NEW n \in Node, Routing!Advance(n) PROVE OnceInv'
        <3>1. /\ UNCHANGED <<accepted, replay, repeated, frames>>
              /\ inForce' = inForce \/ inForce' = [inForce EXCEPT ![n] = Routing!Unconfigured]
              /\ timer' = [timer EXCEPT ![n] = @ + 1]
            BY <2>5 DEF Routing!Advance, Routing!ReserveFails, Routing!ghosts, Routing!network
        <3> QED
            BY <2>1, <2>2, <3>1 DEF NonceInv, RoutingTypes
    <2>6. ASSUME NEW n \in Node, Routing!Send(n) PROVE OnceInv'
        <3>1. /\ UNCHANGED <<accepted, replay, repeated, inForce>>
              /\ timer' = timer \/ timer' = [timer EXCEPT ![n] = @ + 1]
            BY <2>6 DEF Routing!Send, Routing!ghosts
        <3>2. timer \in [Node -> Nat]
            BY DEF NonceInv, RoutingTypes
        <3>3. \A m \in Node : timer[m] <= timer'[m]
            BY <3>1, <3>2
        <3> HIDE DEF NonceInv, OnceInv
        <3> QED
            BY <2>2, <2>6, <3>1, <3>3
    <2>7. ASSUME NEW n \in Node,
                 \/ Routing!Restart(n)
                 \/ \E written \in {"nothing", "marker", "reservation", "all"} : Routing!Configure(n, written)
          PROVE  OnceInv'
        <3>1. /\ UNCHANGED <<repeated, frames>>
              /\ accepted' = [accepted EXCEPT ![n] = {}] /\ replay' = [replay EXCEPT ![n] = {}]
              /\ \A m \in Node : m # n => inForce'[m] = inForce[m] /\ timer'[m] = timer[m]
            BY <2>7 DEF Routing!Restart, Routing!Configure, Routing!network, NonceInv, RoutingTypes
        <3>2. \A m \in Node : HandsNothingOn(m)
            BY <2>1, <3>1 DEF OnceInv, HandsNothingOn
        <3> QED
            BY <3>1, <3>2, NothingHandedOn DEF OnceInv
    <2>8. ASSUME NEW n \in Node,
                 \/ \E tag \in 1 .. MaxTag : Routing!Notify(n, tag)
                 \/ \E c \in [key : Key, group : Group] : Routing!Rekey(n, c)
          PROVE  OnceInv'
        <3>1. UNCHANGED <<accepted, replay, repeated, frames, inForce, timer>>
            BY <2>8 DEF Routing!Notify, Routing!Rekey, Routing!ghosts, Routing!network, Routing!clock
        <3> QED
            BY <2>1, <2>2, <3>1
    <2>9. ASSUME NEW n \in Node, NEW m, Routing!CannotFollow(n, m) PROVE OnceInv'
        <3>1. /\ UNCHANGED <<accepted, replay, repeated, frames, timer>>
              /\ inForce' = [inForce EXCEPT ![n] = Routing!Unconfigured]
            BY <2>9 DEF Routing!CannotFollow, Routing!ReserveFails, Routing!ghosts, Routing!network
        <3> QED
            BY <2>1, <2>2, <3>1 DEF NonceInv, RoutingTypes
    <2>10. ASSUME NEW n \in Node, Routing!HearNotification(n) PROVE OnceInv'
        <3>1. /\ UNCHANGED <<accepted, replay, repeated, frames, inForce>>
              /\ \/ timer' = timer
                 \/ notification.timer > timer[n] /\ timer' = [timer EXCEPT ![n] = notification.timer]
            BY <2>10 DEF Routing!HearNotification, Routing!Synchronize, Routing!ghosts, Routing!network
        <3>2. notification.timer \in Nat
            BY DEF NonceInv, RoutingTypes
        <3>3. \A m \in Node : timer[m] <= timer'[m]
            BY <2>1, <3>1, <3>2 DEF NonceInv, RoutingTypes
        <3> QED
            BY <2>2, <3>1, <3>3
    <2> HIDE DEF NonceInv, OnceInv
    <2> QED
        BY <2>3, <2>4, <2>5, <2>6, <2>7, <2>8, <2>9, <2>10, HearOnce DEF Routing!Next
<1>3. OnceInv => AcceptedOnce
    BY DEF OnceInv
<1> QED
    BY <1>1, <1>2, <1>3, NonceInvariant, PTL DEF Routing!Spec

=============================================================================
