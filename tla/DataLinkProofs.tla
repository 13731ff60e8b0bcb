---------------------------- MODULE DataLinkProofs ----------------------------
(***************************************************************************)
(* Below the network layer, for any telegrams and any bounds.              *)
(* The radio: what is handed up has been read whole, and a packet of one   *)
(* refill is sent whole, however many octets go over the air between two   *)
(* calls of loop().                                                        *)
(* The cEMI server: while both senders use addresses of their own, the     *)
(* confirmations of the local stack are those of its frames.               *)
(***************************************************************************)
EXTENDS MCDataLink, FiniteSetTheorems, TLAPS

-----------------------------------------------------------------------------
(* The radio *)

Cpu == [syncStart : BOOLEAN, packetStart : BOOLEAN, fixedLengthMode : BOOLEAN,
        prev0 : BOOLEAN, prev2 : BOOLEAN, pktLen : Int, bytesLeft : Int,
        aligned : BOOLEAN, wait : Int]

Chip == [mode : {"idle", "rx", "hung", "overflow", "tx", "underflow"}, length : Int, done : Int,
         moved : Int, gdo0 : BOOLEAN, spoilt : BOOLEAN]

\* The packet has not ended yet, or has just ended: in infinite length mode the octets
\* that are left are more than the FIFO holds, in fixed length mode the counter of the
\* chip does not wrap around before the end.
Reading(p, c) ==
    /\ c.moved <= c.done /\ c.done <= c.moved + 64 /\ c.done <= c.length
    /\ c.mode = "idle" <=> c.done = c.length
    /\ p.fixedLengthMode => c.length - c.done <= 256
    /\ ~p.fixedLengthMode => c.length - c.moved >= 225

\* The packet was over before its length was read.  The FIFO stays above its threshold
\* until it overflows, so nothing more is read.
Missed(p, c) ==
    /\ p.fixedLengthMode /\ p.prev2
    /\ c.moved = 2 /\ c.done >= c.length /\ c.done <= 66 /\ c.mode # "idle"

RxInv(p, c) ==
    /\ c.mode \in {"rx", "hung", "overflow", "idle"}
    /\ c.mode = "hung" => c.gdo0
    /\ c.mode = "rx" /\ c.length # 0 => c.gdo0
    /\ c.length = 0 => c.mode = "rx" /\ c.done = 0 /\ c.moved = 0 /\ p.packetStart
    /\ c.length # 0 => c.length >= 40
    /\ p.packetStart => ~p.fixedLengthMode /\ c.mode # "idle" /\ 0 <= c.moved /\ c.moved <= c.done
    /\ p.packetStart /\ c.moved = 0 => c.done <= 64
    /\ p.aligned /\ ~p.packetStart =>
          /\ p.pktLen = c.length /\ p.bytesLeft = c.length - c.moved
          /\ Reading(p, c) \/ Missed(p, c)

\* A reception that is resumed in the middle is not aligned.
StartInv(c) == c.mode = "rx" => c.length >= 40 /\ c.gdo0 /\ c.moved >= 2 /\ c.moved <= c.done

EndInv(p, c) == c.mode = "idle" /\ (p.aligned => c.moved = c.length /\ c.done = c.length)

\* Of a packet that takes one refill, which is at most what is free when it is due.
TxInv(p, c, telegram) ==
    /\ c.mode \in {"tx", "underflow", "idle"}
    /\ c.length \in 1 .. 96 =>
          /\ c.length = Radio!Encoded(Radio!PacketLength(telegram))
          /\ p.fixedLengthMode /\ ~c.spoilt
          /\ p.bytesLeft \in 0 .. 32 /\ c.moved + p.bytesLeft = c.length
          /\ 0 <= c.done /\ c.done <= c.moved
          /\ c.mode = "tx" => c.done < c.length /\ c.moved <= c.done + 64
          /\ c.mode = "idle" => c.done = c.length

StateInv(state, p, c, telegram) ==
    /\ state = "RX_START" => StartInv(c)
    /\ state = "RX_ACTIVE" => RxInv(p, c)
    /\ state = "RX_END" => EndInv(p, c)
    /\ state = "TX_START" => c.mode = "idle"
    /\ state \in {"TX_ACTIVE", "TX_END"} => TxInv(p, c, telegram)

RadioInv ==
    /\ radioQueue \in Seq(TelegramLengths) /\ cpu \in Cpu /\ chip \in Chip
    /\ loopState \in {"RX_START", "RX_ACTIVE", "RX_END", "TX_START", "TX_ACTIVE", "TX_END"}
    /\ StateInv(loopState, cpu, chip, sendBuffer)

-----------------------------------------------------------------------------
\* Where the counter of the chip, at m, agrees with the length register again.
Agrees(m, n, i) == /\ (m + i) % 256 = n % 256
                   /\ \A j \in 1 .. (i - 1) : (m + j) % 256 # n % 256

LEMMA WrapAround ==
    ASSUME NEW m \in Int, NEW n \in Int
    PROVE  \E i \in 1 .. 256 : Agrees(m, n, i)
<1> DEFINE k == ((n - m - 1) % 256) + 1
<1>1. k \in 1 .. 256  OBVIOUS
<1>2. (m + k) % 256 = n % 256  OBVIOUS
<1>3. \A j \in 1 .. (k - 1) : (m + j) % 256 # n % 256  OBVIOUS
<1> HIDE DEF k
<1>4. Agrees(m, n, k)  BY <1>2, <1>3 DEF Agrees
<1> QED  BY <1>1, <1>4

LEMMA EndOfLength ==
    ASSUME NEW c \in Chip, NEW n \in Int
    PROVE  LET end == Radio!EndOf(c, n)
           IN  /\ end \in Int /\ c.done < end /\ end <= c.done + 256 /\ end % 256 = n % 256
               /\ \A j \in 1 .. (end - c.done - 1) : (c.done + j) % 256 # n % 256
<1>1. c.done \in Int  BY DEF Chip
<1> DEFINE i == CHOOSE i \in 1 .. 256 : Agrees(c.done, n, i)
<1>2. \E k \in 1 .. 256 : Agrees(c.done, n, k)  BY <1>1, WrapAround
<1>3. i \in 1 .. 256 /\ Agrees(c.done, n, i)  BY <1>2
<1>4. Radio!EndOf(c, n) = c.done + i  BY DEF Radio!EndOf, Agrees
<1> HIDE DEF i
<1> QED  BY <1>1, <1>3, <1>4 DEF Agrees
\* What has come in since: the packet has ended where it ends, or the FIFO has overflowed.
LEMMA ReceivedKeeps ==
    ASSUME cpu \in Cpu, NEW c \in Chip, RxInv(cpu, c), c.mode = "rx", c.length # 0,
           NEW k \in Nat \ {0}, NEW d \in Radio!Received(c, k)
    PROVE  d \in Chip /\ RxInv(cpu, d)
<1> DEFINE ends == Radio!EndsWithin(c, k, cpu.pktLen)
           end  == IF ends THEN Radio!EndOf(c, cpu.pktLen) ELSE c.done + k
<1>1. /\ c.done \in Int /\ c.moved \in Int /\ c.length \in Int /\ c.length >= 40 /\ c.gdo0
      /\ cpu.pktLen \in Int /\ cpu.bytesLeft \in Int
  BY DEF Cpu, Chip, RxInv
<1>2. end \in Int /\ c.done < end
  BY <1>1, EndOfLength, SMTT(60)
<1>3. ~ends => end = c.done + k  OBVIOUS
<1>4. ends => cpu.fixedLengthMode  BY DEF Radio!EndsWithin
<1>5. ends => end % 256 = cpu.pktLen % 256 /\ end <= c.done + 256
  BY <1>1, EndOfLength
<1>6. cpu.fixedLengthMode /\ cpu.pktLen - c.done \in 1 .. 256 /\ ~ends => end < cpu.pktLen
  <2> SUFFICES ASSUME cpu.fixedLengthMode, cpu.pktLen - c.done \in 1 .. k PROVE ends
    BY <1>1, <1>3
  <2>1. (c.done + (cpu.pktLen - c.done)) % 256 = cpu.pktLen % 256  BY <1>1
  <2> QED  BY <2>1 DEF Radio!EndsWithin
<1>7. \/ /\ end - c.moved > 64
         /\ \/ d = [c EXCEPT !.done = c.moved + 64, !.mode = "overflow", !.gdo0 = FALSE]
            \/ d = [c EXCEPT !.done = c.moved + 64, !.mode = "hung"]
      \/ end - c.moved <= 64 /\ ends /\ d = [c EXCEPT !.done = end, !.mode = "idle", !.gdo0 = FALSE]
      \/ end - c.moved <= 64 /\ ~ends /\ d = [c EXCEPT !.done = end]
  <2> HIDE DEF end
  <2>1. d \in IF end - c.moved > 64
              THEN {Radio!Stopped([c EXCEPT !.done = c.moved + 64], "overflow"),
                    [c EXCEPT !.mode = "hung", !.done = c.moved + 64]}
              ELSE {IF ends THEN Radio!Stopped([c EXCEPT !.done = end], "idle")
                            ELSE [c EXCEPT !.done = end]}
    BY DEF Radio!Received, Radio!FifoSize, end
  <2>2. end - c.moved > 64 \/ end - c.moved <= 64  BY <1>1, <1>2
  <2> QED  BY <2>1, <2>2 DEF Radio!Stopped
<1> HIDE DEF ends, end
<1>8. d \in Chip /\ d.length = c.length /\ d.moved = c.moved
  <2>1. c.moved + 64 \in Int  BY <1>1
  <2>2. ASSUME NEW m \in Int, d = [c EXCEPT !.done = m, !.mode = "overflow", !.gdo0 = FALSE]
        PROVE  d \in Chip /\ d.length = c.length /\ d.moved = c.moved
    BY <2>2 DEF Chip
  <2>3. ASSUME NEW m \in Int, d = [c EXCEPT !.done = m, !.mode = "hung"]
        PROVE  d \in Chip /\ d.length = c.length /\ d.moved = c.moved
    BY <2>3 DEF Chip
  <2>4. ASSUME NEW m \in Int, \/ d = [c EXCEPT !.done = m, !.mode = "idle", !.gdo0 = FALSE]
                              \/ d = [c EXCEPT !.done = m]
        PROVE  d \in Chip /\ d.length = c.length /\ d.moved = c.moved
    BY <2>4, ZenonT(60) DEF Chip
  <2> QED  BY <1>2, <1>7, <2>1, <2>2, <2>3, <2>4
<1>9. \/ end - c.moved > 64 /\ d.done = c.moved + 64 /\ d.mode = "overflow"
      \/ end - c.moved > 64 /\ d.done = c.moved + 64 /\ d.mode = "hung" /\ d.gdo0
      \/ end - c.moved <= 64 /\ ends /\ d.done = end /\ d.mode = "idle"
      \/ end - c.moved <= 64 /\ ~ends /\ d.done = end /\ d.mode = "rx" /\ d.gdo0
  BY <1>1, <1>7 DEF Chip
<1>10. cpu.packetStart =>
         /\ ~cpu.fixedLengthMode /\ d.mode # "idle" /\ 0 <= d.moved /\ d.moved <= d.done
         /\ d.moved = 0 => d.done <= 64
  BY <1>1, <1>2, <1>4, <1>8, <1>9 DEF RxInv
<1>11. ASSUME cpu.aligned, ~cpu.packetStart, Reading(cpu, c)  PROVE Reading(cpu, d)
  <2>1. cpu.pktLen = c.length  BY <1>11 DEF RxInv
  <2>2. c.done < c.length /\ c.moved <= c.done /\ c.done <= c.moved + 64
    BY <1>1, <1>11 DEF Reading
  <2>3. CASE cpu.fixedLengthMode
    <3>1. c.length - c.done \in 1 .. 256  BY <1>1, <1>11, <2>2, <2>3 DEF Reading
    <3>2. ends => end = c.length  BY <1>1, <1>2, <1>5, <2>1, <3>1
    <3>3. ~ends => end < c.length  BY <1>6, <2>1, <2>3, <3>1
    <3> QED  BY <1>1, <1>2, <1>8, <1>9, <2>2, <2>3, <3>1, <3>2, <3>3 DEF Reading
  <2>4. CASE ~cpu.fixedLengthMode
    <3>1. c.length - c.moved >= 225  BY <1>11, <2>4 DEF Reading
    <3> QED  BY <1>1, <1>2, <1>4, <1>8, <1>9, <2>2, <2>4, <3>1 DEF Reading
  <2> QED  BY <2>3, <2>4
<1>12. ASSUME cpu.aligned, ~cpu.packetStart, Missed(cpu, c)  PROVE Missed(cpu, d)
  <2>1. cpu.pktLen = c.length /\ c.moved = 2 /\ c.done >= c.length /\ c.done <= 66
    BY <1>12 DEF RxInv, Missed
  <2>2. ends => end >= c.length + 256  BY <1>1, <1>2, <1>5, <2>1
  <2>3. ~ends \/ end - c.moved > 64  BY <1>1, <1>2, <2>1, <2>2
  <2> QED  BY <1>1, <1>2, <1>8, <1>9, <1>12, <2>1, <2>3 DEF Missed
<1>13. cpu.aligned /\ ~cpu.packetStart =>
          /\ cpu.pktLen = d.length /\ cpu.bytesLeft = d.length - d.moved
          /\ Reading(cpu, d) \/ Missed(cpu, d)
  BY <1>8, <1>11, <1>12 DEF RxInv
<1>14. /\ d.mode \in {"rx", "hung", "overflow", "idle"}
       /\ d.mode = "hung" => d.gdo0
       /\ d.mode = "rx" /\ d.length # 0 => d.gdo0
       /\ d.length # 0 /\ d.length >= 40
  BY <1>1, <1>8, <1>9
<1> QED  BY <1>8, <1>10, <1>13, <1>14 DEF RxInv

\* What has gone out since: the packet to its end, or all that was in the FIFO.
LEMMA TransmittedKeeps ==
    ASSUME cpu \in Cpu, NEW telegram, NEW c \in Chip, c.mode = "tx", NEW k \in Nat \ {0}
    PROVE  /\ Radio!Transmitted(c, k) \in Chip /\ Radio!Transmitted(c, k).mode # "rx"
           /\ TxInv(cpu, c, telegram) => TxInv(cpu, Radio!Transmitted(c, k), telegram)
<1> DEFINE d    == Radio!Transmitted(c, k)
           ends == Radio!EndsWithin(c, k, c.length)
           end  == IF ends THEN Radio!EndOf(c, c.length) ELSE c.done + k
<1>1. /\ c.done \in Int /\ c.moved \in Int /\ c.length \in Int
      /\ cpu.bytesLeft \in Int
  BY DEF Cpu, Chip
<1>2. end \in Int /\ c.done < end
  BY <1>1, EndOfLength
<1>3. ~ends => end = c.done + k  OBVIOUS
<1>4. ends => end % 256 = c.length % 256 /\ end <= c.done + 256
  BY <1>1, EndOfLength
<1>5. cpu.fixedLengthMode /\ c.length - c.done \in 1 .. 256 /\ ~ends => end < c.length
  <2> SUFFICES ASSUME cpu.fixedLengthMode, c.length - c.done \in 1 .. k PROVE ends
    BY <1>1, <1>3
  <2>1. (c.done + (c.length - c.done)) % 256 = c.length % 256  BY <1>1
  <2> QED  BY <2>1 DEF Radio!EndsWithin
<1>6. \/ end > c.moved /\ d = [c EXCEPT !.done = c.moved, !.mode = "underflow", !.gdo0 = FALSE]
      \/ end <= c.moved /\ ends /\ d = [c EXCEPT !.done = end, !.mode = "idle", !.gdo0 = FALSE]
      \/ end <= c.moved /\ ~ends /\ d = [c EXCEPT !.done = end, !.gdo0 = TRUE]
  <2> HIDE DEF end
  <2>1. d = IF end > c.moved
            THEN Radio!Stopped([c EXCEPT !.done = c.moved], "underflow")
            ELSE IF ends THEN Radio!Stopped([c EXCEPT !.done = end], "idle")
                         ELSE [c EXCEPT !.done = end, !.gdo0 = TRUE]
    BY DEF Radio!Transmitted, end
  <2>2. end > c.moved \/ end <= c.moved  BY <1>1, <1>2
  <2> QED  BY <2>1, <2>2 DEF Radio!Stopped
<1> HIDE DEF d, ends, end
<1>7. d \in Chip /\ d.length = c.length /\ d.moved = c.moved /\ d.spoilt = c.spoilt
  BY <1>1, <1>2, <1>6, ZenonT(60) DEF Chip
<1>8. \/ end > c.moved /\ d.done = c.moved /\ d.mode = "underflow"
      \/ end <= c.moved /\ ends /\ d.done = end /\ d.mode = "idle"
      \/ end <= c.moved /\ ~ends /\ d.done = end /\ d.mode = "tx"
  BY <1>1, <1>6 DEF Chip
<1>9. ASSUME TxInv(cpu, c, telegram), c.length \in 1 .. 96
      PROVE  /\ 0 <= d.done /\ d.done <= d.moved
             /\ d.mode = "tx" => d.done < d.length /\ d.moved <= d.done + 64
             /\ d.mode = "idle" => d.done = d.length
  <2>1. cpu.fixedLengthMode /\ c.length - c.done \in 1 .. 256 /\ 0 <= c.done /\ c.done <= c.moved
    <3>1. cpu.fixedLengthMode /\ 0 <= c.done /\ c.done <= c.moved /\ c.done < c.length
      BY <1>9 DEF TxInv
    <3> QED  BY <1>1, <1>9, <3>1
  <2> c.moved <= c.done + 64  BY <1>9 DEF TxInv
  <2>2. ends => end = c.length  BY <1>1, <1>2, <1>4, <1>9, <2>1
  <2>3. ~ends => end < c.length  BY <1>5, <2>1
  <2> QED  BY <1>1, <1>2, <1>7, <1>8, <1>9, <2>1, <2>2, <2>3
<1>10. TxInv(cpu, c, telegram) => TxInv(cpu, d, telegram)  BY <1>7, <1>8, <1>9 DEF TxInv
<1>11. d \in Chip /\ d.mode # "rx"  BY <1>7, <1>8
<1> QED  BY <1>10, <1>11 DEF d

-----------------------------------------------------------------------------
(* Steps of the radio *)

LEMMA LengthFacts ==
    ASSUME NEW t \in TelegramLengths
    PROVE  /\ t \in Nat /\ Radio!PacketLength(t) \in Nat /\ Radio!PacketLength(t) >= 20
           /\ Radio!PacketSize(Radio!LengthField(t)) \in Int
<1>1. t \in Nat /\ t >= 7  BY RadioAssumption DEF Radio!RfAssumption
<1>2. (t + 15) \div 16 \in Nat /\ (t + 15) \div 16 >= 1  BY <1>1
<1>3. (9 + t - 10) \div 16 \in Int  BY <1>1
<1> QED  BY <1>1, <1>2, <1>3 DEF Radio!PacketLength, Radio!PacketSize, Radio!LengthField

LEMMA StepFacts == Radio!Steps \subseteq Nat \ {0}
BY RadioAssumption DEF Radio!Steps, Radio!RfAssumption

\* The clock and the edges seen on GDO0 do not matter.
SameReading(p, q) ==
    /\ p \in Cpu /\ q \in Cpu
    /\ q.packetStart = p.packetStart /\ q.fixedLengthMode = p.fixedLengthMode /\ q.prev2 = p.prev2
    /\ q.pktLen = p.pktLen /\ q.bytesLeft = p.bytesLeft /\ q.aligned = p.aligned

LEMMA SameReadingKeeps ==
    ASSUME NEW p, NEW q, SameReading(p, q), NEW state, NEW c, NEW telegram,
           StateInv(state, p, c, telegram)
    PROVE  StateInv(state, q, c, telegram)
BY DEF SameReading, StateInv, RxInv, EndInv, TxInv, Reading, Missed

LEMMA BetweenKeeps ==
    ASSUME RadioInv, NEW k \in Nat \ {0}, NEW d \in Chip, Radio!Between(k, d),
           StateInv(loopState, cpu, d, sendBuffer)
    PROVE  RadioInv'
<1>1. SameReading(cpu, cpu')
  <2>1. PICK w : w \in Int /\ cpu' = [cpu EXCEPT !.wait = w]
    <3>1. cpu.wait \in Int  BY DEF RadioInv, Cpu
    <3>2. (IF cpu.syncStart THEN Radio!Smaller(cpu.wait + k, Radio!PacketTimeout + 1) ELSE 0) \in Int
      BY <3>1 DEF Radio!Smaller, Radio!PacketTimeout
    <3> QED  BY <3>2 DEF Radio!Between
  <2> QED  BY <2>1 DEF SameReading, RadioInv, Cpu
<1>2. UNCHANGED <<radioQueue, loopState, sendBuffer>> /\ chip' = d  BY DEF Radio!Between
<1>3. StateInv(loopState, cpu', d, sendBuffer)  BY <1>1, SameReadingKeeps
<1>4. cpu' \in Cpu  BY <1>1 DEF SameReading
<1> QED  BY <1>2, <1>3, <1>4 DEF RadioInv

LEMMA ChipWaitsKeeps == RadioInv /\ Radio!ChipWaits => RadioInv'
<1> SUFFICES ASSUME RadioInv, Radio!ChipWaits PROVE RadioInv'  OBVIOUS
<1>1. PICK k \in Radio!Steps : Radio!Between(k, chip)  BY DEF Radio!ChipWaits
<1> QED  BY <1>1, StepFacts, BetweenKeeps DEF RadioInv

\* In RX_START, of a reception that is resumed
LEMMA ResumedKeeps ==
    ASSUME cpu \in Cpu, NEW c \in Chip, StartInv(c), c.mode = "rx",
           NEW k \in Nat \ {0}, NEW d \in Radio!Received(c, k)
    PROVE  d \in Chip /\ StartInv(d)
<1> DEFINE ends == Radio!EndsWithin(c, k, cpu.pktLen)
           end  == IF ends THEN Radio!EndOf(c, cpu.pktLen) ELSE c.done + k
<1>1. /\ c.done \in Int /\ c.moved \in Int /\ c.length \in Int /\ c.length >= 40
      /\ c.gdo0 /\ c.moved >= 2 /\ c.moved <= c.done /\ cpu.pktLen \in Int
  BY DEF Cpu, Chip, StartInv
<1>2. end \in Int /\ c.done < end
  BY <1>1, EndOfLength
<1>3. d \in IF end - c.moved > 64
            THEN {Radio!Stopped([c EXCEPT !.done = c.moved + 64], "overflow"),
                  [c EXCEPT !.mode = "hung", !.done = c.moved + 64]}
            ELSE {IF ends THEN Radio!Stopped([c EXCEPT !.done = end], "idle")
                          ELSE [c EXCEPT !.done = end]}
  BY DEF Radio!Received, Radio!FifoSize
<1> HIDE DEF ends, end
<1>4. c.moved + 64 \in Int  BY <1>1
<1>5. ASSUME NEW m \in Int, d = Radio!Stopped([c EXCEPT !.done = m], "overflow")
      PROVE  d \in Chip /\ StartInv(d)
  BY <1>5 DEF Chip, Radio!Stopped, StartInv
<1>6. ASSUME NEW m \in Int, d = [c EXCEPT !.mode = "hung", !.done = m]
      PROVE  d \in Chip /\ StartInv(d)
  BY <1>6 DEF Chip, StartInv
<1>7. ASSUME NEW m \in Int, d = Radio!Stopped([c EXCEPT !.done = m], "idle")
      PROVE  d \in Chip /\ StartInv(d)
  BY <1>7 DEF Chip, Radio!Stopped, StartInv
<1>8. ASSUME NEW m \in Int, c.done < m, d = [c EXCEPT !.done = m]
      PROVE  d \in Chip /\ StartInv(d)
  <2>1. d \in Chip  BY <1>8 DEF Chip
  <2>2. d.length = c.length /\ d.gdo0 = c.gdo0 /\ d.moved = c.moved /\ d.done = m
    BY <1>8 DEF Chip
  <2> QED  BY <1>1, <1>8, <2>1, <2>2 DEF StartInv
<1> QED  BY <1>2, <1>3, <1>4, <1>5, <1>6, <1>7, <1>8

LEMMA ChipReceivesKeeps == RadioInv /\ Radio!ChipReceives => RadioInv'
<1> SUFFICES ASSUME RadioInv, Radio!ChipReceives PROVE RadioInv'  OBVIOUS
<1>1. PICK k \in Radio!Steps : \E d \in Radio!Received(chip, k) : Radio!Between(k, d)
  BY DEF Radio!ChipReceives
<1>2. PICK d \in Radio!Received(chip, k) : Radio!Between(k, d)  BY <1>1
<1>3. chip.mode = "rx" /\ chip.length > 0  BY DEF Radio!ChipReceives
<1>4. k \in Nat \ {0} /\ cpu \in Cpu /\ chip \in Chip  BY StepFacts DEF RadioInv
<1>5. CASE loopState = "RX_START"
  <2>1. StartInv(chip)  BY <1>5 DEF RadioInv, StateInv
  <2>2. d \in Chip /\ StartInv(d)  BY <1>3, <1>4, <2>1, ResumedKeeps
  <2>3. StateInv(loopState, cpu, d, sendBuffer)  BY <1>5, <2>2 DEF StateInv
  <2> QED  BY <1>2, <1>4, <2>2, <2>3, BetweenKeeps
<1>6. CASE loopState = "RX_ACTIVE"
  <2>1. RxInv(cpu, chip)  BY <1>6 DEF RadioInv, StateInv
  <2>2. chip.length # 0  BY <1>3, <1>4 DEF Chip
  <2>3. d \in Chip /\ RxInv(cpu, d)  BY <1>3, <1>4, <2>1, <2>2, ReceivedKeeps
  <2>4. StateInv(loopState, cpu, d, sendBuffer)  BY <1>6, <2>3 DEF StateInv
  <2> QED  BY <1>2, <1>4, <2>3, <2>4, BetweenKeeps
<1> QED  BY <1>3, <1>5, <1>6 DEF RadioInv, StateInv, EndInv, TxInv

LEMMA PacketComesInKeeps == RadioInv /\ Radio!PacketComesIn => RadioInv'
<1> SUFFICES ASSUME RadioInv, Radio!PacketComesIn PROVE RadioInv'  OBVIOUS
<1>1. PICK k \in Radio!Steps, n \in Radio!PacketLengths :
        \E d \in Radio!Received([chip EXCEPT !.length = 2 * n, !.gdo0 = TRUE], k) : Radio!Between(k, d)
  BY DEF Radio!PacketComesIn
<1> DEFINE c == [chip EXCEPT !.length = 2 * n, !.gdo0 = TRUE]
<1>2. PICK d \in Radio!Received(c, k) : Radio!Between(k, d)  BY <1>1
<1>3. chip.mode = "rx" /\ chip.length = 0  BY DEF Radio!PacketComesIn
<1>4. k \in Nat \ {0} /\ cpu \in Cpu /\ chip \in Chip  BY StepFacts DEF RadioInv
<1>5. 2 * n \in Int /\ 2 * n >= 40  BY LengthFacts DEF Radio!PacketLengths
<1>6. loopState = "RX_ACTIVE"
  BY <1>3 DEF RadioInv, StateInv, StartInv, EndInv, TxInv
<1>7. /\ RxInv(cpu, chip) /\ chip.done = 0 /\ chip.moved = 0
      /\ cpu.packetStart /\ ~cpu.fixedLengthMode
  BY <1>3, <1>6 DEF RadioInv, StateInv, RxInv
<1>8. /\ c \in Chip /\ c.mode = "rx" /\ c.length = 2 * n /\ c.gdo0 /\ c.done = 0 /\ c.moved = 0
  BY <1>3, <1>4, <1>5, <1>7 DEF Chip
<1> HIDE DEF c
<1>9. RxInv(cpu, c) /\ c.length # 0  BY <1>5, <1>7, <1>8 DEF RxInv
<1>10. d \in Chip /\ RxInv(cpu, d)  BY <1>4, <1>8, <1>9, ReceivedKeeps
<1>11. StateInv(loopState, cpu, d, sendBuffer)  BY <1>6, <1>10 DEF StateInv
<1> QED  BY <1>2, <1>4, <1>10, <1>11, BetweenKeeps

LEMMA ChipSendsKeeps == RadioInv /\ Radio!ChipSends => RadioInv'
<1> SUFFICES ASSUME RadioInv, Radio!ChipSends PROVE RadioInv'  OBVIOUS
<1>1. PICK k \in Radio!Steps : Radio!Between(k, Radio!Transmitted(chip, k))
  BY DEF Radio!ChipSends
<1> DEFINE d == Radio!Transmitted(chip, k)
<1>2. chip.mode = "tx"  BY DEF Radio!ChipSends
<1>3. k \in Nat \ {0} /\ cpu \in Cpu /\ chip \in Chip  BY StepFacts DEF RadioInv
<1>4. d \in Chip /\ StateInv(loopState, cpu, d, sendBuffer)
  <2>1. CASE loopState \in {"TX_ACTIVE", "TX_END"}
    <3>1. TxInv(cpu, chip, sendBuffer)  BY <2>1 DEF RadioInv, StateInv
    <3>2. d \in Chip /\ TxInv(cpu, d, sendBuffer)  BY <1>2, <1>3, <3>1, TransmittedKeeps
    <3> QED  BY <2>1, <3>2 DEF StateInv
  <2>2. CASE loopState = "RX_START"
    <3>1. d \in Chip /\ d.mode # "rx"  BY <1>2, <1>3, TransmittedKeeps
    <3> QED  BY <2>2, <3>1 DEF StateInv, StartInv
  <2> QED  BY <1>2, <2>1, <2>2 DEF RadioInv, StateInv, RxInv, EndInv
<1> HIDE DEF d
<1> QED  BY <1>1, <1>3, <1>4, BetweenKeeps DEF d

-----------------------------------------------------------------------------
(* Calls of loop() *)

\* What RX_ACTIVE leaves when the packet is not over
LEMMA EdgeKeeps ==
    ASSUME RadioInv, loopState = "RX_ACTIVE", NEW r \in Radio!AfterGdo2
    PROVE  /\ r[1] \in Cpu /\ r[2] \in Int
           /\ [chip EXCEPT !.moved = @ + r[2]] \in Chip
           /\ RxInv(r[1], [chip EXCEPT !.moved = @ + r[2]])
<1>1. /\ cpu \in Cpu /\ chip \in Chip /\ RxInv(cpu, chip)
  BY DEF RadioInv, StateInv
<1>2. /\ chip.done \in Int /\ chip.moved \in Int /\ chip.length \in Int
      /\ cpu.pktLen \in Int /\ cpu.bytesLeft \in Int
  BY <1>1 DEF Cpu, Chip
<1>3. /\ cpu.packetStart \in BOOLEAN /\ cpu.fixedLengthMode \in BOOLEAN /\ cpu.prev2 \in BOOLEAN
      /\ cpu.aligned \in BOOLEAN
  BY <1>1 DEF Cpu
<1>4. Radio!Gdo2(chip, cpu) <=> chip.done - chip.moved >= IF cpu.packetStart THEN 4 ELSE 32
  <2>1. chip.mode \notin {"tx", "underflow"}  BY <1>1 DEF RxInv
  <2> QED  BY <2>1 DEF Radio!Gdo2, Radio!InFifo, Radio!RxThreshold
<1>5. Radio!Gdo2(chip, cpu) \in BOOLEAN
  <2>1. CASE chip.mode \in {"tx", "underflow"}  BY <2>1 DEF Radio!Gdo2
  <2>2. CASE chip.mode \notin {"tx", "underflow"}  BY <2>2 DEF Radio!Gdo2
  <2> QED  BY <2>1, <2>2
<1>6. ASSUME NEW p \in Cpu, NEW m \in Int, r = <<p, m>>,
             RxInv(p, [chip EXCEPT !.moved = @ + m])
      PROVE  /\ r[1] \in Cpu /\ r[2] \in Int
             /\ [chip EXCEPT !.moved = @ + r[2]] \in Chip
             /\ RxInv(r[1], [chip EXCEPT !.moved = @ + r[2]])
  <2>1. r[1] = p /\ r[2] = m  BY <1>6
  <2>2. chip.moved + m \in Int  BY <1>2
  <2>3. [chip EXCEPT !.moved = @ + m] \in Chip  BY <1>1, <2>2 DEF Chip
  <2> QED  BY <1>6, <2>1, <2>3
\* No edge
<1>7. CASE ~Radio!Rises2
  <2> DEFINE p == [cpu EXCEPT !.prev2 = Radio!Gdo2(chip, cpu)]
  <2>1. r = <<p, 0>>  BY <1>7 DEF Radio!AfterGdo2
  <2>2. [chip EXCEPT !.moved = @ + 0] = chip  BY <1>1, <1>2 DEF Chip
  <2>3. /\ p \in Cpu /\ p.packetStart = cpu.packetStart /\ p.fixedLengthMode = cpu.fixedLengthMode
        /\ p.aligned = cpu.aligned /\ p.pktLen = cpu.pktLen /\ p.bytesLeft = cpu.bytesLeft
        /\ p.prev2 = Radio!Gdo2(chip, cpu)
    BY <1>1, <1>5 DEF Cpu
  <2> HIDE DEF p
  <2>4. ASSUME Missed(cpu, chip), ~cpu.packetStart  PROVE Missed(p, chip)
    <3>1. chip.length # 0  BY <1>1, <2>4 DEF RxInv
    <3>2. chip.length >= 40  BY <1>1, <3>1 DEF RxInv
    <3>3. chip.done >= chip.length /\ chip.moved = 2  BY <2>4 DEF Missed
    <3>4. chip.done - chip.moved >= 32  BY <1>2, <3>2, <3>3
    <3>5. Radio!Gdo2(chip, cpu)  BY <1>4, <2>4, <3>4
    <3> QED  BY <2>3, <2>4, <3>5 DEF Missed
  <2>5. Reading(cpu, chip) => Reading(p, chip)  BY <2>3 DEF Reading
  <2>6. RxInv(p, chip)  BY <1>1, <2>3, <2>4, <2>5 DEF RxInv
  <2> QED  BY <1>6, <2>1, <2>2, <2>3, <2>6
\* The length
<1>8. CASE Radio!Rises2 /\ cpu.packetStart
  <2>1. PICK n \in Radio!LengthsRead : r = <<Radio!FirstRead(n), 2>>
    BY <1>8 DEF Radio!AfterGdo2
  <2> DEFINE p == Radio!FirstRead(n)
             c == [chip EXCEPT !.moved = @ + 2]
  <2>2. n \in Int
    <3>1. \A m \in Radio!PacketLengths : 2 * m \in Int  BY LengthFacts DEF Radio!PacketLengths
    <3> QED  BY <1>2, <3>1 DEF Radio!LengthsRead
  <2>3. chip.moved = 0 => n = chip.length  BY DEF Radio!LengthsRead
  <2>4. (n < 256) \in BOOLEAN /\ n - 2 \in Int /\ (chip.moved = 0) \in BOOLEAN  BY <2>2
  <2>5. /\ p \in Cpu /\ ~p.packetStart /\ (p.fixedLengthMode <=> n < 256)
        /\ (p.aligned <=> chip.moved = 0) /\ p.pktLen = n /\ p.bytesLeft = n - 2 /\ p.prev2
    <3> DEFINE short == n < 256
               first == chip.moved = 0
               rest  == n - 2
    <3>2. p = [cpu EXCEPT !.prev2 = TRUE, !.pktLen = n, !.bytesLeft = rest,
                          !.packetStart = FALSE, !.fixedLengthMode = short, !.aligned = first]
      BY DEF Radio!FirstRead
    <3>3. short \in BOOLEAN /\ first \in BOOLEAN /\ rest \in Int  BY <2>4
    <3> HIDE DEF p, short, first, rest
    <3>4. /\ p \in Cpu /\ ~p.packetStart /\ p.fixedLengthMode = short
          /\ p.aligned = first /\ p.pktLen = n /\ p.bytesLeft = rest /\ p.prev2
      BY <1>1, <2>2, <3>2, <3>3 DEF Cpu
    <3> QED  BY <3>4 DEF short, first, rest
  <2>6. chip.moved + 2 \in Int  BY <1>2
  <2>7. /\ c \in Chip /\ c.mode = chip.mode /\ c.length = chip.length /\ c.done = chip.done
        /\ c.gdo0 = chip.gdo0 /\ c.moved = chip.moved + 2
    BY <1>1, <2>6 DEF Chip
  <2> HIDE DEF p, c
  <2>8. chip.done - chip.moved >= 4  BY <1>4, <1>8 DEF Radio!Rises2
  <2>9. chip.length # 0 /\ chip.length >= 40
    <3>1. chip.length # 0  BY <1>1, <1>2, <2>8 DEF RxInv
    <3> QED  BY <1>1, <3>1 DEF RxInv
  <2>10. chip.mode # "idle" /\ 0 <= chip.moved  BY <1>1, <1>8 DEF RxInv
  <2>11. ASSUME p.aligned  PROVE p.bytesLeft = c.length - c.moved /\ p.pktLen = c.length
                                 /\ (Reading(p, c) \/ Missed(p, c))
    <3>1. chip.moved = 0 /\ n = chip.length /\ c.moved = 2  BY <1>2, <2>3, <2>5, <2>7, <2>11
    <3>2. chip.done <= 64 /\ chip.done >= 4  BY <1>1, <1>2, <1>8, <2>8, <3>1 DEF RxInv
    <3>3. CASE chip.done < chip.length
      <4>1. Reading(p, c)
        BY <1>2, <2>5, <2>7, <2>10, <3>1, <3>2, <3>3 DEF Reading
      <4> QED  BY <2>5, <2>7, <3>1, <4>1
    <3>4. CASE chip.done >= chip.length
      <4>1. p.fixedLengthMode  BY <1>2, <2>5, <3>1, <3>2, <3>4
      <4>2. Missed(p, c)  BY <1>2, <2>5, <2>7, <2>10, <3>1, <3>2, <3>4, <4>1 DEF Missed
      <4> QED  BY <2>5, <2>7, <3>1, <4>2
    <3> QED  BY <1>2, <3>3, <3>4
  <2>12. RxInv(p, c)
    <3>1. /\ c.mode \in {"rx", "hung", "overflow", "idle"}
          /\ c.mode = "hung" => c.gdo0
          /\ c.mode = "rx" /\ c.length # 0 => c.gdo0
          /\ c.length # 0 /\ c.length >= 40
      BY <1>1, <2>7, <2>9 DEF RxInv
    <3> QED  BY <2>5, <2>11, <3>1 DEF RxInv
  <2> QED  BY <1>6, <2>1, <2>5, <2>12 DEF p, c
\* Further octets
<1>9. CASE Radio!Rises2 /\ ~cpu.packetStart
  <2> DEFINE p == Radio!LaterRead
             c == [chip EXCEPT !.moved = @ + 31]
  <2>1. r = <<p, 31>>  BY <1>9 DEF Radio!AfterGdo2, Radio!ReadSize
  <2>2. cpu.bytesLeft - 31 \in Int /\ (cpu.fixedLengthMode \/ cpu.bytesLeft < 256) \in BOOLEAN
    BY <1>2
  <2>3. /\ p \in Cpu /\ ~p.packetStart
        /\ (p.fixedLengthMode <=> cpu.fixedLengthMode \/ cpu.bytesLeft < 256)
        /\ p.aligned = cpu.aligned /\ p.pktLen = cpu.pktLen
        /\ p.bytesLeft = cpu.bytesLeft - 31
    <3> DEFINE short == cpu.fixedLengthMode \/ cpu.bytesLeft < 256
               rest  == cpu.bytesLeft - 31
    <3>2. p = [cpu EXCEPT !.prev2 = TRUE, !.bytesLeft = rest, !.fixedLengthMode = short]
      <4>1. cpu.bytesLeft - (32 - 1) = rest  BY <1>2
      <4> QED  BY <4>1 DEF Radio!LaterRead, Radio!ReadSize
    <3>3. short \in BOOLEAN /\ rest \in Int  BY <2>2
    <3> HIDE DEF p, short, rest
    <3>4. /\ p \in Cpu /\ p.packetStart = cpu.packetStart /\ p.fixedLengthMode = short
          /\ p.aligned = cpu.aligned /\ p.pktLen = cpu.pktLen /\ p.bytesLeft = rest
      BY <1>1, <2>2, <3>2, <3>3 DEF Cpu
    <3> QED  BY <1>9, <3>4 DEF short, rest
  <2>4. chip.moved + 31 \in Int  BY <1>2
  <2>5. /\ c \in Chip /\ c.mode = chip.mode /\ c.length = chip.length /\ c.done = chip.done
        /\ c.gdo0 = chip.gdo0 /\ c.moved = chip.moved + 31
    BY <1>1, <2>4 DEF Chip
  <2> HIDE DEF p, c
  <2>6. chip.done - chip.moved >= 32 /\ ~cpu.prev2  BY <1>4, <1>9 DEF Radio!Rises2
  <2>7. chip.length # 0 /\ chip.length >= 40
    <3>1. chip.length # 0  BY <1>1, <1>2, <2>6 DEF RxInv
    <3> QED  BY <1>1, <3>1 DEF RxInv
  <2>8. ASSUME p.aligned  PROVE p.bytesLeft = c.length - c.moved /\ p.pktLen = c.length
                                /\ Reading(p, c)
    <3>1. cpu.aligned  BY <2>3, <2>8
    <3>2. /\ cpu.pktLen = chip.length /\ cpu.bytesLeft = chip.length - chip.moved
          /\ Reading(cpu, chip)
      BY <1>1, <1>9, <2>6, <3>1 DEF RxInv, Missed
    <3>3. /\ chip.moved <= chip.done /\ chip.done <= chip.moved + 64 /\ chip.done <= chip.length
          /\ chip.mode = "idle" <=> chip.done = chip.length
      BY <3>2 DEF Reading
    <3>4. p.fixedLengthMode => c.length - c.done <= 256
      BY <1>2, <2>3, <2>5, <3>2, <3>3 DEF Reading
    <3>5. ~p.fixedLengthMode => c.length - c.moved >= 225
      BY <1>2, <2>3, <2>5, <3>2
    <3>6. c.moved <= c.done /\ c.done <= c.moved + 64  BY <1>2, <2>5, <2>6, <3>3
    <3>7. Reading(p, c)  BY <2>5, <3>3, <3>4, <3>5, <3>6 DEF Reading
    <3> QED  BY <1>2, <2>3, <2>5, <3>2, <3>7
  <2>9. RxInv(p, c)
    <3>1. /\ c.mode \in {"rx", "hung", "overflow", "idle"}
          /\ c.mode = "hung" => c.gdo0
          /\ c.mode = "rx" /\ c.length # 0 => c.gdo0
          /\ c.length # 0 /\ c.length >= 40
      BY <1>1, <2>5, <2>7 DEF RxInv
    <3> QED  BY <2>3, <2>8, <3>1 DEF RxInv
  <2> QED  BY <1>6, <2>1, <2>3, <2>9 DEF c
<1> QED  BY <1>3, <1>7, <1>8, <1>9

LEMMA SyncStarts ==
    ASSUME NEW p \in Cpu, NEW q, q = [p EXCEPT !.syncStart = TRUE, !.wait = 0]
    PROVE  SameReading(p, q)
<1> DEFINE r == [p EXCEPT !.syncStart = TRUE]
<1>1. r \in Cpu /\ SameReading(p, r)  BY DEF SameReading, Cpu
<1>2. q = [r EXCEPT !.wait = 0]  OBVIOUS
<1> HIDE DEF r
<1>3. SameReading(r, q)  BY <1>1, <1>2 DEF SameReading, Cpu
<1> QED  BY <1>1, <1>3 DEF SameReading

LEMMA RxActiveKeeps == RadioInv /\ Radio!RxActive => RadioInv'
<1> SUFFICES ASSUME RadioInv, Radio!RxActive PROVE RadioInv'  OBVIOUS
<1>1. loopState = "RX_ACTIVE" /\ UNCHANGED <<radioQueue, sendBuffer>>  BY DEF Radio!RxActive
<1>2. PICK r \in Radio!AfterGdo2 :
        LET p == [r[1] EXCEPT !.prev0 = chip.gdo0]
            rises == chip.gdo0 /\ ~cpu.prev0
            falls == ~chip.gdo0 /\ cpu.prev0
            over  == falls /\ chip.mode # "overflow" /\ ~p.packetStart
        IN /\ cpu' = IF rises THEN [p EXCEPT !.syncStart = TRUE, !.wait = 0] ELSE p
           /\ chip' = [chip EXCEPT !.moved = @ + r[2] + (IF over THEN p.bytesLeft ELSE 0)]
           /\ loopState' = CASE falls /\ chip.mode = "overflow" -> "RX_START"
                             [] over -> "RX_END"
                             [] OTHER -> "RX_ACTIVE"
  BY DEF Radio!RxActive
<1> DEFINE p     == [r[1] EXCEPT !.prev0 = chip.gdo0]
           c     == [chip EXCEPT !.moved = @ + r[2]]
           falls == ~chip.gdo0 /\ cpu.prev0
           over  == falls /\ chip.mode # "overflow" /\ ~p.packetStart
<1>3. /\ r[1] \in Cpu /\ r[2] \in Int /\ c \in Chip /\ RxInv(r[1], c)  BY <1>1, EdgeKeeps
<1>4. chip \in Chip /\ chip.moved \in Int  BY DEF RadioInv, Chip
<1>5. c.mode = chip.mode /\ c.length = chip.length /\ c.done = chip.done
      /\ c.gdo0 = chip.gdo0 /\ c.moved = chip.moved + r[2]
  BY <1>3, <1>4 DEF Chip
<1>6. SameReading(r[1], cpu') /\ SameReading(r[1], p)
  <2>1. SameReading(r[1], p)  BY <1>3, <1>4 DEF SameReading, Cpu, Chip
  <2> HIDE DEF p
  <2>2. ASSUME NEW q, q = [p EXCEPT !.syncStart = TRUE, !.wait = 0]  PROVE SameReading(r[1], q)
    <3>1. p \in Cpu  BY <2>1 DEF SameReading
    <3>2. SameReading(p, q)  BY <2>2, <3>1, SyncStarts
    <3> QED  BY <2>1, <3>2 DEF SameReading
  <2>3. cpu' = p \/ cpu' = [p EXCEPT !.syncStart = TRUE, !.wait = 0]  BY <1>2 DEF p
  <2> QED  BY <2>1, <2>2, <2>3
<1>7. cpu' \in Cpu /\ p.packetStart = r[1].packetStart /\ p.bytesLeft = r[1].bytesLeft /\ p.bytesLeft \in Int
  BY <1>6 DEF SameReading, Cpu
<1>8. /\ chip' = [chip EXCEPT !.moved = chip.moved + r[2] + (IF over THEN p.bytesLeft ELSE 0)]
      /\ loopState' = CASE falls /\ chip.mode = "overflow" -> "RX_START"
                        [] over -> "RX_END"
                        [] OTHER -> "RX_ACTIVE"
  BY <1>2
<1>9. radioQueue' \in Seq(TelegramLengths)  BY <1>1 DEF RadioInv
<1>10. CASE falls /\ chip.mode = "overflow"
  <2>1. loopState' = "RX_START" /\ chip' = [chip EXCEPT !.moved = chip.moved + r[2] + 0]
    BY <1>8, <1>10
  <2>2. chip.moved + r[2] + 0 \in Int  BY <1>3, <1>4
  <2>3. chip' \in Chip /\ chip'.mode = "overflow"  BY <1>4, <1>10, <2>1, <2>2 DEF Chip
  <2>4. StateInv("RX_START", cpu', chip', sendBuffer')  BY <2>3 DEF StateInv, StartInv
  <2> QED  BY <1>7, <1>9, <2>1, <2>3, <2>4 DEF RadioInv
<1>11. CASE ~(falls /\ chip.mode = "overflow") /\ ~over
  <2>1. loopState' = "RX_ACTIVE" /\ chip' = [chip EXCEPT !.moved = chip.moved + r[2] + 0]
    BY <1>8, <1>11
  <2>2. chip.moved + r[2] + 0 = chip.moved + r[2]  BY <1>3, <1>4
  <2>3. chip' = c  BY <2>1, <2>2
  <2>4. StateInv("RX_ACTIVE", r[1], c, sendBuffer)  BY <1>3 DEF StateInv
  <2>5. StateInv("RX_ACTIVE", cpu', c, sendBuffer)  BY <1>6, <2>4, SameReadingKeeps
  <2>6. c \in Chip /\ sendBuffer' = sendBuffer  BY <1>1, <1>3
  <2> HIDE DEF c
  <2> QED  BY <1>7, <1>9, <2>1, <2>3, <2>5, <2>6 DEF RadioInv
<1>12. CASE over
  <2>1. loopState' = "RX_END" /\ chip' = [chip EXCEPT !.moved = chip.moved + r[2] + p.bytesLeft]
    BY <1>8, <1>12
  <2>2. chip.moved + r[2] + p.bytesLeft \in Int  BY <1>3, <1>4, <1>7
  <2>3. /\ chip' \in Chip /\ chip'.mode = chip.mode /\ chip'.length = chip.length
        /\ chip'.done = chip.done /\ chip'.moved = chip.moved + r[2] + p.bytesLeft
    BY <1>4, <2>1, <2>2 DEF Chip
  <2>4. ~c.gdo0 /\ c.mode # "overflow" /\ ~r[1].packetStart  BY <1>5, <1>7, <1>12
  <2> HIDE DEF c, p, over, falls
  <2>5. c.mode = "idle"  BY <1>3, <2>4 DEF RxInv
  <2>6. r[1].aligned => Reading(r[1], c) /\ r[1].bytesLeft = c.length - c.moved
    BY <1>3, <2>4, <2>5 DEF RxInv, Missed
  <2>7. r[1].aligned => c.done = c.length  BY <2>5, <2>6 DEF Reading
  <2>8. c.length \in Int /\ c.moved \in Int  BY <1>3 DEF Chip
  <2>9. r[1].aligned => chip'.moved = chip'.length /\ chip'.done = chip'.length
    BY <1>3, <1>4, <1>5, <1>7, <2>3, <2>6, <2>7, <2>8
  <2>10. cpu'.aligned = r[1].aligned  BY <1>6 DEF SameReading
  <2>11. StateInv("RX_END", cpu', chip', sendBuffer')
    BY <1>5, <2>3, <2>5, <2>9, <2>10 DEF StateInv, EndInv
  <2> QED  BY <1>7, <1>9, <2>1, <2>3, <2>11 DEF RadioInv
<1> QED  BY <1>10, <1>11, <1>12

LEMMA RxStepsKeep ==
    /\ RadioInv /\ Radio!RxStart => RadioInv'
    /\ RadioInv /\ Radio!RxGivesWay => RadioInv'
    /\ RadioInv /\ Radio!RxTimeout => RadioInv'
    /\ RadioInv /\ Radio!RxViolation => RadioInv'
    /\ RadioInv /\ Radio!RxEnd => RadioInv'
<1>1. Radio!Idle \in Chip /\ Radio!Idle.mode = "idle"  BY DEF Radio!Idle, Chip
<1>2. Radio!Listening \in Chip /\ Radio!Listening.mode = "rx" /\ Radio!Listening.length = 0
      /\ Radio!Listening.done = 0 /\ Radio!Listening.moved = 0
  <2>1. /\ Radio!Idle.length = 0 /\ Radio!Idle.done = 0 /\ Radio!Idle.moved = 0  BY DEF Radio!Idle
  <2> QED  BY <1>1, <2>1 DEF Radio!Listening, Chip
<1>3. /\ Radio!Fresh \in Cpu /\ Radio!Fresh.packetStart /\ ~Radio!Fresh.fixedLengthMode
  BY DEF Radio!Fresh, Cpu
<1>4. ASSUME RadioInv, Radio!RxStart  PROVE RadioInv'
  <2>1. /\ loopState = "RX_START" /\ cpu' = Radio!Fresh /\ loopState' = "RX_ACTIVE"
        /\ UNCHANGED <<radioQueue, sendBuffer>>
        /\ chip' = IF chip.mode = "rx" THEN chip ELSE Radio!Listening
    BY <1>4 DEF Radio!RxStart
  <2>2. chip \in Chip /\ StartInv(chip)  BY <1>4, <2>1 DEF RadioInv, StateInv
  <2>3. CASE chip.mode = "rx"
    <3>1. chip.length \in Int /\ chip.length >= 40 /\ chip.gdo0
          /\ chip.moved \in Int /\ chip.moved >= 2 /\ chip.moved <= chip.done
      BY <2>2, <2>3 DEF StartInv, Chip
    <3>2. Radio!Fresh.packetStart = TRUE  BY DEF Radio!Fresh
    <3>3. RxInv(Radio!Fresh, chip)  BY <1>3, <2>3, <3>1 DEF RxInv
    <3>4. StateInv("RX_ACTIVE", cpu', chip', sendBuffer')  BY <2>1, <2>3, <3>3 DEF StateInv
    <3> QED  BY <1>3, <1>4, <2>1, <2>2, <2>3, <3>4 DEF RadioInv
  <2>4. CASE chip.mode # "rx"
    <3>1. RxInv(Radio!Fresh, Radio!Listening)  BY <1>2, <1>3 DEF RxInv
    <3>2. StateInv("RX_ACTIVE", cpu', chip', sendBuffer')  BY <2>1, <2>4, <3>1 DEF StateInv
    <3> QED  BY <1>2, <1>3, <1>4, <2>1, <2>4, <3>2 DEF RadioInv
  <2> QED  BY <2>3, <2>4
<1>5. ASSUME RadioInv, Radio!RxGivesWay  PROVE RadioInv'
  <2>1. chip' = Radio!Idle /\ loopState' = "TX_START" /\ UNCHANGED <<radioQueue, sendBuffer, cpu>>
    BY <1>5 DEF Radio!RxGivesWay
  <2>2. StateInv("TX_START", cpu', chip', sendBuffer')  BY <1>1, <2>1 DEF StateInv
  <2> QED  BY <1>1, <1>5, <2>1, <2>2 DEF RadioInv
<1>6. ASSUME RadioInv, Radio!RxTimeout  PROVE RadioInv'
  <2>1. chip' = Radio!Idle /\ loopState' = "RX_START" /\ UNCHANGED <<radioQueue, sendBuffer, cpu>>
    BY <1>6 DEF Radio!RxTimeout
  <2>2. StateInv("RX_START", cpu', chip', sendBuffer')  BY <1>1, <2>1 DEF StateInv, StartInv
  <2> QED  BY <1>1, <1>6, <2>1, <2>2 DEF RadioInv
<1>7. ASSUME RadioInv, Radio!RxViolation  PROVE RadioInv'
  <2>1. /\ loopState = "RX_ACTIVE" /\ Radio!Rises2 /\ cpu.packetStart
        /\ chip' = [chip EXCEPT !.moved = @ + 2]
        /\ loopState' = "RX_START" /\ UNCHANGED <<radioQueue, sendBuffer, cpu>>
    BY <1>7 DEF Radio!RxViolation
  <2>2. chip \in Chip /\ RxInv(cpu, chip)  BY <1>7, <2>1 DEF RadioInv, StateInv
  <2>3. chip.done \in Int /\ chip.moved \in Int /\ chip.length \in Int  BY <2>2 DEF Chip
  <2>4. chip.mode \notin {"tx", "underflow"}  BY <2>2 DEF RxInv
  <2>5. chip.done - chip.moved >= 4
    BY <2>1, <2>4 DEF Radio!Rises2, Radio!Gdo2, Radio!InFifo, Radio!RxThreshold
  <2>6. 0 <= chip.moved  BY <2>1, <2>2 DEF RxInv
  <2>7. chip.length # 0  BY <2>2, <2>3, <2>5 DEF RxInv
  <2>8. chip.length >= 40 /\ (chip.mode = "rx" => chip.gdo0)  BY <2>2, <2>7 DEF RxInv
  <2>9. chip.moved + 2 \in Int  BY <2>3
  <2>10. /\ chip' \in Chip /\ chip'.mode = chip.mode /\ chip'.length = chip.length
         /\ chip'.done = chip.done /\ chip'.gdo0 = chip.gdo0 /\ chip'.moved = chip.moved + 2
    BY <2>1, <2>2, <2>9 DEF Chip
  <2>11. StartInv(chip')  BY <2>3, <2>5, <2>6, <2>8, <2>10 DEF StartInv
  <2>12. StateInv("RX_START", cpu', chip', sendBuffer')  BY <2>11 DEF StateInv
  <2> QED  BY <1>7, <2>1, <2>10, <2>12 DEF RadioInv
<1>8. ASSUME RadioInv, Radio!RxEnd  PROVE RadioInv'
  <2>1. loopState = "RX_END" /\ loopState' = "RX_START"
        /\ UNCHANGED <<radioQueue, sendBuffer, cpu, chip>>
    BY <1>8 DEF Radio!RxEnd
  <2>2. chip.mode = "idle"  BY <1>8, <2>1 DEF RadioInv, StateInv, EndInv
  <2>3. StateInv("RX_START", cpu', chip', sendBuffer')  BY <2>1, <2>2 DEF StateInv, StartInv
  <2> QED  BY <1>8, <2>1, <2>3 DEF RadioInv
<1> QED  BY <1>4, <1>5, <1>6, <1>7, <1>8

LEMMA TxStartKeeps == RadioInv /\ Radio!TxStart => RadioInv'
<1> SUFFICES ASSUME RadioInv, Radio!TxStart PROVE RadioInv'  OBVIOUS
<1> DEFINE t == Head(radioQueue)
           n == Radio!PacketSize(Radio!LengthField(t))
           L == Radio!Encoded(n)
           F == Radio!FirstFill(n)
<1>1. /\ loopState = "TX_START" /\ radioQueue # <<>> /\ radioQueue' = Tail(radioQueue)
      /\ IF n = Radio!PacketLength(t) /\ n <= Radio!MaxPacketLength
         THEN /\ sendBuffer' = t
              /\ chip' = [Radio!Idle EXCEPT !.mode = "tx", !.length = L, !.moved = F]
              /\ cpu' = [cpu EXCEPT !.prev0 = FALSE, !.prev2 = F >= 33,
                                    !.pktLen = n, !.bytesLeft = L - F, !.fixedLengthMode = L < 256]
              /\ loopState' = "TX_ACTIVE"
         ELSE loopState' = "RX_START" /\ UNCHANGED <<sendBuffer, chip, cpu>>
  BY DEF Radio!TxStart
<1>2. /\ radioQueue \in Seq(TelegramLengths) /\ cpu \in Cpu /\ chip \in Chip /\ chip.mode = "idle"
  BY <1>1 DEF RadioInv, StateInv
<1>3. t \in TelegramLengths /\ radioQueue' \in Seq(TelegramLengths)  BY <1>1, <1>2
<1>4. n \in Int  BY <1>3, LengthFacts
<1>5. L \in Int /\ F \in Int /\ L - F \in Int /\ L = 2 * n + 2
      /\ (L <= 64 => F = L) /\ (L > 64 => F = 64)
  BY <1>4 DEF Radio!Encoded, Radio!FirstFill, Radio!Smaller, Radio!FifoSize
<1>6. CASE n = Radio!PacketLength(t) /\ n <= Radio!MaxPacketLength
  <2> DEFINE high  == F >= 33
             short == L < 256
             rest  == L - F
  <2>1. high \in BOOLEAN /\ short \in BOOLEAN /\ rest \in Int  BY <1>5
  <2>2. /\ chip' = [Radio!Idle EXCEPT !.mode = "tx", !.length = L, !.moved = F]
        /\ cpu' = [cpu EXCEPT !.prev0 = FALSE, !.prev2 = high, !.pktLen = n, !.bytesLeft = rest,
                              !.fixedLengthMode = short]
        /\ sendBuffer' = t /\ loopState' = "TX_ACTIVE"
    BY <1>1, <1>6
  <2>3. L = Radio!Encoded(Radio!PacketLength(t))  BY <1>6
  <2>4. short <=> L < 256  OBVIOUS
  <2>5. rest = L - F  OBVIOUS
  <2> HIDE DEF t, n, L, F, high, short, rest
  <2>6. /\ chip' \in Chip /\ chip'.mode = "tx" /\ chip'.length = L /\ chip'.moved = F
        /\ chip'.done = 0 /\ ~chip'.spoilt
    <3>1. Radio!Idle \in Chip /\ Radio!Idle.done = 0 /\ ~Radio!Idle.spoilt  BY DEF Radio!Idle, Chip
    <3> QED  BY <1>5, <2>2, <3>1 DEF Chip
  <2>7. cpu' \in Cpu /\ cpu'.bytesLeft = rest /\ cpu'.fixedLengthMode = short
    BY <1>2, <1>4, <2>1, <2>2 DEF Cpu
  <2>8. ASSUME L \in 1 .. 96
        PROVE  /\ short /\ rest \in 0 .. 32 /\ F + rest = L /\ 0 <= F /\ F <= 64
    <3>1. L < 256 /\ 0 <= F /\ F <= 64 /\ F <= L /\ L - F <= 32  BY <1>5, <2>8
    <3>2. short  BY <2>4, <3>1
    <3> QED  BY <1>5, <2>5, <3>1, <3>2
  <2>9. TxInv(cpu', chip', t)  BY <1>5, <2>3, <2>6, <2>7, <2>8 DEF TxInv
  <2>10. StateInv("TX_ACTIVE", cpu', chip', t)  BY <2>9 DEF StateInv
  <2> QED  BY <1>3, <2>2, <2>6, <2>7, <2>10 DEF RadioInv
<1>7. CASE ~(n = Radio!PacketLength(t) /\ n <= Radio!MaxPacketLength)
  <2>1. loopState' = "RX_START" /\ UNCHANGED <<sendBuffer, chip, cpu>>  BY <1>1, <1>7
  <2>2. StateInv("RX_START", cpu, chip, sendBuffer)  BY <1>2 DEF StateInv, StartInv
  <2> QED  BY <1>2, <1>3, <2>1, <2>2 DEF RadioInv
<1> QED  BY <1>6, <1>7

LEMMA TxActiveKeeps == RadioInv /\ Radio!TxActive => RadioInv'
<1> SUFFICES ASSUME RadioInv, Radio!TxActive PROVE RadioInv'  OBVIOUS
<1> DEFINE rises == chip.gdo0 /\ ~cpu.prev0
           falls == ~chip.gdo0 /\ cpu.prev0
           R     == Radio!Refill
           left  == cpu.bytesLeft - R
           fixed == cpu.fixedLengthMode \/ (R > 0 /\ left < 256 - 64)
           high  == Radio!Gdo2(chip, cpu)
           sync  == cpu.syncStart \/ rises
           wait1 == IF rises THEN 0 ELSE cpu.wait
           moved == chip.moved + R
           spilt == chip.spoilt \/ Radio!InFifo(chip) + R > 64
<1>1. /\ loopState = "TX_ACTIVE" /\ UNCHANGED <<radioQueue, sendBuffer>>
      /\ cpu' = [cpu EXCEPT !.prev2 = high, !.prev0 = chip.gdo0, !.bytesLeft = left,
                            !.fixedLengthMode = fixed, !.syncStart = sync, !.wait = wait1]
      /\ chip' = [chip EXCEPT !.moved = moved, !.spoilt = spilt]
      /\ loopState' \in {"TX_END", "TX_ACTIVE"}
  BY DEF Radio!TxActive, Radio!FifoSize
<1>2. cpu \in Cpu /\ chip \in Chip /\ TxInv(cpu, chip, sendBuffer)
  BY <1>1 DEF RadioInv, StateInv
<1>3. /\ chip.done \in Int /\ chip.moved \in Int /\ chip.length \in Int /\ cpu.bytesLeft \in Int
      /\ cpu.wait \in Int
  BY <1>2 DEF Cpu, Chip
<1>4. cpu.fixedLengthMode \in BOOLEAN /\ cpu.syncStart \in BOOLEAN /\ cpu.prev0 \in BOOLEAN
      /\ chip.gdo0 \in BOOLEAN /\ chip.spoilt \in BOOLEAN
  BY <1>2 DEF Cpu, Chip
<1>5. R \in Int /\ (R = 0 \/ (~high /\ R <= cpu.bytesLeft /\ (cpu.bytesLeft <= 64 => R = cpu.bytesLeft)))
  BY <1>3 DEF Radio!Refill, Radio!Smaller, Radio!FifoSize
<1>6. high \in BOOLEAN
  <2>1. CASE chip.mode \in {"tx", "underflow"}  BY <2>1 DEF Radio!Gdo2
  <2>2. CASE chip.mode \notin {"tx", "underflow"}  BY <2>2 DEF Radio!Gdo2
  <2> QED  BY <2>1, <2>2
<1>7. /\ left \in Int /\ moved \in Int /\ wait1 \in Int
      /\ left = cpu.bytesLeft - R /\ moved = chip.moved + R
  BY <1>3, <1>5
<1>8. fixed \in BOOLEAN /\ sync \in BOOLEAN /\ spilt \in BOOLEAN /\ (cpu.fixedLengthMode => fixed)
  BY <1>4
<1>9. ASSUME chip.length \in 1 .. 96
      PROVE  /\ ~spilt /\ left \in 0 .. 32 /\ moved + left = chip.length /\ chip.done <= moved
             /\ chip.mode = "tx" => moved <= chip.done + 64
  <2>1. /\ ~chip.spoilt /\ cpu.bytesLeft \in 0 .. 32 /\ chip.moved + cpu.bytesLeft = chip.length
        /\ 0 <= chip.done /\ chip.done <= chip.moved
        /\ chip.mode = "tx" => chip.moved <= chip.done + 64
        /\ chip.mode = "idle" => chip.done = chip.length
        /\ chip.mode \in {"tx", "underflow", "idle"}
    BY <1>2, <1>9 DEF TxInv
  <2>2. R = 0 \/ (R = cpu.bytesLeft /\ ~high)  BY <1>3, <1>5, <2>1
  <2>3. CASE chip.mode = "idle"
    <3>1. cpu.bytesLeft = 0  BY <1>3, <2>1, <2>3
    <3>2. R = 0 /\ Radio!InFifo(chip) = 0
      BY <1>3, <1>5, <2>1, <2>2, <2>3, <3>1 DEF Radio!InFifo
    <3> QED  BY <1>3, <1>7, <2>1, <3>2
  <2>4. CASE chip.mode \in {"tx", "underflow"}
    <3>1. /\ Radio!InFifo(chip) \in Int
          /\ chip.mode = "tx" => Radio!InFifo(chip) = chip.moved - chip.done
          /\ chip.mode = "underflow" => Radio!InFifo(chip) <= 0
      BY <1>3, <2>1 DEF Radio!InFifo
    <3>2. ~high => Radio!InFifo(chip) <= 32  BY <2>4, <3>1 DEF Radio!Gdo2
    <3> HIDE DEF high, R, left, moved
    <3>3. Radio!InFifo(chip) + R <= 64  BY <1>3, <1>5, <2>1, <2>2, <2>4, <3>1, <3>2
    <3>4. ~spilt  BY <1>5, <2>1, <3>1, <3>3
    <3>5. left \in 0 .. 32 /\ moved + left = chip.length /\ chip.done <= moved
      BY <1>3, <1>5, <1>7, <2>1, <2>2
    <3>6. chip.mode = "tx" => moved <= chip.done + 64  BY <1>3, <1>5, <1>7, <3>1, <3>3
    <3> QED  BY <3>4, <3>5, <3>6
  <2> QED  BY <2>1, <2>3, <2>4
<1> HIDE DEF rises, R, left, fixed, high, sync, wait1, moved, spilt
<1>10. /\ chip' \in Chip /\ chip'.mode = chip.mode /\ chip'.length = chip.length
       /\ chip'.done = chip.done /\ chip'.moved = moved /\ chip'.spoilt = spilt
  BY <1>1, <1>2, <1>7, <1>8 DEF Chip
<1>11. cpu' \in Cpu /\ cpu'.bytesLeft = left /\ cpu'.fixedLengthMode = fixed
  BY <1>1, <1>2, <1>4, <1>6, <1>7, <1>8, ZenonT(60) DEF Cpu
<1>12. TxInv(cpu', chip', sendBuffer)
  BY <1>2, <1>8, <1>9, <1>10, <1>11 DEF TxInv
<1>13. StateInv(loopState', cpu', chip', sendBuffer')  BY <1>1, <1>12 DEF StateInv
<1> QED  BY <1>1, <1>10, <1>11, <1>13 DEF RadioInv

\* A medium that is disabled is not in the middle of anything.
RestInv == ~enabled => loopState = "RX_START"

LEMMA OtherStepsKeep ==
    /\ RadioInv /\ Radio!TxTimeout => RadioInv'
    /\ RadioInv /\ Radio!TxEnd => RadioInv'
    /\ RadioInv /\ Radio!SendFrame => RadioInv'
    /\ RadioInv /\ Radio!Disable => RadioInv'
    /\ RadioInv /\ RestInv /\ Radio!Enable => RadioInv'
    /\ RadioInv /\ UNCHANGED radioVars => RadioInv'
<1>1. Radio!Idle \in Chip /\ Radio!Idle.mode = "idle" /\ Radio!Idle.length = 0
  BY DEF Radio!Idle, Chip
<1>2. ASSUME RadioInv, Radio!TxTimeout  PROVE RadioInv'
  <2>1. chip' = Radio!Idle /\ loopState' = "TX_END" /\ UNCHANGED <<radioQueue, sendBuffer, cpu>>
    BY <1>2 DEF Radio!TxTimeout
  <2>2. StateInv("TX_END", cpu', chip', sendBuffer')  BY <1>1, <2>1 DEF StateInv, TxInv
  <2> QED  BY <1>1, <1>2, <2>1, <2>2 DEF RadioInv
<1>3. ASSUME RadioInv, Radio!TxEnd  PROVE RadioInv'
  <2>1. loopState = "TX_END" /\ loopState' = "RX_START" /\ UNCHANGED <<radioQueue, cpu, chip>>
    BY <1>3 DEF Radio!TxEnd
  <2>2. chip.mode # "rx"  BY <1>3, <2>1 DEF RadioInv, StateInv, TxInv
  <2>3. StateInv("RX_START", cpu', chip', sendBuffer')  BY <2>1, <2>2 DEF StateInv, StartInv
  <2> QED  BY <1>3, <2>1, <2>3 DEF RadioInv
<1>4. ASSUME RadioInv, Radio!SendFrame  PROVE RadioInv'
  <2>1. PICK t \in TelegramLengths :
           radioQueue' = IF enabled /\ Radio!FitsMedium(t) THEN Append(radioQueue, t) ELSE radioQueue
    BY <1>4 DEF Radio!SendFrame
  <2>2. radioQueue' \in Seq(TelegramLengths)  BY <1>4, <2>1 DEF RadioInv
  <2>3. UNCHANGED <<sendBuffer, loopState, cpu, chip>>  BY <1>4 DEF Radio!SendFrame
  <2> QED  BY <1>4, <2>2, <2>3 DEF RadioInv
<1>5. ASSUME RadioInv, Radio!Disable  PROVE RadioInv'
  <2>1. chip' = Radio!Idle /\ loopState' = "RX_START" /\ UNCHANGED <<radioQueue, cpu>>
    BY <1>5 DEF Radio!Disable
  <2>2. StateInv("RX_START", cpu', chip', sendBuffer')  BY <1>1, <2>1 DEF StateInv, StartInv
  <2> QED  BY <1>1, <1>5, <2>1, <2>2 DEF RadioInv
<1>6. ASSUME RadioInv, UNCHANGED radioVars  PROVE RadioInv'
  BY <1>6 DEF RadioInv, radioVars
<1>7. ASSUME RadioInv, RestInv, Radio!Enable  PROVE RadioInv'
  <2>1. chip' = Radio!Idle /\ UNCHANGED <<radioQueue, sendBuffer, loopState, cpu>> /\ ~enabled
    BY <1>7 DEF Radio!Enable
  <2>2. loopState = "RX_START"  BY <1>7, <2>1 DEF RestInv
  <2>3. StateInv("RX_START", cpu', chip', sendBuffer')  BY <1>1, <2>1 DEF StateInv, StartInv
  <2> QED  BY <1>1, <1>7, <2>1, <2>2, <2>3 DEF RadioInv
<1> QED  BY <1>2, <1>3, <1>4, <1>5, <1>6, <1>7

RadioStep ==
    \/ Radio!ChipWaits \/ Radio!ChipReceives \/ Radio!ChipSends \/ Radio!PacketComesIn
    \/ Radio!RxStart \/ Radio!RxGivesWay \/ Radio!RxTimeout \/ Radio!RxActive \/ Radio!RxEnd
    \/ Radio!TxStart \/ Radio!TxTimeout \/ Radio!TxActive \/ Radio!TxEnd
    \/ Radio!RxViolation \/ Radio!SendFrame \/ Radio!Disable \/ Radio!Enable
    \/ UNCHANGED radioVars

LEMMA RestKeeps == RestInv /\ RadioStep => RestInv'
<1> SUFFICES ASSUME RestInv, RadioStep PROVE RestInv'  OBVIOUS
<1>1. CASE Radio!ChipWaits \/ Radio!ChipReceives \/ Radio!ChipSends \/ Radio!PacketComesIn
  <2>1. enabled /\ enabled' = enabled
    BY <1>1 DEF Radio!ChipWaits, Radio!ChipReceives, Radio!ChipSends, Radio!PacketComesIn, Radio!Between
  <2> QED  BY <2>1 DEF RestInv
<1>2. CASE \/ Radio!RxStart \/ Radio!RxGivesWay \/ Radio!RxTimeout \/ Radio!RxActive \/ Radio!RxEnd
           \/ Radio!TxStart \/ Radio!TxTimeout \/ Radio!TxActive \/ Radio!TxEnd \/ Radio!RxViolation
  <2>1. Radio!Called
    BY <1>2 DEF Radio!RxStart, Radio!RxGivesWay, Radio!RxTimeout, Radio!RxActive, Radio!RxEnd,
                Radio!TxStart, Radio!TxTimeout, Radio!TxActive, Radio!TxEnd, Radio!RxViolation
  <2>2. enabled /\ enabled' = enabled  BY <2>1 DEF Radio!Called
  <2> QED  BY <2>2 DEF RestInv
<1>3. CASE Radio!SendFrame \/ Radio!Disable \/ Radio!Enable \/ UNCHANGED radioVars
  <2>1. \/ UNCHANGED <<enabled, loopState>> \/ loopState' = "RX_START" \/ enabled'
    BY <1>3 DEF Radio!SendFrame, Radio!Disable, Radio!Enable, radioVars
  <2> QED  BY <2>1 DEF RestInv
<1> QED  BY <1>1, <1>2, <1>3 DEF RadioStep

LEMMA RadioKeeps == RadioInv /\ RestInv /\ RadioStep => RadioInv'
BY ChipWaitsKeeps, ChipReceivesKeeps, ChipSendsKeeps, PacketComesInKeeps, RxStepsKeep,
   RxActiveKeeps, TxStartKeeps, TxActiveKeeps, OtherStepsKeep DEF RadioStep

LEMMA RadioStarts == Radio!Init => RadioInv /\ RestInv
<1> SUFFICES ASSUME Radio!Init PROVE RadioInv /\ RestInv  OBVIOUS
<1>1. /\ radioQueue = <<>> /\ loopState = "RX_START" /\ cpu = Radio!Fresh /\ chip = Radio!Idle
  BY DEF Radio!Init
<1>2. radioQueue \in Seq(TelegramLengths)  BY <1>1
<1>3. chip \in Chip /\ chip.mode = "idle"  BY <1>1 DEF Radio!Idle, Chip
<1>4. cpu \in Cpu  BY <1>1 DEF Radio!Fresh, Cpu
<1>5. StateInv("RX_START", cpu, chip, sendBuffer)  BY <1>3 DEF StateInv, StartInv
<1> QED  BY <1>1, <1>2, <1>3, <1>4, <1>5 DEF RadioInv, RestInv

LEMMA RadioWhole == RadioInv => Radio!PacketsWhole
<1> SUFFICES ASSUME RadioInv PROVE Radio!PacketsWhole  OBVIOUS
<1>1. Radio!ReadWhole  BY DEF RadioInv, StateInv, EndInv, Radio!ReadWhole
<1>2. Radio!SentWhole
  <2> SUFFICES ASSUME loopState \in {"TX_ACTIVE", "TX_END"}, chip.mode = "idle",
                      chip.length \in 1 .. 96
               PROVE  chip.done = Radio!Encoded(Radio!PacketLength(sendBuffer))
                      /\ chip.moved = chip.done /\ ~chip.spoilt
    <3>1. Radio!FifoSize + 32 = 96  BY DEF Radio!FifoSize
    <3> QED  BY <3>1 DEF Radio!SentWhole
  <2>1. chip \in Chip /\ TxInv(cpu, chip, sendBuffer)  BY DEF RadioInv, StateInv
  <2>2. /\ chip.length = Radio!Encoded(Radio!PacketLength(sendBuffer)) /\ ~chip.spoilt
        /\ cpu.bytesLeft \in 0 .. 32 /\ chip.moved + cpu.bytesLeft = chip.length
        /\ chip.done <= chip.moved /\ chip.done = chip.length
    BY <2>1 DEF TxInv
  <2>3. chip.moved \in Int /\ chip.done \in Int /\ chip.length \in Int  BY <2>1 DEF Chip
  <2>4. chip.moved = chip.done  BY <2>2, <2>3
  <2> QED  BY <2>2, <2>4
<1> QED  BY <1>1, <1>2 DEF Radio!PacketsWhole

-----------------------------------------------------------------------------
(* The cEMI server *)

Frame == [from : Cemi!Sender, source : Cemi!Address]

Of(q, from)    == {i \in 1 .. Len(q) : q[i].from = from}
Count(q, from) == Cardinality(Of(q, from))

LEMMA CountType ==
    ASSUME NEW q \in Seq(Frame), NEW from
    PROVE  IsFiniteSet(Of(q, from)) /\ Count(q, from) \in Nat
<1>1. Len(q) \in Nat  OBVIOUS
<1>2. IsFiniteSet(1 .. Len(q))  BY <1>1, FS_Interval
<1>3. IsFiniteSet(Of(q, from))  BY <1>2, FS_Subset DEF Of
<1> QED  BY <1>3, FS_CardinalityType DEF Count

LEMMA CountEmpty == \A from : Count(<<>>, from) = 0
<1> SUFFICES ASSUME NEW from PROVE Count(<<>>, from) = 0  OBVIOUS
<1>1. Of(<<>>, from) = {}  BY DEF Of
<1> QED  BY <1>1, FS_EmptySet DEF Count

LEMMA CountAppend ==
    ASSUME NEW q \in Seq(Frame), NEW f \in Frame, NEW from
    PROVE  Count(Append(q, f), from) = Count(q, from) + IF f.from = from THEN 1 ELSE 0
<1>1. /\ Len(Append(q, f)) = Len(q) + 1 /\ Append(q, f)[Len(q) + 1] = f
      /\ \A i \in 1 .. Len(q) : Append(q, f)[i] = q[i]
      /\ Len(q) \in Nat
  OBVIOUS
<1>2. IsFiniteSet(Of(q, from)) /\ Count(q, from) \in Nat  BY CountType
<1>3. Len(q) + 1 \notin Of(q, from)  BY <1>1 DEF Of
<1>4. CASE f.from = from
  <2>1. Of(Append(q, f), from) = Of(q, from) \cup {Len(q) + 1}  BY <1>1, <1>4 DEF Of
  <2>2. Cardinality(Of(q, from) \cup {Len(q) + 1}) = Cardinality(Of(q, from)) + 1
    BY <1>2, <1>3, FS_AddElement
  <2> QED  BY <1>4, <2>1, <2>2 DEF Count
<1>5. CASE f.from # from
  <2>1. Of(Append(q, f), from) = Of(q, from)  BY <1>1, <1>5 DEF Of
  <2> QED  BY <1>2, <1>5, <2>1 DEF Count
<1> QED  BY <1>4, <1>5

LEMMA CountTail ==
    ASSUME NEW q \in Seq(Frame), q # <<>>, NEW from
    PROVE  Count(Tail(q), from) = Count(q, from) - IF Head(q).from = from THEN 1 ELSE 0
<1>1. /\ Tail(q) \in Seq(Frame) /\ Len(q) \in Nat /\ Len(q) > 0 /\ Len(Tail(q)) = Len(q) - 1
      /\ \A i \in 1 .. Len(q) - 1 : Tail(q)[i] = q[i + 1]
      /\ Head(q) = q[1]
  OBVIOUS
<1> DEFINE S == Of(q, from) \ {1}
           T == Of(Tail(q), from)
           shift == [i \in T |-> i + 1]
<1>2. IsFiniteSet(Of(q, from)) /\ Count(q, from) \in Nat /\ IsFiniteSet(T)  BY <1>1, CountType
<1>3. IsFiniteSet(S) /\ Cardinality(S) = IF 1 \in Of(q, from) THEN Count(q, from) - 1 ELSE Count(q, from)
  BY <1>2, FS_RemoveElement DEF Count
<1>4. \A i \in T : i \in Nat /\ i + 1 \in S  BY <1>1 DEF Of
<1>5. \A j \in S : j - 1 \in T /\ j \in Nat  BY <1>1 DEF Of
<1>6. shift \in [T -> S]  BY <1>4
<1>7. \A i, j \in T : shift[i] = shift[j] => i = j  BY <1>4
<1>8. \A j \in S : \E i \in T : shift[i] = j
  <2> SUFFICES ASSUME NEW j \in S PROVE \E i \in T : shift[i] = j  OBVIOUS
  <2>1. j - 1 \in T /\ shift[j - 1] = j  BY <1>5
  <2> QED  BY <2>1
<1>9. shift \in Injection(T, S) /\ shift \in Surjection(T, S)
  BY <1>6, <1>7, <1>8 DEF Injection, IsInjective, Surjection
<1> HIDE DEF S, T, shift
<1>10. Cardinality(T) = Cardinality(S)  BY <1>3, <1>9, FS_Injection
<1>11. 1 \in Of(q, from) <=> Head(q).from = from  BY <1>1 DEF Of
<1>12. Count(Tail(q), from) = Cardinality(S)  BY <1>10 DEF Count, T
<1> QED  BY <1>2, <1>3, <1>11, <1>12

LEMMA SameCardinality == \A S : Cemi!Cardinality(S) = Cardinality(S)
BY DEF Cemi!Cardinality, Cemi!IsFiniteSet, Cardinality, IsFiniteSet

LEMMA FramesCounts ==
    ASSUME NEW q, q = busQueue, q \in Seq(Frame)
    PROVE  \A from : Cemi!Frames(from) = Count(q, from)
<1>1. DOMAIN q = 1 .. Len(q)  OBVIOUS
<1> SUFFICES ASSUME NEW from PROVE Cemi!Frames(from) = Count(q, from)  OBVIOUS
<1>2. {i \in DOMAIN busQueue : busQueue[i].from = from} = Of(q, from)  BY <1>1 DEF Of
<1> QED  BY <1>2, SameCardinality DEF Cemi!Frames, Count

\* Both have used their own addresses so far, and they differ as long as a frame is under way.
Settled(o, c, q, a, cf, ind) ==
    /\ q # <<>> => o # c
    /\ \A i \in 1 .. Len(q) : q[i].source = IF q[i].from = "stack" THEN o ELSE c
    /\ cf["stack"] = a["stack"] - Count(q, "stack") /\ cf["client"] = 0
    /\ "client" \notin ind

CemiInv ==
    /\ own \in Cemi!Address /\ stored \in Cemi!Address /\ client \in Cemi!Address
    /\ busQueue \in Seq(Frame)
    /\ asked \in [Cemi!Sender -> Nat] /\ confirmed \in [Cemi!Sender -> Nat]
    /\ calm \in BOOLEAN
    /\ calm => Settled(own, client, busQueue, asked, confirmed, indicated)

\* Sending, queued or refused
LEMMA SendKeeps ==
    ASSUME CemiInv, NEW f \in Frame, Cemi!SendFrame(f)
    PROVE  /\ busQueue' \in Seq(Frame)
           /\ asked' \in [Cemi!Sender -> Nat] /\ confirmed' \in [Cemi!Sender -> Nat]
           /\ calm' \in BOOLEAN
           /\ calm' => /\ f.from = "client" => f.source = client
                       /\ Settled(own, client, busQueue', asked', confirmed', indicated)
<1>1. /\ busQueue \in Seq(Frame)
      /\ asked \in [Cemi!Sender -> Nat] /\ confirmed \in [Cemi!Sender -> Nat]
  BY DEF CemiInv
<1>2. f.from \in Cemi!Sender  BY DEF Frame
<1>3. /\ asked' = [asked EXCEPT ![f.from] = @ + 1]
      /\ calm' = (calm /\ own # client
                       /\ f.source = (IF f.from = "stack" THEN own ELSE client))
  BY DEF Cemi!SendFrame
<1>4. \/ busQueue' = Append(busQueue, f) /\ confirmed' = confirmed
      \/ /\ busQueue' = busQueue
         /\ confirmed' = IF f.source # client THEN [confirmed EXCEPT ![f.from] = @ + 1] ELSE confirmed
  BY DEF Cemi!SendFrame, Cemi!Confirm, Cemi!ToStack
<1>5. busQueue' \in Seq(Frame)  BY <1>1, <1>4, SMTT(60)
<1>6. asked' \in [Cemi!Sender -> Nat] /\ confirmed' \in [Cemi!Sender -> Nat]
  BY <1>1, <1>2, <1>3, <1>4
<1>7. calm' \in BOOLEAN  BY <1>3
<1>8. ASSUME calm'
      PROVE  /\ f.from = "client" => f.source = client
             /\ Settled(own, client, busQueue', asked', confirmed', indicated)
  <2>1. /\ calm /\ own # client /\ f.source = (IF f.from = "stack" THEN own ELSE client)
    BY <1>3, <1>8
  <2>2. Settled(own, client, busQueue, asked, confirmed, indicated)  BY <2>1 DEF CemiInv
  <2>3. /\ Len(busQueue) \in Nat
        /\ \A i \in 1 .. Len(busQueue) :
              busQueue[i].source = IF busQueue[i].from = "stack" THEN own ELSE client
        /\ confirmed["stack"] = asked["stack"] - Count(busQueue, "stack") /\ confirmed["client"] = 0
        /\ "client" \notin indicated
    BY <1>1, <2>2 DEF Settled
  <2>4. Count(busQueue, "stack") \in Nat  BY <1>1, CountType
  <2>5. /\ asked["stack"] \in Nat /\ confirmed["stack"] \in Nat /\ confirmed["client"] \in Nat
        /\ {"stack", "client"} = Cemi!Sender
    BY <1>1 DEF Cemi!Sender
  <2>6. asked'["stack"] = asked["stack"] + IF f.from = "stack" THEN 1 ELSE 0
    BY <1>1, <1>2, <1>3, <2>5
  <2>7. CASE busQueue' = Append(busQueue, f) /\ confirmed' = confirmed
    <3>1. \A i \in 1 .. Len(busQueue') :
             busQueue'[i].source = IF busQueue'[i].from = "stack" THEN own ELSE client
      <4> SUFFICES ASSUME NEW i \in 1 .. Len(busQueue')
                   PROVE  busQueue'[i].source = IF busQueue'[i].from = "stack" THEN own ELSE client
        OBVIOUS
      <4>1. \/ i \in 1 .. Len(busQueue) /\ busQueue'[i] = busQueue[i]
            \/ busQueue'[i] = f
        BY <1>1, <2>7
      <4> QED  BY <2>1, <2>3, <4>1
    <3>2. Count(busQueue', "stack") = Count(busQueue, "stack") + IF f.from = "stack" THEN 1 ELSE 0
      BY <1>1, <2>7, CountAppend
    <3>3. confirmed'["stack"] = asked'["stack"] - Count(busQueue', "stack")
      BY <2>3, <2>4, <2>5, <2>6, <2>7, <3>2
    <3> QED  BY <2>1, <2>3, <2>7, <3>1, <3>3 DEF Settled
  <2>8. CASE /\ busQueue' = busQueue
             /\ confirmed' = IF f.source # client THEN [confirmed EXCEPT ![f.from] = @ + 1] ELSE confirmed
    <3>1. CASE f.from = "stack"
      <4>1. confirmed' = [confirmed EXCEPT !["stack"] = @ + 1]  BY <2>1, <2>8, <3>1
      <4>2. confirmed'["stack"] = confirmed["stack"] + 1 /\ confirmed'["client"] = confirmed["client"]
        BY <1>1, <2>5, <4>1
      <4>3. confirmed'["stack"] = asked'["stack"] - Count(busQueue', "stack")
        BY <2>3, <2>4, <2>5, <2>6, <2>8, <3>1, <4>2
      <4> QED  BY <2>1, <2>2, <2>3, <2>8, <3>1, <4>2, <4>3 DEF Settled
    <3>2. CASE f.from # "stack"
      <4>1. confirmed' = confirmed /\ asked'["stack"] = asked["stack"]  BY <2>1, <2>5, <2>6, <2>8, <3>2
      <4> QED  BY <2>1, <2>2, <2>3, <2>8, <3>2, <4>1 DEF Settled
    <3> QED  BY <3>1, <3>2
  <2> QED  BY <1>4, <2>7, <2>8
<1> QED  BY <1>5, <1>6, <1>7, <1>8

LEMMA SendersKeep ==
    /\ CemiInv /\ Cemi!StackSends => CemiInv'
    /\ CemiInv /\ Cemi!ClientSends => CemiInv'
    /\ CemiInv /\ Cemi!BusFrame => CemiInv'
<1>1. ASSUME CemiInv, Cemi!StackSends  PROVE CemiInv'
  <2> DEFINE f == [from |-> "stack", source |-> own]
  <2>1. Cemi!SendFrame(f) /\ UNCHANGED <<own, stored, client, indicated>>
    BY <1>1 DEF Cemi!StackSends, Cemi!addresses
  <2>2. f \in Frame  BY <1>1 DEF CemiInv, Frame, Cemi!Sender
  <2> HIDE DEF f
  <2>3. /\ busQueue' \in Seq(Frame)
        /\ asked' \in [Cemi!Sender -> Nat] /\ confirmed' \in [Cemi!Sender -> Nat]
        /\ calm' \in BOOLEAN
        /\ calm' => Settled(own, client, busQueue', asked', confirmed', indicated)
    BY <1>1, <2>1, <2>2, SendKeeps
  <2> QED  BY <1>1, <2>1, <2>3 DEF CemiInv
<1>2. ASSUME CemiInv, Cemi!ClientSends  PROVE CemiInv'
  <2>1. PICK given \in Cemi!Address :
           LET source == IF given = 0 THEN client ELSE given
           IN  /\ Cemi!SendFrame([from |-> "client", source |-> source])
               /\ Cemi!FrameReceived("client", source)
    BY <1>2 DEF Cemi!ClientSends
  <2> DEFINE source == IF given = 0 THEN client ELSE given
             f      == [from |-> "client", source |-> source]
  <2>2. source \in Cemi!Address  BY <1>2 DEF CemiInv
  <2> HIDE DEF source
  <2>3. Cemi!SendFrame(f) /\ Cemi!FrameReceived("client", source)  BY <2>1 DEF source
  <2>4. f \in Frame /\ f.from = "client" /\ f.source = source  BY <2>2 DEF Frame, Cemi!Sender
  <2> HIDE DEF f
  <2>5. /\ busQueue' \in Seq(Frame)
        /\ asked' \in [Cemi!Sender -> Nat] /\ confirmed' \in [Cemi!Sender -> Nat]
        /\ calm' \in BOOLEAN
        /\ calm' => /\ source = client
                    /\ Settled(own, client, busQueue', asked', confirmed', indicated)
    BY <1>2, <2>3, <2>4, SendKeeps
  <2>6. source = client => indicated' = indicated  BY <2>3 DEF Cemi!FrameReceived
  <2>7. UNCHANGED <<own, stored, client>>  BY <1>2 DEF Cemi!ClientSends, Cemi!addresses
  <2> QED  BY <1>2, <2>5, <2>6, <2>7 DEF CemiInv
<1>3. ASSUME CemiInv, Cemi!BusFrame  PROVE CemiInv'
  <2>1. PICK source \in Cemi!Address : Cemi!FrameReceived("bus", source)
    BY <1>3 DEF Cemi!BusFrame
  <2>2. UNCHANGED <<own, stored, client, busQueue, asked, confirmed, calm>>
    BY <1>3 DEF Cemi!BusFrame, Cemi!addresses
  <2>3. "client" \notin indicated => "client" \notin indicated'  BY <2>1 DEF Cemi!FrameReceived
  <2> QED  BY <1>3, <2>2, <2>3 DEF CemiInv, Settled
<1> QED  BY <1>1, <1>2, <1>3

LEMMA BusResultKeeps == CemiInv /\ Cemi!BusResult => CemiInv'
<1> SUFFICES ASSUME CemiInv, Cemi!BusResult PROVE CemiInv'  OBVIOUS
<1> DEFINE f == Head(busQueue)
<1>1. /\ busQueue # <<>> /\ busQueue' = Tail(busQueue)
      /\ confirmed' = IF f.source # client THEN [confirmed EXCEPT ![f.from] = @ + 1] ELSE confirmed
      /\ UNCHANGED <<own, stored, client, asked, indicated, calm>>
  BY DEF Cemi!BusResult, Cemi!Confirm, Cemi!ToStack, Cemi!addresses
<1>2. busQueue \in Seq(Frame) /\ asked \in [Cemi!Sender -> Nat] /\ confirmed \in [Cemi!Sender -> Nat]
  BY DEF CemiInv
<1>3. /\ busQueue' \in Seq(Frame) /\ f \in Frame /\ f = busQueue[1]
      /\ Len(busQueue) \in Nat /\ 1 \in 1 .. Len(busQueue) /\ Len(busQueue') = Len(busQueue) - 1
      /\ \A i \in 1 .. Len(busQueue') : i + 1 \in 1 .. Len(busQueue) /\ busQueue'[i] = busQueue[i + 1]
  BY <1>1, <1>2
<1>4. f.from \in Cemi!Sender  BY <1>3 DEF Frame
<1>5. confirmed' \in [Cemi!Sender -> Nat]  BY <1>1, <1>2, <1>4
<1>6. ASSUME calm  PROVE Settled(own, client, busQueue', asked, confirmed', indicated)
  <2>1. Settled(own, client, busQueue, asked, confirmed, indicated)  BY <1>6 DEF CemiInv
  <2>2. own # client /\ f.source = IF f.from = "stack" THEN own ELSE client
    BY <1>1, <1>3, <2>1 DEF Settled
  <2>3. \A i \in 1 .. Len(busQueue') :
           busQueue'[i].source = IF busQueue'[i].from = "stack" THEN own ELSE client
    BY <1>3, <2>1 DEF Settled
  <2>4. Count(busQueue', "stack") = Count(busQueue, "stack") - IF f.from = "stack" THEN 1 ELSE 0
    BY <1>1, <1>2, CountTail
  <2>5. Count(busQueue, "stack") \in Nat /\ asked["stack"] \in Nat /\ confirmed["stack"] \in Nat
        /\ confirmed["stack"] = asked["stack"] - Count(busQueue, "stack") /\ confirmed["client"] = 0
        /\ "client" \notin indicated
    BY <1>2, <2>1, CountType DEF Settled, Cemi!Sender
  <2>6. CASE f.from = "stack"
    <3>1. confirmed' = [confirmed EXCEPT !["stack"] = @ + 1]  BY <1>1, <2>2, <2>6
    <3>2. confirmed'["stack"] = confirmed["stack"] + 1 /\ confirmed'["client"] = confirmed["client"]
      BY <1>2, <3>1 DEF Cemi!Sender
    <3>3. confirmed'["stack"] = asked["stack"] - Count(busQueue', "stack")
      BY <2>4, <2>5, <2>6, <3>2
    <3> QED  BY <2>2, <2>3, <2>5, <3>2, <3>3 DEF Settled
  <2>7. CASE f.from # "stack"
    <3>1. confirmed' = confirmed  BY <1>1, <2>2, <2>7
    <3>2. confirmed'["stack"] = asked["stack"] - Count(busQueue', "stack")
      BY <2>4, <2>5, <2>7, <3>1
    <3> QED  BY <2>2, <2>3, <2>5, <3>1, <3>2 DEF Settled
  <2> QED  BY <2>6, <2>7
<1> HIDE DEF f
<1> QED  BY <1>1, <1>3, <1>5, <1>6 DEF CemiInv

\* An address changes while nothing is under way, or the two are no longer calm.
LEMMA ReaddressKeeps ==
    ASSUME CemiInv, NEW o \in Cemi!Address, NEW c \in Cemi!Address, Cemi!Readdress(o, c),
           UNCHANGED <<stored, busQueue, asked, confirmed, indicated>>
    PROVE  CemiInv'
<1>1. /\ own' = o /\ client' = c
      /\ calm' = (calm /\ (busQueue = <<>> \/ (o = own /\ c = client)))
  BY DEF Cemi!Readdress
<1>2. calm' \in BOOLEAN  BY <1>1
<1>3. ASSUME calm'  PROVE Settled(o, c, busQueue, asked, confirmed, indicated)
  <2>1. calm /\ (busQueue = <<>> \/ (o = own /\ c = client))  BY <1>1, <1>3
  <2>2. Settled(own, client, busQueue, asked, confirmed, indicated)  BY <2>1 DEF CemiInv
  <2>3. CASE o = own /\ c = client  BY <2>2, <2>3
  <2>4. CASE busQueue = <<>>
    <3>1. 1 .. Len(busQueue) = {}  BY <2>4
    <3> QED  BY <2>2, <2>4, <3>1 DEF Settled
  <2> QED  BY <2>1, <2>3, <2>4
<1> QED  BY <1>1, <1>2, <1>3 DEF CemiInv

LEMMA CandidatesAreAddresses == client \in Cemi!Address => Cemi!Candidates \subseteq Cemi!Address
<1> SUFFICES ASSUME client \in Cemi!Address, NEW o \in {0, 1}
             PROVE  2 * (client \div 2) + o \in 0 .. 3 /\ 2 * o + (client % 2) \in 0 .. 3
  <2>1. Cemi!Octet = {0, 1} /\ Cemi!Address = 0 .. 3  BY DEF Cemi!Octet, Cemi!Address
  <2> QED  BY <2>1 DEF Cemi!Candidates, Cemi!High, Cemi!Low
<1>1. client \in 0 .. 3  BY DEF Cemi!Address
<1> QED  BY <1>1

LEMMA HandedOutIsAddress == Cemi!Unset \in Cemi!Address /\ Cemi!HandedOut(Cemi!Unset) \in Cemi!Address
BY DEF Cemi!Unset, Cemi!HandedOut, Cemi!Address

LEMMA StartedSettled ==
    ASSUME NEW o, NEW c
    PROVE  Settled(o, c, <<>>, Cemi!Nothing, Cemi!Nothing, {})
<1>1. Len(<<>>) = 0  OBVIOUS
<1>2. Cemi!Nothing["stack"] = 0 /\ Cemi!Nothing["client"] = 0  BY DEF Cemi!Nothing, Cemi!Sender
<1> QED  BY <1>1, <1>2, CountEmpty DEF Settled

CemiStep ==
    \/ Cemi!StackSends \/ Cemi!ClientSends \/ Cemi!BusResult \/ Cemi!BusFrame
    \/ Cemi!OwnAddressWrite \/ Cemi!Button \/ Cemi!PropWriteProbe \/ Cemi!PropWriteAddress
    \/ Cemi!PropReadAddress \/ Cemi!Reset \/ Cemi!Restart \/ Cemi!BusConnection
    \/ UNCHANGED cemiVars

LEMMA CemiKeeps == CemiInv /\ CemiStep => CemiInv'
<1> SUFFICES ASSUME CemiInv, CemiStep PROVE CemiInv'  OBVIOUS
<1>1. CASE Cemi!StackSends \/ Cemi!ClientSends \/ Cemi!BusFrame  BY <1>1, SendersKeep
<1>2. CASE Cemi!BusResult  BY <1>2, BusResultKeeps
<1>3. CASE Cemi!OwnAddressWrite
  <2>1. PICK a \in Cemi!Address : Cemi!Readdress(a, client)  BY <1>3 DEF Cemi!OwnAddressWrite
  <2>2. client \in Cemi!Address  BY DEF CemiInv
  <2>3. UNCHANGED <<stored, busQueue, asked, confirmed, indicated>>
    BY <1>3 DEF Cemi!OwnAddressWrite, Cemi!traffic
  <2> QED  BY <2>1, <2>2, <2>3, ReaddressKeeps
<1>4. CASE Cemi!PropWriteAddress
  <2>1. UNCHANGED <<stored, busQueue, asked, confirmed, indicated>>
    BY <1>4 DEF Cemi!PropWriteAddress, Cemi!traffic
  <2>2. PICK candidate \in Cemi!Candidates :
           Cemi!Readdress(own, candidate) \/ UNCHANGED <<own, client, calm>>
    BY <1>4 DEF Cemi!PropWriteAddress
  <2>3. own \in Cemi!Address /\ candidate \in Cemi!Address
    BY CandidatesAreAddresses DEF CemiInv
  <2>4. CASE Cemi!Readdress(own, candidate)  BY <2>1, <2>3, <2>4, ReaddressKeeps
  <2>5. CASE UNCHANGED <<own, client, calm>>  BY <2>1, <2>5 DEF CemiInv
  <2> QED  BY <2>2, <2>4, <2>5
<1>5. CASE Cemi!Restart
  <2>1. /\ own' = stored /\ client' = Cemi!HandedOut(Cemi!Unset) /\ stored' = stored
        /\ busQueue' = <<>> /\ asked' = Cemi!Nothing /\ confirmed' = Cemi!Nothing /\ indicated' = {}
        /\ calm' = TRUE
    BY <1>5 DEF Cemi!Restart
  <2>2. Cemi!Nothing \in [Cemi!Sender -> Nat]  BY DEF Cemi!Nothing
  <2>3. Settled(own', client', busQueue', asked', confirmed', indicated')
    BY <2>1, StartedSettled
  <2>4. busQueue' \in Seq(Frame)  BY <2>1
  <2> QED  BY <2>1, <2>2, <2>3, <2>4, HandedOutIsAddress DEF CemiInv
<1>6. CASE Cemi!Reset
  <2>1. stored' = own /\ UNCHANGED <<own, client, busQueue, asked, confirmed, indicated, calm>>
    BY <1>6 DEF Cemi!Reset, Cemi!traffic
  <2> QED  BY <2>1 DEF CemiInv
<1>7. CASE \/ Cemi!Button \/ Cemi!PropWriteProbe \/ Cemi!PropReadAddress \/ Cemi!BusConnection
           \/ UNCHANGED cemiVars
  <2>1. UNCHANGED <<own, stored, client, busQueue, asked, confirmed, indicated, calm>>
    BY <1>7 DEF Cemi!Button, Cemi!PropWriteProbe, Cemi!PropReadAddress, Cemi!BusConnection,
                Cemi!addresses, Cemi!traffic, cemiVars
  <2> QED  BY <2>1 DEF CemiInv
<1> QED  BY <1>1, <1>2, <1>3, <1>4, <1>5, <1>6, <1>7 DEF CemiStep

LEMMA CemiStarts == Cemi!Init => CemiInv
<1> SUFFICES ASSUME Cemi!Init PROVE CemiInv  OBVIOUS
<1>1. /\ own = Cemi!Unset /\ stored = Cemi!Unset /\ client = Cemi!HandedOut(Cemi!Unset)
      /\ busQueue = <<>> /\ asked = Cemi!Nothing /\ confirmed = Cemi!Nothing /\ indicated = {}
      /\ calm = TRUE
  BY DEF Cemi!Init
<1>2. Cemi!Nothing \in [Cemi!Sender -> Nat]  BY DEF Cemi!Nothing
<1>3. Settled(own, client, busQueue, asked, confirmed, indicated)  BY <1>1, StartedSettled
<1>4. busQueue \in Seq(Frame)  BY <1>1
<1> QED  BY <1>1, <1>2, <1>3, <1>4, HandedOutIsAddress DEF CemiInv

LEMMA CemiOwners == CemiInv => Cemi!EachToItsOwner
<1> SUFFICES ASSUME CemiInv, calm
             PROVE  /\ confirmed = [from \in Cemi!Sender |->
                          IF from = "stack" THEN asked[from] - Cemi!Frames(from) ELSE 0]
                    /\ "client" \notin indicated
  BY DEF Cemi!EachToItsOwner
<1>1. /\ busQueue \in Seq(Frame) /\ confirmed \in [Cemi!Sender -> Nat]
      /\ Settled(own, client, busQueue, asked, confirmed, indicated)
  BY DEF CemiInv
<1>2. Cemi!Frames("stack") = Count(busQueue, "stack")  BY <1>1, FramesCounts
<1>3. /\ confirmed["stack"] = asked["stack"] - Cemi!Frames("stack") /\ confirmed["client"] = 0
      /\ "client" \notin indicated
  BY <1>1, <1>2 DEF Settled
<1>4. \A from \in Cemi!Sender : from = "stack" \/ from = "client"  BY DEF Cemi!Sender
<1>5. \A from \in Cemi!Sender :
         confirmed[from] = IF from = "stack" THEN asked[from] - Cemi!Frames(from) ELSE 0
  BY <1>3, <1>4
<1> QED  BY <1>1, <1>3, <1>5

-----------------------------------------------------------------------------
(* Both *)

LEMMA PartSteps == [MCNext]_allVars => RadioStep /\ CemiStep
<1> SUFFICES ASSUME [MCNext]_allVars PROVE RadioStep /\ CemiStep  OBVIOUS
<1>1. CASE \/ UNCHANGED allVars \/ OfValue(Next)
           \/ OfUsb(Usb!HostStarts) \/ OfUsb(Usb!ReceiveHidReport) \/ OfUsb(Usb!LoopSends)
           \/ OfUsb(Usb!LoopSkips) \/ OfUsb(Usb!LoopLooks)
           \/ OfUsb(Usb!LoadNextRxBuffer) \/ OfUsb(Usb!Unlink) \/ OfUsb(Usb!Mend) \/ OfUsb(Usb!Join)
           \/ OfUsb(Usb!Handle) \/ OfUsb(Usb!Drop) \/ OfUsb(Usb!Clear) \/ OfUsb(Usb!Done)
  <2>1. UNCHANGED <<radioVars, cemiVars>>  BY <1>1 DEF OfValue, OfUsb, media, allVars
  <2> QED  BY <2>1 DEF RadioStep, CemiStep
<1>2. CASE \/ OfRadio(Radio!ChipWaits) \/ OfRadio(Radio!ChipReceives) \/ OfRadio(Radio!ChipSends)
           \/ OfRadio(Radio!RxStart) \/ OfRadio(Radio!RxGivesWay) \/ OfRadio(Radio!RxTimeout)
           \/ OfRadio(Radio!RxActive) \/ OfRadio(Radio!RxEnd) \/ OfRadio(Radio!TxStart)
           \/ OfRadio(Radio!TxTimeout) \/ OfRadio(Radio!TxActive) \/ OfRadio(Radio!TxEnd)
           \/ OfRadio(Radio!PacketComesIn)
           \/ OfRadio(Radio!RxViolation) \/ OfRadio(Radio!SendFrame)
           \/ OfRadio(Radio!Disable) \/ OfRadio(Radio!Enable)
  BY <1>2 DEF OfRadio, RadioStep, CemiStep
<1>3. CASE \/ OfCemi(Cemi!StackSends) \/ OfCemi(Cemi!ClientSends) \/ OfCemi(Cemi!BusResult)
           \/ OfCemi(Cemi!BusFrame) \/ OfCemi(Cemi!OwnAddressWrite) \/ OfCemi(Cemi!Button)
           \/ OfCemi(Cemi!PropWriteProbe) \/ OfCemi(Cemi!PropWriteAddress)
           \/ OfCemi(Cemi!PropReadAddress) \/ OfCemi(Cemi!Reset) \/ OfCemi(Cemi!Restart)
           \/ OfCemi(Cemi!BusConnection)
  BY <1>3 DEF OfCemi, RadioStep, CemiStep
<1> QED  BY <1>1, <1>2, <1>3 DEF MCNext

\* Whatever the radio hands up has been read whole, and a packet of one refill is sent whole,
\* for any lengths of telegrams and however many octets pass between two calls of loop().
THEOREM PacketsAlwaysWhole == MCSpec => []PacketsWhole
<1>1. MCInit => RadioInv /\ RestInv  BY RadioStarts DEF MCInit
<1>2. RadioInv /\ RestInv /\ [MCNext]_allVars => RadioInv' /\ RestInv'
  BY PartSteps, RadioKeeps, RestKeeps
<1>3. RadioInv => PacketsWhole  BY RadioWhole DEF PacketsWhole
<1> QED  BY <1>1, <1>2, <1>3, PTL DEF MCSpec

\* While both use their own addresses, the local stack gets the confirmations of its frames,
\* one each, and the client none of them back as indications, for any queue and any traffic.
THEOREM ConfirmedToItsOwner == MCSpec => []EachToItsOwner
<1>1. MCInit => CemiInv  BY CemiStarts DEF MCInit
<1>2. CemiInv /\ [MCNext]_allVars => CemiInv'  BY PartSteps, CemiKeeps
<1>3. CemiInv => EachToItsOwner  BY CemiOwners DEF EachToItsOwner
<1> QED  BY <1>1, <1>2, <1>3, PTL DEF MCSpec

=============================================================================
