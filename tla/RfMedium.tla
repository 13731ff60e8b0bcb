------------------------------- MODULE RfMedium -------------------------------
(***************************************************************************)
(* The radio of an RF device: the transmit queue of the data link layer    *)
(* (rf_data_link_layer.cpp) and the state machine that drives the CC1101   *)
(* transceiver (rf_physical_layer_cc1101.cpp).  loop() is called now and   *)
(* then; in each call it looks at two pins of the chip and moves some      *)
(* octets from or to its FIFO.  Between two calls the chip sends or        *)
(* receives on its own.  Time is counted in octets on the air, about four  *)
(* in a millisecond.                                                       *)
(***************************************************************************)
EXTENDS Integers, Sequences, FiniteSets

CONSTANTS
    TelegramLengths,  \* lengths of the telegrams sent and received, in octets
    PromptSteps,    \* octets on the air between two calls of a prompt loop()
    LateSteps,      \* the same when other work keeps loop() from being called
    MaxFrame,       \* bound: frames given to sendFrame()
    MaxIncoming,    \* bound: packets that come in
    MaxStop         \* bound: times the medium is disabled

VARIABLES
    pace,        \* which of the two steps are made
    turn,        \* "chip" between two calls of loop(), "loop" before one
    enabled,     \* _enabled
    queue,       \* _tx_queue: the lengths of the telegrams that wait
    sendBuffer,  \* the telegram being sent, 0: none
    loopState,
    cpu,         \* the variables of the state machine, see RxStart
    chip,        \* the transceiver
    count        \* frames asked for, packets come in, stops: for the bounds

vars == <<pace, turn, enabled, queue, sendBuffer, loopState, cpu, chip, count>>

\* From the control field to the TPCI a telegram has at least seven octets.
RfAssumption ==
    /\ TelegramLengths \subseteq Nat /\ \A t \in TelegramLengths : t >= 7
    /\ PromptSteps \cup LateSteps \subseteq Nat \ {0}

FifoSize == 64
PacketTimeout == 84  \* 20 ms

Smaller(a, b) == IF a < b THEN a ELSE b

-----------------------------------------------------------------------------
(* The packet of a telegram: a length field, nine more octets and their    *)
(* checksum, then the telegram in blocks of up to 16 octets with a         *)
(* checksum each.                                                          *)
LengthField(telegram) == 9 + telegram
FitsMedium(telegram) == telegram > 0 /\ LengthField(telegram) <= 255
PacketLength(telegram) == 12 + telegram + 2 * ((telegram + 15) \div 16)

(* fillRfFrame(): the blocks written.                                      *)
Blocks(telegram) ==
    [i \in 1..((telegram + 15) \div 16) |-> Smaller(16, telegram - 16 * (i - 1))]
Filled(telegram) ==
    LET upTo[i \in 0..Len(Blocks(telegram))] ==
            IF i = 0 THEN 12 ELSE upTo[i - 1] + Blocks(telegram)[i] + 2
    IN upTo[Len(Blocks(telegram))]

(* PACKET_SIZE(): the length of a packet, from its length field.           *)
PacketSize(lField) == ((lField - 10) \div 16 + 2) * 2 + lField + 1

(* frameBytesReceived(): the length of the telegram left when the          *)
(* checksums are taken away.                                               *)
Stripped(packetLength) ==
    LET telegram[left \in 0..packetLength] ==
            IF left > 18 THEN 16 + telegram[left - 18] ELSE left - 2
    IN telegram[packetLength - 12]

(* For every telegram that fits, the sender's two computations of the      *)
(* packet's length, what it writes and the receiver's computation from the *)
(* length field agree, and the receiver is left with the telegram.  For    *)
(* addFrameTxQueue(), whose length "must remain identical to               *)
(* PACKET_SIZE(data[0])", fillRfFrame() and frameBytesReceived().          *)
FormatAgrees ==
    \A telegram \in {t \in 1..300 : FitsMedium(t)} :
        /\ Filled(telegram) = PacketLength(telegram)
        /\ PacketSize(LengthField(telegram)) = PacketLength(telegram)
        /\ Stripped(PacketSize(LengthField(telegram))) = telegram

PacketLengths == {PacketLength(t) : t \in {u \in TelegramLengths : FitsMedium(u)}}

-----------------------------------------------------------------------------
(* The chip.  `done` counts the octets of the packet received or sent so   *)
(* far, `moved` those that loop() has read or written; `length` is the     *)
(* length of the packet on the air, 0 when there is none; `spoilt` that    *)
(* the FIFO has been written beyond its size.                              *)
Idle == [mode |-> "idle", length |-> 0, done |-> 0, moved |-> 0,
         gdo0 |-> FALSE, spoilt |-> FALSE]
Listening == [Idle EXCEPT !.mode = "rx"]

InFifo(c) == IF c.mode = "tx" THEN c.moved - c.done ELSE c.done - c.moved

RxThreshold(p) == IF p.packetStart THEN 4 ELSE 32
Gdo2(c, p) == IF c.mode \in {"tx", "underflow"} THEN InFifo(c) >= 33
                                                ELSE InFifo(c) >= RxThreshold(p)

(* In fixed length mode the packet ends when the number of its octets      *)
(* agrees with PKTLEN, an octet; in infinite length mode it does not end.  *)
EndsWithin(c, k, length) ==
    cpu.fixedLengthMode /\ \E i \in 1..k : (c.done + i) % 256 = length % 256
EndOf(c, length) ==
    c.done + (CHOOSE i \in 1..256 : /\ (c.done + i) % 256 = length % 256
                                    /\ \A j \in 1..(i - 1) : (c.done + j) % 256 # length % 256)

Stopped(c, mode) == [c EXCEPT !.mode = mode, !.gdo0 = FALSE]

Received(c, k) ==
    LET ends == EndsWithin(c, k, cpu.pktLen)
        end  == IF ends THEN EndOf(c, cpu.pktLen) ELSE c.done + k
    IN IF end - c.moved > FifoSize
       THEN {Stopped([c EXCEPT !.done = c.moved + FifoSize], "overflow"),
             [c EXCEPT !.mode = "hung", !.done = c.moved + FifoSize]}
       ELSE {IF ends THEN Stopped([c EXCEPT !.done = end], "idle")
                     ELSE [c EXCEPT !.done = end]}

Transmitted(c, k) ==
    LET ends == EndsWithin(c, k, c.length)
        end  == IF ends THEN EndOf(c, c.length) ELSE c.done + k
    IN IF end > c.moved
       THEN Stopped([c EXCEPT !.done = c.moved], "underflow")
       ELSE IF ends THEN Stopped([c EXCEPT !.done = end], "idle")
                    ELSE [c EXCEPT !.done = end, !.gdo0 = TRUE]

Steps == IF pace = "prompt" THEN PromptSteps ELSE LateSteps

Between(k, c) ==
    /\ chip' = c
    /\ cpu' = [cpu EXCEPT !.wait = IF cpu.syncStart THEN Smaller(@ + k, PacketTimeout + 1) ELSE 0]
    /\ turn = "chip" /\ enabled /\ turn' = "loop"
    /\ UNCHANGED <<pace, enabled, queue, sendBuffer, loopState>>

ChipWaits ==
    /\ chip.mode \notin {"rx", "tx"} \/ (chip.mode = "rx" /\ chip.length = 0)
    /\ \E k \in Steps : Between(k, chip)
    /\ UNCHANGED count

ChipReceives ==
    /\ chip.mode = "rx" /\ chip.length > 0
    /\ \E k \in Steps : \E c \in Received(chip, k) : Between(k, c)
    /\ UNCHANGED count

PacketComesIn ==
    /\ chip.mode = "rx" /\ chip.length = 0
    /\ count.packets < MaxIncoming
    /\ \E k \in Steps, n \in PacketLengths :
          \E c \in Received([chip EXCEPT !.length = 2 * n, !.gdo0 = TRUE], k) : Between(k, c)
    /\ count' = [count EXCEPT !.packets = @ + 1]

ChipSends ==
    /\ chip.mode = "tx"
    /\ \E k \in Steps : Between(k, Transmitted(chip, k))
    /\ UNCHANGED count

-----------------------------------------------------------------------------
(* loop().  RX_START sets the variables and the registers for reception;   *)
(* the receive FIFO is flushed only if the chip is not receiving.          *)
Fresh == [syncStart |-> FALSE, packetStart |-> TRUE, fixedLengthMode |-> FALSE,
          prev0 |-> FALSE, prev2 |-> FALSE, pktLen |-> 0, bytesLeft |-> 0,
          aligned |-> TRUE, wait |-> 0]

Called == turn = "loop" /\ enabled /\ turn' = "chip" /\ UNCHANGED <<pace, enabled, count>>

RxStart ==
    /\ Called /\ loopState = "RX_START"
    /\ chip' = IF chip.mode = "rx" THEN chip ELSE Listening
    /\ cpu' = Fresh
    /\ loopState' = "RX_ACTIVE"
    /\ UNCHANGED <<queue, sendBuffer>>

MayTransmit == queue # <<>> /\ ~cpu.syncStart
(* seeded fault: the clock is not looked at in reception *)
RxTimedOutNever == FALSE

RxTimedOut == cpu.syncStart /\ cpu.wait > PacketTimeout

RxGivesWay ==
    /\ Called /\ loopState = "RX_ACTIVE" /\ MayTransmit
    /\ chip' = Idle
    /\ loopState' = "TX_START"
    /\ UNCHANGED <<queue, sendBuffer, cpu>>

RxTimeout ==
    /\ Called /\ loopState = "RX_ACTIVE" /\ ~MayTransmit /\ RxTimedOut
    /\ chip' = Idle
    /\ loopState' = "RX_START"
    /\ UNCHANGED <<queue, sendBuffer, cpu>>

(* A rising edge of GDO2: the first two octets hold the length, later 31   *)
(* are read at a time.  Octets that are not the start of a packet decode   *)
(* to any length.                                                          *)
Rises2 == Gdo2(chip, cpu) /\ ~cpu.prev2
LengthsRead == IF chip.moved = 0 THEN {chip.length} ELSE {2 * n : n \in PacketLengths}

(* seeded fault: the two octets read are counted again *)
FirstReadUncounted(length) ==
    [cpu EXCEPT !.prev2 = TRUE, !.pktLen = length, !.bytesLeft = length,
                !.packetStart = FALSE, !.fixedLengthMode = length < 256,
                !.aligned = chip.moved = 0]

FirstRead(length) ==
    [cpu EXCEPT !.prev2 = TRUE, !.pktLen = length, !.bytesLeft = length - 2,
                !.packetStart = FALSE, !.fixedLengthMode = length < 256,
                !.aligned = chip.moved = 0]

ReadSize == 32 - 1
LaterRead == [cpu EXCEPT !.prev2 = TRUE, !.bytesLeft = @ - ReadSize,
                         !.fixedLengthMode = @ \/ cpu.bytesLeft < 256]

AfterGdo2 ==   \* what the GDO2 part leaves: the variables and the octets read
    IF ~Rises2 THEN {<<[cpu EXCEPT !.prev2 = Gdo2(chip, cpu)], 0>>}
    ELSE IF cpu.packetStart THEN {<<FirstRead(n), 2>> : n \in LengthsRead}
    ELSE {<<LaterRead, ReadSize>>}

(* An edge of GDO0: a sync word has been received, or the packet is over.  *)
RxActive ==
    /\ Called /\ loopState = "RX_ACTIVE" /\ ~MayTransmit /\ ~RxTimedOut
    /\ \E r \in AfterGdo2 :
         LET p == [r[1] EXCEPT !.prev0 = chip.gdo0]
             rises == chip.gdo0 /\ ~cpu.prev0
             falls == ~chip.gdo0 /\ cpu.prev0
             over  == falls /\ chip.mode # "overflow" /\ ~p.packetStart
         IN /\ cpu' = IF rises THEN [p EXCEPT !.syncStart = TRUE, !.wait = 0] ELSE p
            /\ chip' = [chip EXCEPT !.moved = @ + r[2] + (IF over THEN p.bytesLeft ELSE 0)]
            /\ loopState' = CASE falls /\ chip.mode = "overflow" -> "RX_START"
                              [] over -> "RX_END"
                              [] OTHER -> "RX_ACTIVE"
    /\ UNCHANGED <<queue, sendBuffer>>

(* The two octets are no Manchester code.                                  *)
RxViolation ==
    /\ Called /\ loopState = "RX_ACTIVE" /\ ~MayTransmit /\ ~RxTimedOut
    /\ Rises2 /\ cpu.packetStart
    /\ chip' = [chip EXCEPT !.moved = @ + 2]
    /\ loopState' = "RX_START"
    /\ UNCHANGED <<queue, sendBuffer, cpu>>

(* The packet is decoded and handed up, frameBytesReceived(), which drops  *)
(* it unless all its checksums are right and it is for this domain.        *)
RxEnd ==
    /\ Called /\ loopState = "RX_END"
    /\ loopState' = "RX_START"
    /\ UNCHANGED <<queue, sendBuffer, cpu, chip>>

(* TX_START loads the next packet, Manchester encoded twice as long and    *)
(* with an octet before and one behind it, fills the FIFO and goes on with *)
(* TX_ACTIVE in the same call.                                             *)
Encoded(n) == 2 * n + 2
FirstFill(n) == Smaller(FifoSize, Encoded(n))

MaxPacketLength == 290

TxStart ==
    /\ Called /\ loopState = "TX_START" /\ queue # <<>>
    /\ queue' = Tail(queue)
    /\ LET n == PacketSize(LengthField(Head(queue)))
       IN IF n = PacketLength(Head(queue)) /\ n <= MaxPacketLength
          THEN /\ sendBuffer' = Head(queue)
               /\ chip' = [Idle EXCEPT !.mode = "tx", !.length = Encoded(n),
                                       !.moved = FirstFill(n)]
               /\ cpu' = [cpu EXCEPT !.prev0 = FALSE, !.prev2 = FirstFill(n) >= 33,
                                     !.pktLen = n, !.bytesLeft = Encoded(n) - FirstFill(n),
                                     !.fixedLengthMode = Encoded(n) < 256]
               /\ loopState' = "TX_ACTIVE"
          ELSE loopState' = "RX_START" /\ UNCHANGED <<sendBuffer, chip, cpu>>

TxTimedOut == cpu.syncStart /\ cpu.wait > PacketTimeout

TxTimeout ==
    /\ Called /\ loopState = "TX_ACTIVE" /\ TxTimedOut
    /\ chip' = Idle
    /\ loopState' = "TX_END"
    /\ UNCHANGED <<queue, sendBuffer, cpu>>

(* A falling edge of GDO2: the FIFO is filled up again.                    *)
Refill == IF ~Gdo2(chip, cpu) /\ cpu.prev2 THEN Smaller(FifoSize, cpu.bytesLeft) ELSE 0

TxActive ==
    /\ Called /\ loopState = "TX_ACTIVE" /\ ~TxTimedOut
    /\ LET rises == chip.gdo0 /\ ~cpu.prev0
           falls == ~chip.gdo0 /\ cpu.prev0
           left  == cpu.bytesLeft - Refill
       IN /\ cpu' = [cpu EXCEPT !.prev2 = Gdo2(chip, cpu), !.prev0 = chip.gdo0,
                                !.bytesLeft = left,
                                !.fixedLengthMode = @ \/ (Refill > 0 /\ left < 256 - 64),
                                !.syncStart = @ \/ rises,
                                !.wait = IF rises THEN 0 ELSE @]
          /\ chip' = [chip EXCEPT !.moved = @ + Refill,
                                  !.spoilt = @ \/ InFifo(chip) + Refill > FifoSize]
          /\ loopState' = IF falls THEN "TX_END" ELSE "TX_ACTIVE"
    /\ UNCHANGED <<queue, sendBuffer>>

TxEnd ==
    /\ Called /\ loopState = "TX_END"
    /\ sendBuffer' = 0
    /\ loopState' = "RX_START"
    /\ UNCHANGED <<queue, cpu, chip>>

-----------------------------------------------------------------------------
(* sendFrame(), called between two calls of loop(): a frame that is too    *)
(* long for the length field or comes while the medium is disabled is      *)
(* confirmed negatively and forgotten, any other is queued and confirmed   *)
(* at once.                                                                *)
SendFrame ==
    /\ turn = "chip" /\ count.frames < MaxFrame
    /\ \E t \in TelegramLengths :
          queue' = IF enabled /\ FitsMedium(t) THEN Append(queue, t) ELSE queue
    /\ count' = [count EXCEPT !.frames = @ + 1]
    /\ UNCHANGED <<pace, turn, enabled, sendBuffer, loopState, cpu, chip>>

(* enabled(): the chip is stopped, with it the packet being sent, or       *)
(* started again.                                                          *)
Disable ==
    /\ turn = "chip" /\ enabled /\ count.stops < MaxStop
    /\ enabled' = FALSE
    /\ chip' = Idle /\ sendBuffer' = 0 /\ loopState' = "RX_START"
    /\ count' = [count EXCEPT !.stops = @ + 1]
    /\ UNCHANGED <<pace, turn, queue, cpu>>

Enable ==
    /\ ~enabled
    /\ enabled' = TRUE
    /\ chip' = Idle /\ turn' = "chip"
    /\ UNCHANGED <<pace, queue, sendBuffer, loopState, cpu, count>>

Init ==
    /\ pace \in {"prompt", "late"}
    /\ turn = "chip" /\ enabled = FALSE /\ queue = <<>> /\ sendBuffer = 0
    /\ loopState = "RX_START" /\ cpu = Fresh /\ chip = Idle
    /\ count = [frames |-> 0, packets |-> 0, stops |-> 0]

Air == ChipWaits \/ ChipReceives \/ ChipSends
Loop == \/ RxStart \/ RxGivesWay \/ RxTimeout \/ RxActive \/ RxEnd
        \/ TxStart \/ TxTimeout \/ TxActive \/ TxEnd

Next == Air \/ PacketComesIn \/ Loop \/ RxViolation \/ SendFrame \/ Disable \/ Enable

(* loop() is called for ever, the chip goes on, a disabled medium is       *)
(* enabled again.                                                          *)
Fairness == WF_vars(Air) /\ WF_vars(Loop) /\ WF_vars(Enable)

Spec == Init /\ [][Next]_vars /\ Fairness

-----------------------------------------------------------------------------
(* A packet that loop() hands up has been read from the FIFO to its last   *)
(* octet and not beyond, as long as its length was read from its start:    *)
(* what the length mode, the thresholds and the reads of 31 octets must    *)
(* add up to, whenever loop() is called.  For the states RX_ACTIVE and     *)
(* RX_END of loop().                                                       *)
ReadWhole ==
    loopState = "RX_END" /\ cpu.aligned =>
        chip.moved = chip.length /\ chip.done = chip.length

(* A packet the chip has sent to its end has been written to its last      *)
(* octet, nothing but it, and the FIFO was not overrun, as long as the     *)
(* packet takes one refill: a further refill of 64 octets does not fit     *)
(* behind the 32 that are left.  For TX_START and TX_ACTIVE of loop().     *)
SentWhole ==
    loopState \in {"TX_ACTIVE", "TX_END"} /\ chip.mode = "idle"
        /\ chip.length \in 1..(FifoSize + 32) =>
        chip.done = Encoded(PacketLength(sendBuffer)) /\ chip.moved = chip.done /\ ~chip.spoilt

(* Both directions: what was handed over is the whole packet.              *)
PacketsWhole == ReadWhole /\ SentWhole

(* With a loop() that is called in time every frame leaves the queue and   *)
(* the radio, also when the chip hangs in reception.  For the time-outs of *)
(* RX_ACTIVE and TX_ACTIVE.                                                *)
Drained == pace = "prompt" => queue = <<>> /\ sendBuffer = 0
QueueDrains == []<>Drained

(* Does not hold, though the comments at the time-out say so: whenever     *)
(* loop() is called, a transmission ends.  A packet that begins and ends   *)
(* between two calls leaves TX_ACTIVE waiting for an edge.                 *)
TransmissionEnds == (loopState = "TX_ACTIVE") ~> (loopState # "TX_ACTIVE")
=============================================================================
