------------------------------ MODULE UsbTunnel ------------------------------
(***************************************************************************)
(* The USB interface of a cEMI server (usb_tunnel_interface.cpp).  A host  *)
(* sends transfers, each split into up to five HID reports.  The reports   *)
(* arrive in an interrupt, which links them into a list and raises a flag  *)
(* after the last one; loop() takes the list apart, one pointer at a time, *)
(* handles the transfer and lowers the flag.  The interrupt may come       *)
(* between any two of these steps and runs to its end.  The answers are    *)
(* queued and sent one report per loop().                                  *)
(***************************************************************************)
EXTENDS Integers, Sequences, FiniteSets

CONSTANTS
    Bodies,      \* lengths of the bodies of the frames the host sends
    MaxTransfer  \* bound: transfers the host starts

VARIABLES
    manner,    \* how the host behaves, see Manners
    sent,      \* the transfers the host has started, oldest first
    next,      \* the number of the report the host sends next, 0: none is due
    queue,     \* the list that starts at _rx_queue.front
    back,      \* the node _rx_queue.back points to
    complete,  \* rxHaveCompletePacket
    pc,        \* where loop() stands
    held,      \* the node loop() has read from the front of the list
    packet,    \* the reports put together so far, tpPacket
    handled,   \* the packets handled, each the sequence of its reports
    tx,        \* _tx_queue
    answered,  \* the transfers whose answer has reached the host
    corrupt    \* memory that had been given back has been used

hostVars == <<manner, sent, next, answered>>
listVars == <<queue, back>>
loopVars == <<pc, held, packet, handled>>
vars == <<hostVars, listVars, loopVars, complete, tx, corrupt>>

None == [of |-> 0, seq |-> 0, end |-> FALSE, size |-> 0]

(* A patient host has one transfer under way and waits for its answer; an  *)
(* eager one starts the next when it has sent the last; a restless one     *)
(* may also give up a transfer half sent.                                  *)
Manners == {"patient", "eager", "restless"}

-----------------------------------------------------------------------------
(* The reports of a transfer: at most 52 octets of the body go with the    *)
(* header into the first, at most 61 into each of the others.              *)
Header == 8
FirstSize == 52
NextSize == 61
MaxReports == 5
MaxBody == FirstSize + (MaxReports - 1) * NextSize
MaxPacket == 265 + Header   \* tpPacket: MAX_KNX_TELEGRAM_SIZE and the header

Count(body) == IF body <= FirstSize
               THEN 1
               ELSE 1 + (body - FirstSize + NextSize - 1) \div NextSize

Size(body, i) ==
    CASE i = 1 -> Header + (IF body < FirstSize THEN body ELSE FirstSize)
      [] i > 1 -> LET rest == body - FirstSize - (i - 2) * NextSize
                  IN IF rest < NextSize THEN rest ELSE NextSize

Reports(t, body) ==
    [i \in 1..Count(body) |->
        [of |-> t, seq |-> i, end |-> i = Count(body), size |-> Size(body, i)]]

SendKnxHidReport(t, body) == IF body > MaxBody THEN <<>> ELSE Reports(t, body)

(* What the host asks: a cEMI frame is confirmed by a frame of its own     *)
(* length, a feature of the interface is answered in three octets, and the *)
(* setting of a feature is not answered at all.                            *)
Requests == [service : {"frame"}, body : Bodies]
              \cup {[service |-> "get", body |-> 1], [service |-> "set", body |-> 2]}
Answerable(request) == request.service # "set"
Answer(t) == CASE sent[t].service = "frame" -> SendKnxHidReport(t, sent[t].body)
               [] sent[t].service = "get"   -> SendKnxHidReport(t, 3)
               [] OTHER -> <<>>

Init ==
    /\ manner \in Manners
    /\ sent = <<>> /\ next = 0 /\ answered = {}
    /\ queue = <<>> /\ back = None /\ complete = FALSE
    /\ pc = "tx" /\ held = None /\ packet = <<>> /\ handled = <<>>
    /\ tx = <<>> /\ corrupt = FALSE

-----------------------------------------------------------------------------
(* The host.                                                               *)
MayStart ==
    CASE manner = "patient"  -> next = 0 /\ answered = 1..Len(sent)
      [] manner = "eager"    -> next = 0
      [] manner = "restless" -> TRUE

HostStarts ==
    /\ Len(sent) < MaxTransfer /\ MayStart
    /\ \E request \in Requests :
           /\ manner = "patient" => Answerable(request)
           /\ sent' = Append(sent, request)
    /\ next' = 1
    /\ UNCHANGED <<manner, answered, listVars, loopVars, complete, tx, corrupt>>

(* clearRxQueue() in the interrupt: also the node loop() is just reading   *)
(* is given back.                                                          *)
ClearRxQueue ==
    /\ queue' = <<>> /\ back' = None
    /\ corrupt' = (corrupt \/ pc = "unlink")

(* addBufferRxQueue(): the new node is linked behind the node back points  *)
(* to, which the list need not contain any more.                           *)
AddBufferRxQueue(report) ==
    /\ back' = report
    /\ queue' = IF back = None \/ queue # <<>> THEN Append(queue, report) ELSE queue
    /\ corrupt' = (corrupt \/ (pc = "clear" /\ back # None))

(* receiveHidReport(), called from an interrupt.                           *)
Enqueue(report) ==
    /\ AddBufferRxQueue(report)
    /\ complete' = (complete \/ report.end)

ReceiveFirst(report) ==
    \/ /\ queue = <<>>
       /\ Enqueue(report)
    \/ /\ queue # <<>> /\ complete
       /\ UNCHANGED <<listVars, complete, corrupt>>
    \/ /\ queue # <<>> /\ ~complete
       /\ queue' = <<report>> /\ back' = report
       /\ corrupt' = (corrupt \/ pc = "unlink")
       /\ complete' = report.end

Continues(report) == back # None /\ back.seq + 1 = report.seq /\ ~back.end

ReceiveNext(report) ==
    \/ Continues(report) /\ Enqueue(report)
    \/ ~Continues(report) /\ ClearRxQueue /\ UNCHANGED complete

ReceiveHidReport ==
    /\ next > 0 /\ ~corrupt
    /\ LET report == Reports(Len(sent), sent[Len(sent)].body)[next]
       IN /\ \/ next = 1 /\ ReceiveFirst(report)
             \/ next > 1 /\ ReceiveNext(report)
          /\ next' = IF report.end THEN 0 ELSE next + 1
    /\ UNCHANGED <<manner, sent, answered, loopVars, tx>>

-----------------------------------------------------------------------------
(* loop(): first a report to the host, if the USB hardware is ready for it *)
LoopSends ==
    /\ pc = "tx" /\ ~corrupt /\ tx # <<>>
    /\ tx' = Tail(tx)
    /\ answered' = IF Head(tx).end THEN answered \cup {Head(tx).of} ELSE answered
    /\ pc' = "rx"
    /\ UNCHANGED <<manner, sent, next, listVars, complete, held, packet, handled, corrupt>>

LoopSkips ==
    /\ pc = "tx" /\ ~corrupt
    /\ pc' = "rx"
    /\ UNCHANGED <<hostVars, listVars, complete, held, packet, handled, tx, corrupt>>

(* then a packet from the host, if one is complete.                        *)
LoopLooks ==
    /\ pc = "rx" /\ ~corrupt
    /\ pc' = CASE ~complete -> "tx"
               [] complete /\ queue = <<>> -> "done"
               [] complete /\ queue # <<>> -> "load"
    /\ packet' = <<>>
    /\ UNCHANGED <<hostVars, listVars, complete, held, handled, tx, corrupt>>

(* loadNextRxBuffer(), in three steps: front is read, then moved on, and   *)
(* back is reset when the list has become empty.                           *)
LoadNextRxBuffer ==
    /\ pc = "load" /\ ~corrupt
    /\ IF queue = <<>>
       THEN pc' = "drop" /\ UNCHANGED held
       ELSE pc' = "unlink" /\ held' = Head(queue)
    /\ UNCHANGED <<hostVars, listVars, complete, packet, handled, tx, corrupt>>

Unlink ==
    /\ pc = "unlink" /\ ~corrupt
    /\ queue' = Tail(queue)
    /\ pc' = IF queue' = <<>> THEN "mend" ELSE "join"
    /\ UNCHANGED <<hostVars, back, complete, held, packet, handled, tx, corrupt>>

(* seeded fault: back keeps pointing to the node that is given back *)
MendNot ==
    /\ pc = "mend" /\ ~corrupt
    /\ pc' = "join"
    /\ UNCHANGED <<hostVars, queue, back, complete, held, packet, handled, tx, corrupt>>

Mend ==
    /\ pc = "mend" /\ ~corrupt
    /\ back' = None
    /\ pc' = "join"
    /\ UNCHANGED <<hostVars, queue, complete, held, packet, handled, tx, corrupt>>

(* handleHidReportRxQueue(): the reports are put together as long as their *)
(* numbers follow each other and they fit into the buffer.                 *)
Joined(parts) == IF parts = <<>> THEN 0
                 ELSE LET f[i \in 0..Len(parts)] ==
                              IF i = 0 THEN 0 ELSE f[i - 1] + parts[i].size
                      IN f[Len(parts)]

Fits == held.seq = Len(packet) + 1 /\ held.size <= MaxPacket - Joined(packet)

Join ==
    /\ pc = "join" /\ ~corrupt
    /\ IF Fits
       THEN /\ packet' = Append(packet, held)
            /\ pc' = CASE held.end -> "handle"
                       [] ~held.end /\ held.seq < MaxReports -> "load"
                       [] OTHER -> "done"
       ELSE packet' = packet /\ pc' = "drop"
    /\ held' = None
    /\ UNCHANGED <<hostVars, listVars, complete, handled, tx, corrupt>>

(* handleTransferProtocolPacket() and what it calls: the length in the     *)
(* header of the first report must be that of the reports put together.    *)
LengthAgrees == Joined(packet) = Header + sent[packet[1].of].body

Handle ==
    /\ pc = "handle" /\ ~corrupt
    /\ IF LengthAgrees
       THEN /\ handled' = Append(handled, packet)
            /\ tx' = tx \o Answer(packet[1].of)
       ELSE UNCHANGED <<handled, tx>>
    /\ packet' = <<>>
    /\ pc' = "done"
    /\ UNCHANGED <<hostVars, listVars, complete, held, corrupt>>

(* clearRxQueue() in loop(), after a malformed packet.                     *)
Drop ==
    /\ pc = "drop" /\ ~corrupt
    /\ queue' = <<>>
    /\ pc' = "clear"
    /\ UNCHANGED <<hostVars, back, complete, held, packet, handled, tx, corrupt>>

Clear ==
    /\ pc = "clear" /\ ~corrupt
    /\ back' = None
    /\ pc' = "done"
    /\ UNCHANGED <<hostVars, queue, complete, held, packet, handled, tx, corrupt>>

Done ==
    /\ pc = "done" /\ ~corrupt
    /\ complete' = FALSE
    /\ packet' = <<>>
    /\ pc' = "tx"
    /\ UNCHANGED <<hostVars, listVars, held, handled, tx, corrupt>>

LoopSteps == \/ LoopLooks \/ LoadNextRxBuffer \/ Unlink \/ Mend \/ Join
             \/ Handle \/ Drop \/ Clear \/ Done

Next == \/ HostStarts \/ ReceiveHidReport
        \/ LoopSends \/ LoopSkips \/ LoopSteps

(* loop() runs for ever, the host sends the reports of what it has started *)
(* and the USB hardware is ready again and again.                          *)
Fairness == /\ WF_vars(ReceiveHidReport)
            /\ WF_vars(LoopSteps \/ LoopSkips)
            /\ SF_vars(LoopSends)

Spec == Init /\ [][Next]_vars /\ Fairness

-----------------------------------------------------------------------------
WholeTransfer(parts) ==
    LET t == parts[1].of IN
    /\ \A i \in DOMAIN parts : parts[i] = [of |-> t, seq |-> i,
           end |-> i = Count(sent[t].body), size |-> Size(sent[t].body, i)]
    /\ Len(parts) = Count(sent[t].body)

(* Each packet handled is one transfer, whole and in order, whatever the   *)
(* host does.  What the comment at receiveHidReport() says of its check of *)
(* the numbers, which "prevents unrelated transfers from being spliced     *)
(* together".                                                              *)
NeverSpliced == \A k \in DOMAIN handled : WholeTransfer(handled[k])

(* A host that waits for its answers gets each of them: the flag that is   *)
(* lowered after the handling never hides a transfer that has arrived      *)
(* meanwhile, and the list stays intact.  For loop(), which handles the    *)
(* queue and lowers the flag only then.                                    *)
Served == manner = "patient" => answered = 1..Len(sent)
PatientServed == []<>Served
=============================================================================
