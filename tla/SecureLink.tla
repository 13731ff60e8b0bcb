----------------------------- MODULE SecureLink -----------------------------
(***************************************************************************)
(* Secured telegrams from one device to another, and the synchronisation   *)
(* of their sequence numbers: secure, decrypt and the handlers of          *)
(* src/src/knx/secure_application_layer.cpp, between the outgoing numbers  *)
(* of the sending device and the replay protection of the receiving one.   *)
(*                                                                         *)
(* Only numbers that travel from the sender to the receiver are modelled;  *)
(* the other direction is the same with the roles exchanged, and a step    *)
(* that needs it to succeed may fail.  Nobody forges a frame, but the      *)
(* network loses, delays, repeats and reorders frames at will: net is the  *)
(* set of all frames ever sent, and receiving one leaves it there.         *)
(***************************************************************************)
EXTENDS Naturals, Sequences, FiniteSets

CONSTANTS
    MaxSequence, Reservation,   \* as in OutgoingSequence
    MaxSync                     \* bound: how often each side starts a synchronisation

VARIABLES
    outgoing, sendingHealthy, factoryProvisioned,               \* the sender's
    replay, table, image, journal, receivingHealthy, delivered, \* the receiver's
    sync,       \* sync[d]: _outgoingSync of device d, its challenge (0: not active)
    challenges, \* challenges[d]: how many challenges d has drawn
    telegrams,  \* the numbers of the telegrams the sender sent (ghost)
    net

sending   == <<outgoing, sendingHealthy, factoryProvisioned>>
receiving == <<replay, table, image, journal, receivingHealthy, delivered>>
vars      == <<sending, receiving, sync, challenges, telegrams, net>>

DataAccess == {FALSE}
Sender == {"sender"}
Device == {"sender", "receiver"}

Sending == INSTANCE OutgoingSequence WITH Access <- DataAccess, journalHealthy <- sendingHealthy

Receiving == INSTANCE IncomingSequence WITH
    ToolSender <- {}, DataSlots <- 1, ToolSlots <- 1, journalHealthy <- receivingHealthy

counter == outgoing[FALSE]
peer    == Receiving!Data("sender")

\* Frames; to is the receiver of a synchronisation request or response.
Telegram(n)                    == [kind |-> "data", number |-> n]
Request(to, challenge, n)      == [kind |-> "request", to |-> to, challenge |-> challenge, number |-> n]
Response(to, challenge, n)     == [kind |-> "response", to |-> to, challenge |-> challenge, number |-> n]

-----------------------------------------------------------------------------
\* secure() takes a number; if it gets one, frame(number) goes out.
TakesNumber == counter'.sent # counter.sent
Taken       == counter'.sent[Len(counter'.sent)]

SendTelegram ==
    /\ Sending!ReserveOutgoingSequence(FALSE)
    /\ telegrams' = IF TakesNumber THEN Append(telegrams, Taken) ELSE telegrams
    /\ net' = IF TakesNumber THEN net \cup {Telegram(Taken)} ELSE net
    /\ UNCHANGED <<receiving, sync, challenges>>

\* decrypt of a secured telegram, which is rejected when its number is old
ReceiveTelegram(n) ==
    /\ Telegram(n) \in net
    /\ \/ Receiving!ReceiveData(peer, n)
       \/ n <= Receiving!LastValid(peer) /\ Receiving!ReceiveUnauthenticated(peer)
    /\ UNCHANGED <<sending, sync, challenges, telegrams, net>>

\* getRandomNumber: no challenge is drawn twice
Draw(d) == challenges[d] + 1

(* sendSyncRequest.  An expired request is dropped first (loop); a challenge is
   drawn; without a number the request is not sent and not registered. *)

SenderStartsSync ==
    /\ sync["sender"] = 0 /\ challenges["sender"] < MaxSync
    /\ Sending!ReserveOutgoingSequence(FALSE)
    /\ challenges' = [challenges EXCEPT !["sender"] = Draw("sender")]
    /\ sync' = IF TakesNumber THEN [sync EXCEPT !["sender"] = Draw("sender")] ELSE sync
    /\ net' = IF TakesNumber THEN net \cup {Request("receiver", Draw("sender"), Taken)} ELSE net
    /\ UNCHANGED <<receiving, telegrams>>

\* The receiver's own numbers are those of the other direction: 0 stands for any.
ReceiverStartsSync ==
    /\ sync["receiver"] = 0 /\ challenges["receiver"] < MaxSync
    /\ challenges' = [challenges EXCEPT !["receiver"] = Draw("receiver")]
    /\ sync' = [sync EXCEPT !["receiver"] = Draw("receiver")]
    /\ net' = net \cup {Request("sender", Draw("receiver"), 0)}
    /\ UNCHANGED <<sending, receiving, telegrams>>

\* seeded fault: the answer is the last number taken
AnsweredLast(f) == LET last == Receiving!LastValid(peer) IN
    IF f.number > last THEN f.number ELSE last

\* receivedSyncRequest: the number the receiver will take next
Answered(f) == LET last == Receiving!LastValid(peer) IN
    IF f.number > last + 1 THEN f.number ELSE last + 1

\* receivedSyncRequest in the receiver: what the sender skipped counts as taken,
\* durably, before the response.  It may also be left unanswered (rate limit).
ReceiverAnswersSync(f) ==
    LET last == Receiving!LastValid(peer)
    IN  /\ f \in net /\ f.kind = "request" /\ f.to = "receiver"
        /\ receivingHealthy /\ Receiving!Known(peer)
        /\ \E answer \in SUBSET {Response("sender", f.challenge, Answered(f))} :
              \/ /\ f.number <= last + 1
                 /\ replay' = Receiving!Queried(peer)
                 /\ UNCHANGED <<table, image, journal, receivingHealthy, delivered>>
                 /\ net' = IF last < MaxSequence THEN net \cup answer ELSE net
              \/ /\ f.number > last + 1
                 /\ \E write \in Receiving!Write :
                       /\ Receiving!AcceptIncomingSequence(peer, f.number - 1, write)
                       /\ net' = IF write = "ok" THEN net \cup answer ELSE net
                 /\ UNCHANGED delivered
    /\ UNCHANGED <<sending, sync, challenges, telegrams>>

\* receivedSyncRequest in the sender: sendSyncResponse tells the next number.
SenderAnswersSync(f) ==
    /\ f \in net /\ f.kind = "request" /\ f.to = "sender"
    /\ Sending!Advertise(FALSE)
    /\ net' = net \cup {Response("receiver", f.challenge, Sending!NextSequenceNumber(counter))}
    /\ UNCHANGED <<receiving, sync, challenges, telegrams>>

\* A response is authentic only with the challenge of the pending request: decrypt
\* recovers its nonce from it.
IsAwaited(f, d) ==
    /\ f \in net /\ f.kind = "response" /\ f.to = d
    /\ sync[d] # 0 /\ f.challenge = sync[d]

\* receivedSyncResponse in the sender: no number below the receiver's is used.
SenderSynchronised(f) ==
    /\ IsAwaited(f, "sender")
    /\ Sending!EnsureOutgoingSequenceAtLeast(FALSE, f.number)
    /\ sync' = IF counter'.next >= f.number THEN [sync EXCEPT !["sender"] = 0] ELSE sync
    /\ UNCHANGED <<receiving, challenges, telegrams, net>>

\* seeded fault: the advertised number itself counts as taken
ReceiverTakesNext(f) == f.number

\* All before the advertised number count as taken.
ReceiverTakes(f) == f.number - 1

\* receivedSyncResponse in the receiver; it may stay pending (ensureOutgoing...).
ReceiverSynchronised(f) ==
    /\ IsAwaited(f, "receiver")
    /\ sync' \in {sync, [sync EXCEPT !["receiver"] = 0]}
    /\ \/ /\ ReceiverTakes(f) > Receiving!LastValid(peer)
          /\ \E write \in Receiving!Write :
                /\ Receiving!AcceptIncomingSequence(peer, ReceiverTakes(f), write)
                /\ write # "ok" => sync' = sync
          /\ UNCHANGED delivered
       \/ /\ ReceiverTakes(f) <= Receiving!LastValid(peer)
          /\ receivingHealthy /\ Receiving!Known(peer)
          /\ replay' = Receiving!Queried(peer)
          /\ UNCHANGED <<table, image, journal, receivingHealthy, delivered>>
    /\ UNCHANGED <<sending, challenges, telegrams, net>>

\* loop(): a request is given up after six seconds.
SyncExpires(d) ==
    /\ sync[d] # 0
    /\ sync' = [sync EXCEPT ![d] = 0]
    /\ UNCHANGED <<sending, receiving, challenges, telegrams, net>>

-----------------------------------------------------------------------------
\* ETS lists the sender with a floor, once, and Memory saves the table some time.
Commission(n) ==
    /\ table = Receiving!NoTable /\ image = Receiving!NoTable /\ sync["sender"] = 0
    /\ Receiving!WriteTable("sender", "sender", n)
    /\ UNCHANGED <<sending, sync, challenges, telegrams, net>>

ReceiverSaves ==
    /\ Receiving!Save
    /\ UNCHANGED <<sending, sync, challenges, telegrams, net>>

SenderPowerCycle ==
    /\ Sending!PowerCycle
    /\ sync' = [sync EXCEPT !["sender"] = 0]
    /\ UNCHANGED <<receiving, challenges, telegrams, net>>

ReceiverPowerCycle ==
    /\ Receiving!PowerCycle
    /\ sync' = [sync EXCEPT !["receiver"] = 0]
    /\ UNCHANGED <<sending, challenges, telegrams, net>>

-----------------------------------------------------------------------------
Init ==
    /\ Sending!Init /\ Receiving!Init
    /\ sync = [d \in Device |-> 0] /\ challenges = [d \in Device |-> 0]
    /\ telegrams = <<>> /\ net = {}

Next ==
    \/ SendTelegram \/ SenderStartsSync \/ ReceiverStartsSync
    \/ \E n \in 1 .. MaxSequence : ReceiveTelegram(n) \/ Commission(n)
    \/ \E f \in net :
          \/ ReceiverAnswersSync(f) \/ SenderAnswersSync(f)
          \/ SenderSynchronised(f) \/ ReceiverSynchronised(f)
    \/ \E d \in Device : SyncExpires(d)
    \/ ReceiverSaves \/ SenderPowerCycle \/ ReceiverPowerCycle

Spec == Init /\ [][Next]_vars

-----------------------------------------------------------------------------
\* The receiver never takes a number for used that the sender will use: nothing
\* a synchronisation says, late or repeated, locks the sender out.
NotLockedOut ==
    sendingHealthy => Receiving!Recorded(peer) < counter.next

\* A synchronisation the sender completes puts it above all that the receiver
\* rejects, the floor ETS configured included: its next telegram is acceptable.
SyncHeals ==
    [][sync["sender"] # 0 /\ sync'["sender"] = 0 /\ (\E f \in net : SenderSynchronised(f)) =>
          counter'.next > Receiving!LastValid(peer)]_vars

\* The application of the receiver gets each telegram of the sender at most once
\* and in the order of sending, whatever the network repeats.
Position(n) == Cardinality({i \in 1 .. Len(telegrams) : telegrams[i] <= n})

Ordered == INSTANCE OrderedDelivery WITH
    Client <- {"sender"},
    Server <- {"receiver"},
    sent <- [m \in {"sender"} |-> Len(telegrams)],
    got  <- [n \in {"receiver"} |-> [m \in {"sender"} |->
                [i \in 1 .. Len(delivered[peer]) |-> Position(delivered[peer][i])]]]

ImplementsOrderedDelivery == Ordered!Spec

=============================================================================
