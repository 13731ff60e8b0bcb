------------------------------ MODULE MCDataLink ------------------------------
(***************************************************************************)
(* A telegram below the network layer: its payload (GroupValue) and the    *)
(* three ways onto a medium besides KNXnet/IP: the USB interface, the cEMI *)
(* server with the data link layer of twisted pair, and the radio.  Each   *)
(* behaviour is one of one of the four; the variables of the others keep   *)
(* their initial values.                                                   *)
(***************************************************************************)
EXTENDS MCGroupValue

CONSTANTS Bodies, MaxTransfer,
          TelegramLengths, PromptSteps, LateSteps, MaxRadioFrame, MaxIncoming, MaxStop,
          MaxQueue, MaxFrame, MaxChange

VARIABLES part,
          manner, sent, next, queue, back, complete, pc, held, packet, handled, tx,
          answered, corrupt,
          pace, turn, enabled, radioQueue, sendBuffer, loopState, cpu, chip, count,
          own, stored, client, progMode, connected, busQueue, asked, confirmed,
          indicated, answer, duplicate, calm, changes

Usb   == INSTANCE UsbTunnel
Radio == INSTANCE RfMedium WITH queue <- radioQueue, MaxFrame <- MaxRadioFrame
Cemi  == INSTANCE CemiServer WITH tx <- busQueue

\* Sender and receiver agree on the format of every telegram.
ASSUME Radio!FormatAgrees

ASSUME RadioAssumption == Radio!RfAssumption

usbVars   == <<manner, sent, next, queue, back, complete, pc, held, packet, handled, tx,
               answered, corrupt>>
radioVars == <<pace, turn, enabled, radioQueue, sendBuffer, loopState, cpu, chip, count>>
cemiVars  == <<own, stored, client, progMode, connected, busQueue, asked, confirmed,
               indicated, answer, duplicate, calm, changes>>
media     == <<usbVars, radioVars, cemiVars>>
allVars   == <<part, vars, media>>

OfValue(step) == part = "value" /\ step /\ UNCHANGED <<part, media>>
OfUsb(step)   == part = "usb" /\ step /\ UNCHANGED <<part, vars, radioVars, cemiVars>>
OfRadio(step) == part = "radio" /\ step /\ UNCHANGED <<part, vars, usbVars, cemiVars>>
OfCemi(step)  == part = "cemi" /\ step /\ UNCHANGED <<part, vars, usbVars, radioVars>>

\* The parts that do not take part stand at one of their initial states
MCInit ==
    /\ part \in {"value", "usb", "radio", "cemi"}
    /\ Init /\ (part # "value" => dpt = "1.001" /\ saturated /\ size = 1)
    /\ Usb!Init /\ (part = "usb" \/ manner = "patient")
    /\ Radio!Init /\ (part = "radio" \/ pace = "prompt")
    /\ Cemi!Init

MCNext ==
    \/ OfValue(Next)
    \/ OfUsb(Usb!HostStarts) \/ OfUsb(Usb!ReceiveHidReport) \/ OfUsb(Usb!LoopSends)
    \/ OfUsb(Usb!LoopSkips) \/ OfUsb(Usb!LoopLooks)
    \/ OfUsb(Usb!LoadNextRxBuffer) \/ OfUsb(Usb!Unlink) \/ OfUsb(Usb!Mend) \/ OfUsb(Usb!Join)
    \/ OfUsb(Usb!Handle) \/ OfUsb(Usb!Drop) \/ OfUsb(Usb!Clear) \/ OfUsb(Usb!Done)
    \/ OfRadio(Radio!ChipWaits) \/ OfRadio(Radio!ChipReceives) \/ OfRadio(Radio!ChipSends)
    \/ OfRadio(Radio!RxStart) \/ OfRadio(Radio!RxGivesWay) \/ OfRadio(Radio!RxTimeout)
    \/ OfRadio(Radio!RxActive) \/ OfRadio(Radio!RxEnd) \/ OfRadio(Radio!TxStart)
    \/ OfRadio(Radio!TxTimeout) \/ OfRadio(Radio!TxActive) \/ OfRadio(Radio!TxEnd)
    \/ OfRadio(Radio!PacketComesIn)
    \/ OfRadio(Radio!RxViolation) \/ OfRadio(Radio!SendFrame)
    \/ OfRadio(Radio!Disable) \/ OfRadio(Radio!Enable)
    \/ OfCemi(Cemi!StackSends) \/ OfCemi(Cemi!ClientSends) \/ OfCemi(Cemi!BusResult)
    \/ OfCemi(Cemi!BusFrame) \/ OfCemi(Cemi!OwnAddressWrite) \/ OfCemi(Cemi!Button)
    \/ OfCemi(Cemi!PropWriteProbe) \/ OfCemi(Cemi!PropWriteAddress)
    \/ OfCemi(Cemi!PropReadAddress) \/ OfCemi(Cemi!Reset) \/ OfCemi(Cemi!Restart)
    \/ OfCemi(Cemi!BusConnection)

Fairness ==
    /\ WF_allVars(OfUsb(Usb!ReceiveHidReport))
    /\ WF_allVars(OfUsb(Usb!LoopSteps \/ Usb!LoopSkips))
    /\ SF_allVars(OfUsb(Usb!LoopSends))
    /\ WF_allVars(OfRadio(Radio!Air)) /\ WF_allVars(OfRadio(Radio!Loop)) /\ WF_allVars(OfRadio(Radio!Enable))

MCSpec == MCInit /\ [][MCNext]_allVars /\ Fairness

EachToItsOwner == part = "cemi" => Cemi!EachToItsOwner
PacketsWhole   == part = "radio" => Radio!PacketsWhole
QueueDrains    == []<>(part = "radio" => Radio!Drained)
PatientServed  == []<>(part = "usb" => Usb!Served)
=============================================================================
