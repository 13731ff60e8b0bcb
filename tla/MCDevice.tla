------------------------------ MODULE MCDevice ------------------------------
(***************************************************************************)
(* What a device grants to those that ask: the management services         *)
(* (Management), and the slots of its tunnelling server (IpTunnelServer,   *)
(* with a management connection and addresses that ETS may give twice).    *)
(* Each behaviour is one of one of the two; the variables of the other do  *)
(* not change.                                                             *)
(***************************************************************************)
EXTENDS MCManagement, TLC

CONSTANTS Caller, MaxChannel

VARIABLES part, tunnels, lastChannelId, addresses, reservation, silent

Unreserved == [client |-> "nobody", option |-> "decline"]

Server == INSTANCE IpTunnelServer WITH
    Client <- Caller, Mortal <- {}, NTunnel <- 2, NMgmt <- 1, SeqMod <- 2,
    Configurations <- {<<1, 2>>, <<0, 1>>}, Reservations <- {<<Unreserved, Unreserved>>}

serverVars == <<tunnels, lastChannelId, addresses, reservation, silent>>
allVars    == <<part, vars, serverVars>>
allView    == <<part, view, serverVars>>

\* Every step of Management counts as an event.
OfServices(step) ==
    part = "services" /\ events < MaxEvent /\ step /\ UNCHANGED <<part, serverVars>>

OfServer(step)   == part = "server" /\ step /\ UNCHANGED <<part, vars>>

\* One value of each variable that does not take part
MCInit ==
    /\ part \in {"services", "server"}
    /\ Init /\ (part = "server" => provisioned /\ saved = Saved(device, CHOOSE g \in Garbage : TRUE))
    /\ Server!Init /\ (part = "services" => addresses = <<1, 2>>)

\* Next of either
MCNext ==
    \/ \E q \in Asked({"PropertyValueRead"}) : OfServices(PropertyValueRead(q))
    \/ \E q \in Asked({"PropertyValueExtRead"}) : OfServices(PropertyValueExtRead(q))
    \/ \E q \in Asked({"LocalRead"}) : OfServices(LocalRead(q))
    \/ \E q \in Asked({"PropertyValueWrite"}) : OfServices(PropertyValueWrite(q))
    \/ \E q \in Asked({"PropertyValueExtWriteCon", "PropertyValueExtWriteUnCon"}) : OfServices(PropertyValueExtWrite(q))
    \/ \E q \in Asked({"LocalWrite"}) : OfServices(LocalWrite(q))
    \/ \E q \in Asked({"FunctionPropertyCommand"}) : OfServices(FunctionPropertyCommand(q))
    \/ \E q \in Asked({"FunctionPropertyState"}) : OfServices(FunctionPropertyState(q))
    \/ \E q \in Asked({"FunctionPropertyExtCommand"}) : OfServices(FunctionPropertyExtCommand(q))
    \/ \E q \in Asked({"FunctionPropertyExtState"}) : OfServices(FunctionPropertyExtState(q))
    \/ \E q \in Asked({"LocalCommand", "LocalState"}) : OfServices(LocalFunction(q))
    \/ \E q \in Asked(Plain \cup {"UserMemoryWrite"}) : OfServices(MemoryWrite(q))
    \/ \E q \in Asked({"MemoryRead", "RoutingTableRead", "UserMemoryRead"}) : OfServices(MemoryRead(q))
    \/ \E q \in Asked({"MemoryExtWrite"}) : OfServices(MemoryExtWrite(q))
    \/ \E q \in Asked({"MemoryExtRead"}) : OfServices(MemoryExtRead(q))
    \/ \E q \in Asked({"IndividualAddressWrite"}) : OfServices(IndividualAddressWrite(q))
    \/ \E q \in Asked({"IndividualAddressSerialNumberWrite"}) : OfServices(SerialNumberWrite(q))
    \/ \E q \in Asked({"DomainAddressSerialNumberWrite"}) : OfServices(DomainAddressWrite(q))
    \/ \E q \in Asked({"IndividualAddressRead", "IndividualAddressSerialNumberRead",
                       "DomainAddressSerialNumberRead", "SystemNetworkParameterRead"}) : OfServices(BroadcastRead(q))
    \/ \E q \in Asked({"DeviceDescriptorRead", "ADCRead", "AuthorizeRequest",
                       "PropertyDescriptionRead"}) : OfServices(Enquiry(q))
    \/ \E q \in Asked({"Restart"}) : OfServices(Restart(q))
    \/ OfServices(ProgButton) \/ OfServices(LocalFactoryReset) \/ OfServices(DelayedSave)
    \/ OfServices(PowerLoss)
    \/ \E c \in Client : OfServices(PeerConnects(c)) \/ OfServices(RestartRequest(c))
    \/ OfServices(Disconnected) \/ OfServices(ConnectConfirm)
    \/ OfServices(SendRestart) \/ OfServices(FinishRestart)
    \/ OfServer(Server!Next)

MCSpec == MCInit /\ [][MCNext]_allVars

CallerSymmetry == Permutations(Caller)

\* Bound: one connection at a time has exchanged frames.
Talked(i) == tunnels[i].sent # 0 \/ tunnels[i].received = 0

OneTalks == \A i, j \in Server!Slot : Talked(i) /\ Talked(j) => i = j

ConnectionsDistinct == Server!ConnectionsDistinct

=============================================================================
