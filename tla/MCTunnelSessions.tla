-------------------------- MODULE MCTunnelSessions --------------------------
(***************************************************************************)
(* Who may hold a tunnel, and for how long: reserved tunnels and clients   *)
(* that fall silent (IpTunnelServer), and secure sessions (SecureSessions).*)
(* Each behaviour is one of one of the two; the variables of the other     *)
(* keep their initial values.                                              *)
(***************************************************************************)
EXTENDS MCIpTunnelServer

CONSTANTS Endpoint, Handle, NSession, SessionTunnels, MaxId, User, Version, SessionTimeout, AuthTimeout,
          MaxKey, MaxFrame, MaxEvent

VARIABLES part,
          sessions, streams, nextId, credentials, sessionTunnels, clients, instances, heard,
          refused, events

Secure == INSTANCE SecureSessions WITH NTunnel <- SessionTunnels, tunnels <- sessionTunnels

ASSUME SessionsAssumption == Secure!SecureSessionsAssumption

sessionVars == <<sessions, streams, nextId, credentials, sessionTunnels, clients, instances, heard,
                 refused, events>>
allVars     == <<part, vars, sessionVars>>

OfPlain(step)  == part = "plain" /\ step /\ UNCHANGED <<part, sessionVars>>
OfSecure(step) == part = "secure" /\ step /\ UNCHANGED <<part, vars>>

MCInit ==
    /\ part \in {"plain", "secure"}
    /\ Init /\ (part = "secure" => reservation \in NoReservation)
    /\ Secure!Init

MCNext == OfPlain(Next) \/ OfSecure(Secure!Next)

MCSpec ==
    /\ MCInit /\ [][MCNext]_allVars
    /\ WF_allVars(OfPlain(Loop)) /\ \A i \in Slot : WF_allVars(OfPlain(Elapse(i)))
    /\ WF_allVars(OfSecure(Secure!Loop))

SessionsCoherent == Secure!SessionsCoherent
NothingRevoked   == Secure!NothingRevoked
SlotsReturn      == Secure!SlotsReturn

=============================================================================
