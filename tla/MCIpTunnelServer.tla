-------------------------- MODULE MCIpTunnelServer --------------------------
(***************************************************************************)
(* Small instances of IpTunnelServer: two tunnels, individual addresses 1  *)
(* and 2.                                                                  *)
(***************************************************************************)
EXTENDS IpTunnelServer

CONSTANTS c1, c2

TwoClients == {c1, c2}

Unreserved     == [client |-> Nobody, option |-> "decline"]
For(c, option) == [client |-> c, option |-> option]

\* What ETS may write
ProperAddresses == {<<1, 2>>}

NoReservation == {<<Unreserved, Unreserved>>}

ForTheFirst ==
    {<<For(c1, option), Unreserved>> : option \in Option} \cup NoReservation

=============================================================================
