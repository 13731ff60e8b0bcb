------------------------- MODULE TransportRefinement -------------------------
(***************************************************************************)
(* With fixed roles (some devices connect, the others only serve) the      *)
(* transport layers implement OrderedDelivery.                             *)
(***************************************************************************)
EXTENDS TransportLayer

Server == Node \ Connector

Ordered == INSTANCE OrderedDelivery WITH
    Client <- Connector,
    Server <- Server,
    sent <- [m \in Connector |-> tl[m].sent],
    got  <- [n \in Server |-> [m \in Connector |->
                [i \in 1 .. Len(tl[n].delivered[m]) |-> tl[n].delivered[m][i].id]]]

\* Whatever connections, losses, repetitions and power cycles come between, a
\* server's application gets each telegram of a client at most once and in order
\* (E4 against E5 and E6, A1's reset of the sequence numbers, A9's repetitions).
ImplementsOrderedDelivery == Ordered!Spec

=============================================================================
