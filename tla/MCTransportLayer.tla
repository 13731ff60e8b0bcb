-------------------------- MODULE MCTransportLayer --------------------------
(***************************************************************************)
(* Small instances of TransportLayer.  Devices are model values.           *)
(***************************************************************************)
EXTENDS TransportRefinement, TLC

CONSTANTS a, b

TwoDevices   == {a, b}
OneConnector == {a}

AllTypes        == TpduType
AllButConnect   == TpduType \ {"Connect"}

\* Bound: one device numbers a row of telegrams, the other one at most.  The row in
\* which the numbers wrap is in the first connection, without a power cycle; later
\* rows are of two.
LongOrReconnected ==
    \E n \in Node :
        /\ (connects <= 1 /\ crashes = 0) \/ tl[n].sent <= 2
        /\ \A m \in Node \ {n} : tl[m].sent <= 1

=============================================================================
