--------------------------- MODULE OrderedDelivery ---------------------------
(***************************************************************************)
(* What connection-oriented transport promises the application of a server *)
(* about the telegrams of its clients: each is indicated at most once and  *)
(* never after a later one.  Any of them may be missing; the sender learns *)
(* of that from its own layer.                                             *)
(***************************************************************************)
EXTENDS Naturals, Sequences

CONSTANTS Client, Server

VARIABLES
    sent,       \* sent[m]: how many telegrams client m has numbered
    got         \* got[n][m]: numbers of the telegrams of m that n's application got

Last(q) == IF q = <<>> THEN 0 ELSE q[Len(q)]

Init ==
    /\ sent = [m \in Client |-> 0]
    /\ got = [n \in Server |-> [m \in Client |-> <<>>]]

Send(m) ==
    /\ sent' = [sent EXCEPT ![m] = @ + 1]
    /\ UNCHANGED got

Indicate(m, n) ==
    /\ \E id \in Last(got[n][m]) + 1 .. sent[m] :
          got' = [got EXCEPT ![n][m] = Append(@, id)]
    /\ UNCHANGED sent

Next ==
    \/ \E m \in Client : Send(m)
    \/ \E m \in Client, n \in Server : Indicate(m, n)

Spec == Init /\ [][Next]_<<sent, got>>

=============================================================================
