----------------------------- MODULE MCCoupler -----------------------------
(***************************************************************************)
(* A backbone line, a main line and a line with an area coupler and a line *)
(* coupler between them; and two couplers side by side between the main    *)
(* line and the line, which make a ring.                                   *)
(***************************************************************************)
EXTENDS Coupler

CONSTANTS upper, lower, backbone, main, sub

Routing   == [phys |-> "route", low |-> "route", high |-> "unlock", broadcastLock |-> FALSE, ackAll |-> FALSE]
Unlocked  == [phys |-> "unlock", low |-> "unlock", high |-> "unlock", broadcastLock |-> FALSE, ackAll |-> FALSE]
AckingAll == [Routing EXCEPT !.ackAll = TRUE]
Locked    == [phys |-> "lock", low |-> "lock", high |-> "route", broadcastLock |-> TRUE, ackAll |-> FALSE]

Secured(g, side) == [group |-> g, secure |-> side, from |-> {1, 2}]
OneRule   == {Secured(1, 1)}
Conflict  == {Secured(1, 1), Secured(1, 2)}
Tables    == {{}, OneRule, Conflict}

Tree(setting, table, state, open, changes) ==
    [ring    |-> FALSE,
     order   |-> <<backbone, main, sub>>,
     line    |-> [c \in Coupler |-> IF c = upper THEN <<backbone, main>> ELSE <<main, sub>>],
     address |-> [c \in Coupler |-> IF c = upper THEN <<1, 0, 0>> ELSE <<1, 1, 0>>],
     device  |-> [l \in Line |-> IF l = backbone THEN <<0, 0, 1>>
                                 ELSE IF l = main THEN <<1, 0, 1>> ELSE <<1, 1, 1>>],
     setting |-> setting, filter |-> {1}, load |-> state,
     table   |-> [c \in Coupler |-> IF c = lower THEN table ELSE {}],
     open    |-> open,
     edits   |-> changes]

Ring ==
    [ring    |-> TRUE,
     order   |-> <<main, sub>>,
     line    |-> [c \in Coupler |-> <<main, sub>>],
     address |-> [c \in Coupler |-> IF c = upper THEN <<1, 2, 0>> ELSE <<1, 1, 0>>],
     device  |-> [l \in {main, sub} |-> IF l = main THEN <<1, 0, 1>> ELSE <<1, 1, 1>>],
     setting |-> Unlocked, filter |-> {}, load |-> "loaded",
     table   |-> [c \in Coupler |-> {}],
     open    |-> {},
     edits   |-> 0]

SmallInstallations ==
    {Tree(Routing, {}, "loaded", {}, 1), Tree(Routing, OneRule, "loaded", {}, 2),
     Tree(Routing, OneRule, "loading", {}, 2), Tree(Routing, {}, "loaded", {lower}, 1),
     Tree(AckingAll, {}, "loaded", {upper}, 0), Ring}
SomeSettings == {Locked}
SomePasses   == {<<<<1, 1, 1>>, <<1, 0, 1>>>>, <<<<1, 0, 1>>, <<0, 0, 0>>>>}

=============================================================================
