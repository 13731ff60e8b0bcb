------------------------------ MODULE MCObjects ------------------------------
(***************************************************************************)
(* What ETS programs and what runs on it: the tables in the non-volatile   *)
(* memory (TableMemory) and the group objects (GroupObjects).  Each        *)
(* behaviour is one of one of the two; the variables of the other do not   *)
(* change.                                                                 *)
(*                                                                         *)
(* Objects 1 and 2 share the group address 1; object 3 is linked to none   *)
(* and is refused.  Object 2 may not transmit what the application writes. *)
(* A group object table and an association table share four pages; an      *)
(* erase block has two pages, so the metadata shares its block with page 1.*)
(***************************************************************************)
EXTENDS GroupObjects

CONSTANTS Media, Table, Kind, NPage, BlockPages, Versions, MaxEvent

VARIABLES part,
          medium, stored, memory, buffered, free, used, state, data, size, index, unloadCount,
          armed, job, halted, events, completed, durable, accepted

SharedLinks   == {<<1, 1>>, <<1, 2>>}
SharedSending == [a \in Asap |-> IF a = 3 THEN 0 ELSE 1]

TwoTables == {"objects", "links"}
TwoKinds  == [t \in TwoTables |-> IF t = "objects" THEN "objects" ELSE "associations"]

Tables == INSTANCE TableMemory

ASSUME TablesAssumption == Tables!TableMemoryAssumption

tableVars == <<medium, stored, memory, buffered, free, used, state, data, size, index, unloadCount,
               armed, job, halted, events, completed, durable, accepted>>
allVars   == <<part, vars, tableVars>>

OfGroups(step) == part = "groups" /\ step /\ UNCHANGED <<part, tableVars>>
OfTables(step) == part = "tables" /\ step /\ UNCHANGED <<part, vars>>

\* A device that was never programmed uses no group object.
Unprogrammed ==
    /\ flag = [a \in Asap |-> "Uninitialized"] /\ initialized = [a \in Asap |-> FALSE]
    /\ revision = [a \in Asap |-> 0] /\ valued = {}
    /\ nextGroupAsap = 1 /\ at = 0 /\ callback = 0
    /\ pendingAsap = 0 /\ pendingRevision = 0 /\ pendingKind = "Ok"
    /\ saved = [kind \in Request |-> 0] /\ tx = <<>>
    /\ loaded = FALSE /\ orphaned = FALSE

MCInit ==
    \/ part = "groups" /\ Init /\ Tables!Init /\ medium = "eeprom"
    \/ part = "tables" /\ Unprogrammed /\ Tables!Init

MCNext == OfGroups(Next) \/ OfTables(Tables!Next)

MCSpec ==
    /\ MCInit /\ [][MCNext]_allVars
    /\ WF_allVars(OfGroups(SendNextGroupTelegram)) /\ WF_allVars(OfGroups(Confirmation))
    /\ WF_allVars(OfTables(Tables!Work))

BlocksPartition  == Tables!BlocksPartition
TablesUsable     == Tables!TablesUsable
RestartsFaithful == Tables!RestartsFaithful
UnloadKept       == Tables!UnloadKept

=============================================================================
