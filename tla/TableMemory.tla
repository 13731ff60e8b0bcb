---------------------------- MODULE TableMemory ----------------------------
(***************************************************************************)
(* The tables of a device and the non-volatile memory they live in:        *)
(* src/src/knx/memory.cpp, src/src/knx/table_object.cpp, what the group    *)
(* object, address and association tables do when their load state         *)
(* changes, and the buffering of src/src/knx/platform.cpp.                 *)
(*                                                                         *)
(* Memory is counted in pages, the alignment of allocations.  Page 0 holds *)
(* the metadata, which fits into the first erase block; the tables share   *)
(* pages 1 .. NPage.  On "flash" one erase block at a time is buffered and *)
(* written when another one is needed or on commit, and the program reads  *)
(* its tables from the flash itself; on "eeprom" everything is in RAM and  *)
(* written on commit.                                                      *)
(***************************************************************************)
EXTENDS Integers, FiniteSets

CONSTANTS
    Media,        \* the kinds of non-volatile memory: a subset of {"eeprom", "flash"}
    Table,
    Kind,         \* Kind[t]: "objects", "addresses" or "associations"
    NPage,        \* pages for the tables
    BlockPages,   \* pages of an erase block
    Versions,     \* contents ETS may write into a page; 0 is an erased page
    MaxEvent      \* bound: load controls, resets and losses of power

Page       == 1 .. NPage
BlockOf(p) == p \div BlockPages
NoBlock    == -1
Null       == 0       \* the address of a table without memory

Content == Versions \cup {0}
Nothing == << -1 >>   \* no content that a table can have

\* The metadata before the first save
Unwritten == [t \in Table |-> [state |-> "none", size |-> 0, data |-> Null, block |-> 0]]

TableMemoryAssumption ==
    /\ Media \subseteq {"eeprom", "flash"}
    /\ Kind \in [Table -> {"objects", "addresses", "associations"}]
    /\ NPage \in Nat \ {0} /\ BlockPages \in Nat \ {0} /\ MaxEvent \in Nat
    /\ Versions \subseteq Nat \ {0}

VARIABLES
    medium,       \* _memoryType; never changes
    stored,       \* what a loss of power leaves: metadata and pages
    memory,       \* the same with what has been written since, buffered in RAM
    buffered,     \* _bufferedEraseblockNumber
    free, used,   \* _freeList and _usedList: sets of blocks
    state,        \* _state of each table
    data, size,   \* _data and _size of each table
    index,        \* what a table has made of its content: group objects, search order
    unloadCount,  \* _tableUnloadCount
    armed,        \* _saveTimeout # 0
    job,          \* what the code does before it takes the next event
    halted,       \* fatalError()
    events,       \* number of events so far
    completed,    \* ghost: the contents of t whose download was completed
    durable,      \* ghost: the content of t that a restart must restore, if any
    accepted      \* ghost: what is stored was restored or saved since the last start

blocks  == <<free, used>>
ram     == <<state, data, size, index, unloadCount>>
nvm     == <<stored, memory, buffered>>
ghosts  == <<completed, durable, accepted>>
vars    == <<medium, nvm, blocks, ram, armed, job, halted, events, ghosts>>

-----------------------------------------------------------------------------
(* Writing to the non-volatile memory *)

\* Another erase block than the buffered one is needed: the buffered one is written.
Flushed(b) == medium = "flash" /\ buffered \notin {NoBlock, b}

\* seeded fault: everything is written at once, on every medium
StoredAfterEveryWrite(b) == memory

StoredAfterMove(b) == IF Flushed(b) THEN memory ELSE stored

WriteNonVolatileMemory(p, content) ==
    /\ stored'   = StoredAfterMove(BlockOf(p))
    /\ memory'   = [memory EXCEPT !.page = [@ EXCEPT ![p] = content]]
    /\ buffered' = BlockOf(p)

\* How the program itself sees its tables
View(p) == IF medium = "flash" THEN stored.page[p] ELSE memory.page[p]

ContentIn(pages, address, n) == [i \in 1 .. n |-> pages[address + i - 1]]

Visible(t) == IF data[t] = Null THEN << >> ELSE [i \in 1 .. size[t] |-> View(data[t] + i - 1)]

-----------------------------------------------------------------------------
(* The lists of free and used blocks *)

Block(address, n) == [address |-> address, size |-> n]
PagesOf(b)        == b.address .. (b.address + b.size - 1)

\* addToFreeList: the block grows together with its neighbours.
\* seeded fault: it does so only with the one before it
FreedBeforeOnly(list, b) ==
    LET before == {f \in list : f.address + f.size = b.address}
        merged == IF before = {} THEN b
                  ELSE LET f == CHOOSE f \in before : TRUE IN Block(f.address, f.size + b.size)
    IN (list \ before) \cup {merged}

Freed(list, b) ==
    LET before == {f \in list : f.address + f.size = b.address}
        after  == {f \in list : b.address + b.size = f.address}
        first  == IF before = {} THEN b.address ELSE (CHOOSE f \in before : TRUE).address
        last   == IF after = {} THEN b.address + b.size
                  ELSE LET f == CHOOSE f \in after : TRUE IN f.address + f.size
    IN (list \ (before \cup after)) \cup {Block(first, last - first)}

Fits(list, n) == {f \in list : f.size >= n}

\* allocMemory: the smallest block that is big enough, the first of these
Best(list, n) ==
    CHOOSE f \in Fits(list, n) :
        \A g \in Fits(list, n) : f.size < g.size \/ (f.size = g.size /\ f.address <= g.address)

FreeWithout(list, f, n) ==
    (list \ {f}) \cup (IF f.size = n THEN {} ELSE {Block(f.address + n, f.size - n)})

UsedAt(list, address) == CHOOSE b \in list : b.address = address

\* readMemory, addNewUsedBlock: what is free when the blocks of a list are in use
IsFreeRun(list, first, last) ==
    /\ \A p \in first .. last : \A b \in list : p \notin PagesOf(b)
    /\ first = 1 \/ \E b \in list : first - 1 \in PagesOf(b)
    /\ last = NPage \/ \E b \in list : last + 1 \in PagesOf(b)

FreeBeside(list) ==
    {Block(run[1], run[2] - run[1] + 1) :
        run \in {r \in Page \X Page : r[1] <= r[2] /\ IsFreeRun(list, r[1], r[2])}}

-----------------------------------------------------------------------------
(* Load states *)

\* beforeStateChange of the group object table refuses to be loaded without content.
\* seeded fault: it does not look
EnteredUnchecked(t, new) == new

Entered(t, new) ==
    IF new = "loaded" /\ Kind[t] = "objects" /\ data[t] = Null THEN "error" ELSE new

\* What a table makes of its content when it is loaded.  Group objects stay in RAM when it is
\* no longer loaded, the search order of the associations does not.
Unindexed(t) == IF Kind[t] = "objects" THEN index[t] ELSE Nothing

Indexed(t, new) == IF Entered(t, new) = "loaded" THEN Visible(t) ELSE Unindexed(t)

ChangeState(t, new) ==
    /\ state' = [state EXCEPT ![t] = Entered(t, new)]
    /\ index' = [index EXCEPT ![t] = Indexed(t, new)]
    /\ unloadCount' = IF new = "loaded" THEN 0
                      ELSE IF new = "unloaded" THEN 1 ELSE unloadCount

Idle   == [writes |-> {}, phase |-> "idle", restart |-> FALSE]
Saving == [writes |-> {}, phase |-> "save", restart |-> FALSE]

Event == ~halted /\ job = Idle /\ events < MaxEvent /\ events' = events + 1

NoLonger(t) == durable' = [durable EXCEPT ![t] = Nothing]

StartLoading(t) ==
    /\ Event
    /\ state[t] \in {"unloaded", "loaded"}
    /\ ChangeState(t, "loading")
    /\ NoLonger(t)
    /\ UNCHANGED <<medium, nvm, blocks, data, size, armed, job, halted, completed, accepted>>

\* The state is changed first, then everything is saved.
LoadCompleted(t) ==
    /\ Event
    /\ state[t] = "loading"
    /\ ChangeState(t, "loaded")
    /\ job' = Saving
    /\ completed' = [completed EXCEPT ![t] =
           IF data[t] = Null THEN @ ELSE @ \cup {ContentIn(memory.page, data[t], size[t])}]
    /\ UNCHANGED <<medium, nvm, blocks, data, size, armed, halted, durable, accepted>>

\* freeMemory
Free(t) ==
    /\ used'  = {b \in used : b.address # data[t]}
    /\ free'  = Freed(free, UsedAt(used, data[t]))
    /\ data'  = [data EXCEPT ![t] = Null]
    /\ armed' = TRUE

\* Only the unloading of a loaded table frees its memory.
\* seeded fault: the pointer is forgotten, the memory is not freed
ReleaseWithoutFree(t) == data' = [data EXCEPT ![t] = Null] /\ UNCHANGED <<blocks, armed>>

Release(t) ==
    IF state[t] = "loaded" /\ data[t] # Null THEN Free(t) ELSE UNCHANGED <<blocks, data, armed>>

Unload(t) ==
    /\ Event
    /\ state[t] # "unloaded"
    /\ ChangeState(t, "unloaded")
    /\ Release(t)
    /\ NoLonger(t)
    /\ UNCHANGED <<medium, nvm, size, job, halted, completed, accepted>>

\* A load control that is undefined, or an allocation while the table is loaded
Undefined(t) ==
    /\ Event
    /\ state[t] # "error"
    /\ ChangeState(t, "error")
    /\ NoLonger(t)
    /\ UNCHANGED <<medium, nvm, blocks, data, size, armed, job, halted, completed, accepted>>

\* allocTable gives back what the table had before.
FreeForAlloc(t) == IF data[t] = Null THEN free ELSE Freed(free, UsedAt(used, data[t]))
UsedForAlloc(t) == {b \in used : b.address # data[t]}

\* LE_ADDITIONAL_LOAD_CONTROLS with relative allocation of n pages.  _size keeps its old
\* value when n is 0.
Allocate(t, n, doFill) ==
    /\ Event
    /\ state[t] = "loading"
    /\ armed' = (armed \/ data[t] # Null)
    /\ \/ /\ n = 0
          /\ free' = FreeForAlloc(t) /\ used' = UsedForAlloc(t)
          /\ data' = [data EXCEPT ![t] = Null]
          /\ UNCHANGED <<size, job, halted>>
       \/ /\ n # 0 /\ Fits(FreeForAlloc(t), n) # {}
          /\ LET f == Best(FreeForAlloc(t), n) IN
             /\ free' = FreeWithout(FreeForAlloc(t), f, n)
             /\ used' = UsedForAlloc(t) \cup {Block(f.address, n)}
             /\ data' = [data EXCEPT ![t] = f.address]
             /\ job'  = IF doFill THEN [Idle EXCEPT !.writes = PagesOf(Block(f.address, n))]
                                  ELSE job
          /\ size' = [size EXCEPT ![t] = n]
          /\ UNCHANGED halted
       \/ /\ n # 0 /\ Fits(FreeForAlloc(t), n) = {}
          /\ free' = FreeForAlloc(t) /\ used' = UsedForAlloc(t)
          /\ data' = [data EXCEPT ![t] = Null]
          /\ halted' = TRUE
          /\ UNCHANGED <<size, job>>
    /\ UNCHANGED <<medium, nvm, state, index, unloadCount, ghosts>>

\* A memory write of ETS into the table it is loading
MemoryWrite(t, i, content) ==
    /\ ~halted /\ job = Idle
    /\ state[t] = "loading" /\ data[t] # Null /\ i <= size[t]
    /\ WriteNonVolatileMemory(data[t] + i - 1, content)
    /\ UNCHANGED <<medium, blocks, ram, armed, job, halted, events, ghosts>>

-----------------------------------------------------------------------------
(* Writing out *)

\* The next page that is filled or cleared; every write is an event of its own for the power.
FillPage ==
    /\ ~halted
    /\ \E p \in job.writes :
          /\ \A q \in job.writes : p <= q
          /\ WriteNonVolatileMemory(p, 0)
          /\ job' = [job EXCEPT !.writes = @ \ {p}]
    /\ UNCHANGED <<medium, blocks, ram, armed, halted, events, ghosts>>

\* Memory::writeMemory: the metadata of all tables, in the order they were added
Metadata ==
    [t \in Table |-> [state |-> state[t], size |-> size[t], data |-> data[t],
                      block |-> IF data[t] = Null THEN 0 ELSE UsedAt(used, data[t]).size]]

\* Otherwise writeMemory would stop with a fatal error; BlocksPartition says that it cannot.
IsUsed(t) == data[t] # Null => \E b \in used : b.address = data[t]

WriteMetadata ==
    /\ ~halted /\ job.writes = {} /\ job.phase = "save"
    /\ \A t \in Table : IsUsed(t)
    /\ stored'   = StoredAfterMove(0)
    /\ memory'   = [memory EXCEPT !.meta = Metadata]
    /\ buffered' = 0
    /\ job'      = [job EXCEPT !.phase = "commit"]
    /\ UNCHANGED <<medium, blocks, ram, armed, halted, events, ghosts>>

\* commitNonVolatileMemory
Commit ==
    /\ ~halted /\ job.phase = "commit"
    /\ stored'   = memory
    /\ buffered' = NoBlock
    /\ job'      = IF job.restart THEN [job EXCEPT !.phase = "restart"] ELSE Idle
    /\ durable'  = [t \in Table |->
                       IF state[t] = "loaded" /\ data[t] # Null
                       THEN ContentIn(memory.page, data[t], size[t]) ELSE durable[t]]
    /\ accepted' = TRUE
    /\ UNCHANGED <<medium, memory, blocks, ram, armed, halted, events, completed>>

\* Memory::loop, five seconds after memory was freed and nothing more was written
SaveTimeout ==
    /\ ~halted /\ job = Idle /\ armed
    /\ armed' = FALSE
    /\ job'   = Saving
    /\ UNCHANGED <<medium, nvm, blocks, ram, halted, events, ghosts>>

-----------------------------------------------------------------------------
(* Resets, restarts, losses of power *)

\* TableObject::masterReset: the tables an erase code resets
ResetBy(code) ==
    IF code = "factory" THEN Table
    ELSE {t \in Table : CASE code = "links"       -> Kind[t] \in {"addresses", "associations"}
                          [] code = "application" -> Kind[t] = "objects"
                          [] code = "confirmed"   -> FALSE}

PagesOfTables(S) == UNION {PagesOf(b) : b \in {u \in used : \E t \in S : data[t] = u.address}}

\* restartRequestIndication, masterReset, resetTable: cleared, freed, saved, and restarted
MasterReset(code) ==
    LET reset == ResetBy(code)
        given == {u \in used : \E t \in reset : data[t] = u.address} IN
    /\ Event
    /\ state' = [t \in Table |-> IF t \in reset THEN "unloaded" ELSE state[t]]
    /\ index' = [t \in Table |-> IF t \in reset THEN Unindexed(t) ELSE index[t]]
    /\ unloadCount' = IF \E t \in reset : state[t] # "unloaded" THEN 1 ELSE unloadCount
    /\ used'  = used \ given
    /\ free'  = FreeBeside(used \ given)
    /\ size'  = [t \in Table |-> IF t \in reset /\ data[t] # Null THEN 0 ELSE size[t]]
    /\ data'  = [t \in Table |-> IF t \in reset THEN Null ELSE data[t]]
    /\ armed' = (armed \/ given # {})
    /\ job'   = [writes |-> PagesOfTables(reset), phase |-> "save", restart |-> TRUE]
    /\ durable' = [t \in Table |-> IF t \in reset THEN Nothing ELSE durable[t]]
    /\ UNCHANGED <<medium, nvm, halted, completed, accepted>>

\* readMemory.  check: what the version check says of the metadata
Restorable(check) == check = "valid" /\ stored.meta # Unwritten

\* The blocks of the restored tables must fit beside each other.
Disjoint(meta) ==
    \A t, u \in Table :
        (t # u /\ meta[t].block # 0 /\ meta[u].block # 0)
        => PagesOf(Block(meta[t].data, meta[t].block)) \cap PagesOf(Block(meta[u].data, meta[u].block)) = {}

RestoredUsed(meta) == {Block(meta[t].data, meta[t].block) : t \in {u \in Table : meta[u].block # 0}}

Boot(check) ==
    /\ unloadCount' = 0 /\ armed' = FALSE /\ job' = Idle
    /\ memory' = stored /\ buffered' = NoBlock
    /\ accepted' = Restorable(check)
    /\ IF Restorable(check)
       THEN /\ state' = [t \in Table |-> stored.meta[t].state]
            /\ size'  = [t \in Table |-> stored.meta[t].size]
            /\ data'  = [t \in Table |-> stored.meta[t].data]
            /\ index' = [t \in Table |->
                            IF \/ stored.meta[t].data = Null
                               \/ Kind[t] # "objects" /\ stored.meta[t].state # "loaded"
                            THEN Nothing
                            ELSE ContentIn(stored.page, stored.meta[t].data, stored.meta[t].size)]
            /\ used'  = RestoredUsed(stored.meta)
            /\ free'  = FreeBeside(RestoredUsed(stored.meta))
            /\ halted' = ~Disjoint(stored.meta)
            /\ durable' = durable
       ELSE /\ state' = [t \in Table |-> "unloaded"]
            /\ size'  = [t \in Table |-> 0]
            /\ data'  = [t \in Table |-> Null]
            /\ index' = [t \in Table |-> Nothing]
            /\ used'  = {}
            /\ free'  = {Block(1, NPage)}
            /\ halted' = FALSE
            /\ durable' = [t \in Table |-> Nothing]

Restart ==
    /\ ~halted /\ job.phase = "restart"
    /\ Boot("valid")
    /\ UNCHANGED <<medium, stored, events, completed>>

\* At any moment, also between two writes; the firmware may be another one afterwards.
PowerLoss(check) ==
    /\ ~halted /\ events < MaxEvent /\ events' = events + 1
    /\ Boot(check)
    /\ UNCHANGED <<medium, stored, completed>>

-----------------------------------------------------------------------------

Init ==
    /\ medium \in Media
    /\ stored = [meta |-> Unwritten, page |-> [p \in Page |-> 0]]
    /\ memory = stored
    /\ buffered = NoBlock
    /\ free = {Block(1, NPage)}
    /\ used = {}
    /\ state = [t \in Table |-> "unloaded"]
    /\ data  = [t \in Table |-> Null]
    /\ size  = [t \in Table |-> 0]
    /\ index = [t \in Table |-> Nothing]
    /\ unloadCount = 0
    /\ armed = FALSE
    /\ job = Idle
    /\ halted = FALSE
    /\ events = 0
    /\ completed = [t \in Table |-> {}]
    /\ durable = [t \in Table |-> Nothing]
    /\ accepted = FALSE

Load(t) ==
    \/ StartLoading(t) \/ LoadCompleted(t) \/ Unload(t) \/ Undefined(t)
    \/ \E n \in 0 .. NPage, doFill \in BOOLEAN : Allocate(t, n, doFill)
    \/ \E i \in Page, content \in Versions : MemoryWrite(t, i, content)

Work == FillPage \/ WriteMetadata \/ Commit \/ SaveTimeout \/ Restart

Next ==
    \/ \E t \in Table : Load(t)
    \/ Work
    \/ \E code \in {"factory", "links", "application", "confirmed"} : MasterReset(code)
    \/ \E check \in {"valid", "tables"} : PowerLoss(check)

Spec == Init /\ [][Next]_vars

\* The code finishes what it began, and its loop is called.
FairSpec == Spec /\ WF_vars(Work)

-----------------------------------------------------------------------------
(* Properties *)

TypeOK ==
    /\ state \in [Table -> {"unloaded", "loading", "loaded", "error"}]
    /\ data \in [Table -> 0 .. NPage] /\ size \in [Table -> 0 .. NPage]
    /\ unloadCount \in 0 .. 1 /\ armed \in BOOLEAN /\ halted \in BOOLEAN
    /\ stored.page \in [Page -> Content] /\ memory.page \in [Page -> Content]

\* The free and the used blocks share the pages among them, no two free blocks adjoin, and
\* the used ones are those of the tables, one each: no order of allocations, unloads,
\* resets and restarts loses memory or gives it out twice.
BlocksPartition ==
    ~halted =>
    /\ \A p \in Page : Cardinality({b \in free \cup used : p \in PagesOf(b)}) = 1
    /\ free \cap used = {}
    /\ \A f, g \in free : f.address + f.size # g.address
    /\ \A b \in used : Cardinality({t \in Table : data[t] = b.address}) = 1
    /\ \A t \in Table : data[t] # Null => \E b \in used : b.address = data[t] /\ b.size = size[t]

\* A group object table is never in use without content, nor is one restored so.
ObjectsBacked ==
    \A t \in Table : Kind[t] = "objects" =>
        /\ state[t] = "loaded" => data[t] # Null
        /\ stored.meta[t].state = "loaded" => stored.meta[t].data # Null

\* What was downloaded and saved survives every loss of power, also in the middle of a
\* download, a save or a reset of other tables, until its own load state is changed.
DownloadDurable ==
    \A t \in Table : durable[t] # Nothing =>
        /\ stored.meta[t].state = "loaded"
        /\ ContentIn(stored.page, stored.meta[t].data, stored.meta[t].size) = durable[t]

\* With everything buffered in RAM, what a loss of power leaves is never half a download:
\* a table that is restored as loaded has the content of a download that was completed.
NoHalfDownload ==
    medium = "eeprom" =>
        \A t \in Table :
            (stored.meta[t].state = "loaded" /\ stored.meta[t].data # Null)
            => ContentIn(stored.page, stored.meta[t].data, stored.meta[t].size) \in completed[t]

\* What a loaded table has made of its content (group objects, search order) is made of the
\* content it has.  It holds as long as the program reads its tables in RAM; on flash the
\* last erase block may still be buffered when the table is looked at.
IndexCurrent ==
    \A t \in Table :
        (~halted /\ job = Idle /\ state[t] = "loaded" /\ data[t] # Null) => index[t] = Visible(t)

IndexCurrentInRam == medium = "eeprom" => IndexCurrent

\* A table in use has content, and what it has made of it.
TablesUsable == ObjectsBacked /\ IndexCurrentInRam

\* What a start finds is a whole download, the last one saved where there is one.
RestartsFaithful == DownloadDurable /\ NoHalfDownload

UnloadPending(t) ==
    /\ state[t] = "unloaded" /\ data[t] = Null
    /\ accepted /\ ~halted
    /\ stored.meta[t].state = "loaded" /\ stored.meta[t].data # Null

\* The release of a table's memory reaches the non-volatile memory by itself: unless the table
\* is loaded again or the power fails first, a restart will not find it loaded.
UnloadKept == []<>(\A t \in Table : ~UnloadPending(t))

=============================================================================
