------------------------------ MODULE TaskScan ------------------------------
(***************************************************************************)
(* Listings of tasks that take several repository calls, while tasks are   *)
(* created, updated and deleted between the calls.                         *)
(*                                                                         *)
(* listAllTasksFromRepo (and the scheduler's copy of it) reads page after  *)
(* page by offset until it has read as many tasks as the last page said    *)
(* there are.  The in-memory repository counts and lists under one lock,   *)
(* the others in two queries.  Shutdown, recovery, ListJobs, workflow      *)
(* progress and the cron scheduler all work from such a listing.           *)
(*                                                                         *)
(* A listing by metadata of the in-memory and badger repositories first    *)
(* collects the ids from the index, then reads each task by itself.        *)
(***************************************************************************)
EXTENDS TaskTables

CONSTANT PageSize   \* 100 in the code

VARIABLES
    scan,       \* the listing in progress
    since       \* what happened since it began: ids there all along, ids not
                \* touched, and whether any task was created or deleted

scanVars == <<tableVars, scan, since>>

Idle == [pc |-> "idle", b |-> "memory", filter |-> {}, offset |-> 0, total |-> 0, got |-> << >>, todo |-> {}]

ScanInit ==
    /\ Init
    /\ scan = Idle
    /\ since = [there |-> {}, untouched |-> {}, created |-> FALSE, deleted |-> FALSE]

-----------------------------------------------------------------------------
(* The calls of other requests; ids are not used twice here. *)

Touched(k, created, deleted) ==
    since' = [there |-> IF deleted THEN since.there \ {k} ELSE since.there,
              untouched |-> since.untouched \ {k},
              created |-> since.created \/ created,
              deleted |-> since.deleted \/ deleted]

ScanCreate(k, t) ==
    /\ memory[k] = None
    /\ Create(k, t)
    /\ Touched(k, TRUE, FALSE)
    /\ UNCHANGED scan

ScanUpdate(k, t) ==
    /\ memory[k] # None
    /\ Update(k, t)
    /\ Touched(k, FALSE, FALSE)
    /\ UNCHANGED scan

ScanDelete(k) ==
    /\ memory[k] # None
    /\ Delete(k)
    /\ Touched(k, FALSE, TRUE)
    /\ UNCHANGED scan

-----------------------------------------------------------------------------
Begin(b, filter, pc) ==
    /\ scan.pc \in {"idle", "done"}
    /\ scan' = [Idle EXCEPT !.pc = pc, !.b = b, !.filter = filter]
    /\ since' = [there |-> Stored(memory), untouched |-> Ids, created |-> FALSE, deleted |-> FALSE]
    /\ UNCHANGED tableVars

listAllTasksFromRepo(b) == Begin(b, {}, IF b = "memory" THEN "page" ELSE "count")

(* SELECT COUNT, countWithPrefix *)
ScanCount ==
    /\ scan.pc = "count"
    /\ scan' = [scan EXCEPT !.pc = "page",
                            !.total = CountWithPrefix({k \in Ids : Get(scan.b, k) # None})]
    /\ UNCHANGED <<tableVars, since>>

(* The page, and the test whether it was the last one.  In memory the total *)
(* is that of the same moment.                                              *)
Advance(page, step) ==
    LET total == IF scan.b = "memory" THEN Cardinality(Stored(memory)) ELSE scan.total
        offset == scan.offset + step
    IN  scan' = [scan EXCEPT
                    !.pc = IF offset >= total \/ page = << >> THEN "done"
                           ELSE IF scan.b = "memory" THEN "page" ELSE "count",
                    !.offset = offset,
                    !.got = @ \o page]

(* Mutant: the offset moves past the page by one. *)
MutScanPage ==
    /\ scan.pc = "page"
    /\ LET page == List(scan.b, {}, scan.offset, PageSize) IN Advance(page, Len(page) + 1)
    /\ UNCHANGED <<tableVars, since>>

ScanPage ==
    /\ scan.pc = "page"
    /\ LET page == List(scan.b, {}, scan.offset, PageSize) IN Advance(page, Len(page))
    /\ UNCHANGED <<tableVars, since>>

-----------------------------------------------------------------------------
(* listByMetadata of the in-memory and badger repositories *)

ListByMetadata(b, filter) == Begin(b, filter, "filter")

FilterIDs ==
    /\ scan.pc = "filter"
    /\ scan' = [scan EXCEPT !.pc = "fetch",
                            !.todo = IF scan.b = "memory" THEN MemoryFilterIDs(scan.filter)
                                     ELSE BadgerFilterIDs(scan.filter)]
    /\ UNCHANGED <<tableVars, since>>

(* One Get per id, in no particular order; an id that is gone is skipped. *)
Fetch(k) ==
    /\ scan.pc = "fetch" /\ k \in scan.todo
    /\ scan' = [scan EXCEPT !.todo = @ \ {k},
                            !.got = IF Get(scan.b, k) = None THEN @ ELSE Append(@, k)]
    /\ UNCHANGED <<tableVars, since>>

(* Sorted by id and cut to the page. *)
Fetched ==
    /\ scan.pc = "fetch" /\ scan.todo = {}
    /\ scan' = [scan EXCEPT !.pc = "done", !.got = SortSeq(@, <)]
    /\ UNCHANGED <<tableVars, since>>

-----------------------------------------------------------------------------
Plain(meta) == NewTask(meta, <<"", "">>, FALSE)

Step == ScanCount \/ ScanPage \/ FilterIDs \/ (\E k \in Ids : Fetch(k)) \/ Fetched

ScanNext ==
    \/ \E k \in Ids :
          \/ \E meta \in Metas : ScanCreate(k, Plain(meta)) \/ ScanUpdate(k, Plain(meta))
          \/ ScanDelete(k)
    \/ \E b \in Backends : listAllTasksFromRepo(b)
    \/ \E b \in {"memory", "badger"}, f \in Metas \ {{}} : ListByMetadata(b, f)
    \/ Step

ScanSpec == ScanInit /\ [][ScanNext]_scanVars

-----------------------------------------------------------------------------
ListedAll == scan.pc = "done" /\ scan.filter = {}

(* What a listing that pages by offset owes its readers (shutdown, which   *)
(* interrupts the tasks it lists; recovery, which restarts them; the cron  *)
(* scheduler, which arms them).  A task that was there all along is missed *)
(* only if another was deleted meanwhile or, where the count and the page  *)
(* are two queries, created; it is listed twice only if one was created.   *)
(* The in-memory repository misses none however many are created.          *)
ScanExact ==
    ListedAll =>
        /\ ~since.deleted /\ (scan.b = "memory" \/ ~since.created) => since.there \subseteq ToSet(scan.got)
        /\ ~since.created => Len(scan.got) = Cardinality(ToSet(scan.got))

(* A filtered listing finds every matching task that nobody touched while  *)
(* it ran, and no other untouched task, although it reads the index and    *)
(* the tasks at different times.                                           *)
FilterSound ==
    scan.pc = "done" /\ scan.filter # {} =>
        \A k \in since.untouched :
            k \in ToSet(scan.got)
                <=> memory[k] # None /\ metaValueStr([meta |-> scan.filter]) \subseteq metaValueStr(memory[k])
=============================================================================
