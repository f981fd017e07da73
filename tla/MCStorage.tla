----------------------------- MODULE MCStorage ------------------------------
(***************************************************************************)
(* Small instances of what the manager keeps in its storage backends: the  *)
(* task tables (TaskTables) and the listings that take several calls on    *)
(* them (TaskScan), the proplet tables with the selection of a proplet     *)
(* (PropletTables), the metrics (MetricsStore) and the list of jobs that   *)
(* is derived from tasks (JobList).  A behaviour runs one of them and      *)
(* leaves the state of the others as it was initially.                     *)
(***************************************************************************)
EXTENDS Naturals, Sequences

CONSTANT None

VARIABLES
    instance,
    memory, metaIdx, badger, badgerIdx, sqlite, postgres, clock, overwritten,
    scan, since,
    backend, rows, phase, mqtt, api, last, deletes, turn,
    time, reports, owners, memoryM, badgerM, sqliteM, postgresM, query,
    storage, tasks, jobs, age, creating, list

tableVars == <<memory, metaIdx, badger, badgerIdx, sqlite, postgres, clock, overwritten>>

scanVars == <<scan, since>>

propletVars == <<backend, rows, phase, mqtt, api, last, deletes, turn>>

metricVars == <<time, reports, owners, memoryM, badgerM, sqliteM, postgresM, query>>

jobVars == <<storage, tasks, jobs, age, creating, list>>

vars == <<instance, tableVars, scanVars, propletVars, metricVars, jobVars>>

Entry(key, text, type) == [key |-> key, text |-> text, type |-> type]

(* A string and a number that print alike, and two keys at once.            *)
Tables == INSTANCE TaskTables
    WITH Ids <- {1, 2},
         Metas <- {{}, {Entry("a", "1", "string")},
                   {Entry("a", "1", "number"), Entry("b", "2", "string")}},
         Groups <- {<<"", "">>, <<"w", "j">>}, MaxCreates <- 3

Scan == INSTANCE TaskScan
    WITH Ids <- {1, 2},
         Metas <- {{}, {Entry("a", "1", "string")},
                   {Entry("a", "1", "string"), Entry("b", "2", "string")}},
         Groups <- {<<"", "">>}, MaxCreates <- 3, PageSize <- 1

(* The two backends whose listings differ most from the in-memory ones.     *)
Proplets == INSTANCE PropletTables
    WITH N <- 2, Backends <- {"badger", "sqlite"}, Timeout <- 1, MaxLag <- 1,
         HistoryLimit <- 1, PageSize <- 1, MaxTasks <- 0, MaxDeletes <- 0

Metrics == INSTANCE MetricsStore
    WITH Owners <- {1, 2}, ScanPage <- 1, MaxTime <- 2, MaxReports <- 3,
         clock <- time, memory <- memoryM, badger <- badgerM, sqlite <- sqliteM,
         postgres <- postgresM, list <- query

(* A job of two tasks and one of one.                                       *)
Jobs == INSTANCE JobList
    WITH Jobs <- {1, 2}, Tasks <- {1, 2, 3}, JobOf <- <<1, 2, 1>>,
         Backends <- {"memory", "postgres"}, PageSize <- 1, PageLimit <- 1,
         backend <- storage

Init ==
    /\ instance \in {"tables", "scan", "proplets", "metrics", "jobs"}
    /\ Scan!ScanInit
    /\ instance = "proplets" \/ (backend = "badger" /\ phase = 0)
    /\ Proplets!Init
    /\ Metrics!Init
    /\ instance = "jobs" \/ storage = "memory"
    /\ Jobs!Init

Next ==
    \/ /\ instance = "tables" /\ Tables!Next
       /\ UNCHANGED <<instance, scanVars, propletVars, metricVars, jobVars>>
    \/ /\ instance = "scan" /\ Scan!ScanNext
       /\ UNCHANGED <<instance, propletVars, metricVars, jobVars>>
    \/ /\ instance = "proplets" /\ Proplets!Next
       /\ UNCHANGED <<instance, tableVars, scanVars, metricVars, jobVars>>
    \/ /\ instance = "metrics" /\ Metrics!Next
       /\ UNCHANGED <<instance, tableVars, scanVars, propletVars, jobVars>>
    \/ /\ instance = "jobs" /\ Jobs!Next
       /\ UNCHANGED <<instance, tableVars, scanVars, propletVars, metricVars>>

Spec == Init /\ [][Next]_vars

-----------------------------------------------------------------------------
(* The four task repositories answer the manager's queries alike, their     *)
(* metadata indexes hold exactly what the stored tasks say after any        *)
(* creates, updates and deletes, and the pages of a listing that nothing    *)
(* changes hold every task once.                                            *)
TasksAgree ==
    instance = "tables" => Tables!BackendsAgree /\ Tables!IndexExact /\ Tables!PagesPartition

(* A paged listing misses or repeats a task only for a change it races, and *)
(* a listing by metadata finds the matching tasks nobody touched meanwhile, *)
(* although it reads the index and the tasks at different times.            *)
ScansExact == instance = "scan" => Scan!ScanExact /\ Scan!FilterSound

(* A task is only given to a proplet whose last heartbeat was recent when   *)
(* the call began, the listings of active and of inactive proplets split    *)
(* the stored ones, and consecutive selections over the same candidates     *)
(* pick none of them twice.                                                 *)
SelectionSound ==
    instance = "proplets" =>
        /\ Proplets!TypeOK /\ Proplets!PickedIsAlive
        /\ Proplets!ListingsPartition /\ Proplets!RoundRobinTurns

(* The four metrics repositories hold the same reports, save those that     *)
(* share owner and time and those of unknown owners; and a listing holds    *)
(* every report of its owner that was stored when it began and still is,    *)
(* although it is read in pages by position.                                *)
MetricsExact == instance = "metrics" => Metrics!BackendsAgree /\ Metrics!ListingComplete

(* ListJobs shows a job once, whether it is known from its record, from its *)
(* tasks or from both, and, while nothing is created or deleted, as         *)
(* completed or failed only if its stored tasks are, although each page of  *)
(* tasks is read at another moment.                                         *)
JobListExact == instance = "jobs" => Jobs!JobListedOnce /\ Jobs!ListedStateIsReal
=============================================================================
