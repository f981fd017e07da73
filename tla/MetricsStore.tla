---------------------------- MODULE MetricsStore ----------------------------
(***************************************************************************)
(* The metrics a proplet reports about a task or about itself: the two     *)
(* handlers that store a report, the metrics repositories of the four      *)
(* backends side by side, and the listing of one owner's reports, which    *)
(* reads the store in more than one step.                                  *)
(*                                                                         *)
(* A report is keyed by its owner and its time.  Both kinds of proplet     *)
(* send the time in a form the handlers do not parse (a record of seconds  *)
(* and nanoseconds, a number), so it is the manager's clock at receipt,    *)
(* also for a report that is delivered twice.                              *)
(***************************************************************************)
EXTENDS Naturals, Sequences, SequencesExt, FiniteSets

CONSTANTS
    Owners,      \* task and proplet ids, numbers in the order of the ids
    None,
    ScanPage,    \* memoryScanPageSize
    MaxTime,     \* bound: readings of the clock
    MaxReports   \* bound: messages handled

VARIABLES
    clock,     \* time.Now(), which two messages may read alike
    reports,   \* messages handled
    owners,    \* owners that have a record in the task or proplet table
    memory, badger, sqlite, postgres,   \* the stored reports of each backend
    list       \* the listing in progress

tables == <<memory, badger, sqlite, postgres>>
vars == <<clock, reports, owners, memory, badger, sqlite, postgres, list>>

SameKey(a, b) == a.owner = b.owner /\ a.ts = b.ts

Backends == {"memory", "badger", "sqlite", "postgres"}

Table(b) ==
    CASE b = "memory" -> memory [] b = "badger" -> badger
      [] b = "sqlite" -> sqlite [] b = "postgres" -> postgres

NoListing == [pc |-> "idle", b |-> None, owner |-> None, offset |-> 0, total |-> 0, got |-> <<>>,
              before |-> {}, moved |-> FALSE]

Init ==
    /\ clock = 1
    /\ reports = 0
    /\ owners = {}
    /\ memory = {} /\ badger = {} /\ sqlite = {} /\ postgres = {}
    /\ list = NoListing

-----------------------------------------------------------------------------
(* CreateTaskMetrics and CreatePropletMetrics.  The in-memory store refuses *)
(* a key it has, badger overwrites it, the SQL tables have it as primary    *)
(* key; postgres also checks the foreign key to the owner's table.          *)

MemoryCreate(m) == IF \E x \in memory : SameKey(x, m) THEN memory ELSE memory \cup {m}

BadgerCreate(m) == {x \in badger : ~SameKey(x, m)} \cup {m}

SqliteCreate(m) == IF \E x \in sqlite : SameKey(x, m) THEN sqlite ELSE sqlite \cup {m}

PostgresCreate(m) ==
    IF (\E x \in postgres : SameKey(x, m)) \/ m.owner \notin owners THEN postgres ELSE postgres \cup {m}

(* handleTaskMetrics and handlePropletMetrics: the report is given the time *)
(* of receipt and stored; an error is only logged.                          *)
HandleMetrics(o) ==
    /\ reports < MaxReports
    /\ reports' = reports + 1
    /\ LET m == [owner |-> o, ts |-> clock, data |-> reports + 1] IN
       /\ memory' = MemoryCreate(m)
       /\ badger' = BadgerCreate(m)
       /\ sqlite' = SqliteCreate(m)
       /\ postgres' = PostgresCreate(m)
    /\ list' = [list EXCEPT !.moved = list.pc # "idle"]
    /\ UNCHANGED <<clock, owners>>

TimePasses ==
    /\ clock < MaxTime
    /\ clock' = clock + 1
    /\ UNCHANGED <<reports, owners, memory, badger, sqlite, postgres, list>>

(* The owner's record is created, or deleted; in postgres its metrics go    *)
(* with it, in the other backends they stay.                                *)
CreateOwner(o) ==
    /\ o \notin owners
    /\ owners' = owners \cup {o}
    /\ UNCHANGED <<clock, reports, memory, badger, sqlite, postgres, list>>

DeleteOwner(o) ==
    /\ o \in owners
    /\ owners' = owners \ {o}
    /\ postgres' = {x \in postgres : x.owner # o}
    /\ UNCHANGED <<clock, reports, memory, badger, sqlite, list>>

-----------------------------------------------------------------------------
(* GetTaskMetrics and GetPropletMetrics of owner o, for a first page wide   *)
(* enough to hold all.                                                      *)

ByKey(S) == SetToSortSeq(S, LAMBDA a, b : a.owner < b.owner \/ (a.owner = b.owner /\ a.ts < b.ts))

Newest(S) == SetToSortSeq(S, LAMBDA a, b : a.ts > b.ts)

Of(S, o) == {x \in S : x.owner = o}

ListMetrics(b, o) ==
    /\ list.pc = "idle"
    /\ list' = [NoListing EXCEPT !.pc = IF b = "memory" THEN "scan" ELSE "count",
                                 !.b = b, !.owner = o, !.before = Of(Table(b), o)]
    /\ UNCHANGED <<clock, reports, owners, memory, badger, sqlite, postgres>>

(* Mutant: the loop ends at the first page without a report of the owner. *)
MutMemoryScan ==
    /\ list.pc = "scan"
    /\ LET all  == ByKey(memory)
           page == SubSeq(all, list.offset + 1, IF list.offset + ScanPage < Len(all) THEN list.offset + ScanPage ELSE Len(all))
           mine == SelectSeq(page, LAMBDA x : x.owner = list.owner)
       IN  list' = [list EXCEPT !.got = @ \o mine, !.total = @ + Len(mine), !.offset = @ + Len(page),
                                !.pc = IF mine = <<>> \/ list.offset + Len(page) >= Len(all) THEN "done" ELSE "scan"]
    /\ UNCHANGED <<clock, reports, owners, memory, badger, sqlite, postgres>>

(* In memory, the store is read page by page, each under its lock, and the  *)
(* owner's reports are picked out and counted.                              *)
MemoryScan ==
    /\ list.pc = "scan"
    /\ LET all  == ByKey(memory)
           page == SubSeq(all, list.offset + 1, IF list.offset + ScanPage < Len(all) THEN list.offset + ScanPage ELSE Len(all))
           mine == SelectSeq(page, LAMBDA x : x.owner = list.owner)
       IN  list' = [list EXCEPT !.got = @ \o mine, !.total = @ + Len(mine), !.offset = @ + Len(page),
                                !.pc = IF page = <<>> \/ list.offset + Len(page) >= Len(all) THEN "done" ELSE "scan"]
    /\ UNCHANGED <<clock, reports, owners, memory, badger, sqlite, postgres>>

(* The other backends count the owner's reports and then query them. *)
BadgerList(o) == ByKey(Of(badger, o))

SqliteList(o) == Newest(Of(sqlite, o))

PostgresList(o) == Newest(Of(postgres, o))

Query(b, o) ==
    CASE b = "badger" -> BadgerList(o) [] b = "sqlite" -> SqliteList(o) [] b = "postgres" -> PostgresList(o)

Count ==
    /\ list.pc = "count"
    /\ list' = [list EXCEPT !.pc = "query", !.total = Len(Query(list.b, list.owner))]
    /\ UNCHANGED <<clock, reports, owners, memory, badger, sqlite, postgres>>

ListRows ==
    /\ list.pc = "query"
    /\ list' = [list EXCEPT !.pc = "done", !.got = Query(list.b, list.owner)]
    /\ UNCHANGED <<clock, reports, owners, memory, badger, sqlite, postgres>>

Return ==
    /\ list.pc = "done"
    /\ list' = NoListing
    /\ UNCHANGED <<clock, reports, owners, memory, badger, sqlite, postgres>>

Next ==
    \/ TimePasses
    \/ \E o \in Owners : HandleMetrics(o) \/ CreateOwner(o) \/ DeleteOwner(o)
    \/ \E b \in Backends, o \in Owners : ListMetrics(b, o)
    \/ MemoryScan \/ Count \/ ListRows \/ Return

Spec == Init /\ [][Next]_vars

-----------------------------------------------------------------------------
(* The same messages leave the same reports in every backend: memory and    *)
(* sqlite alike, badger with the same keys but the later of two reports     *)
(* with one key (metrics.go:18), postgres without those whose owner was     *)
(* unknown at the time or is deleted since (init.go:175).                   *)
BackendsAgree ==
    /\ sqlite = memory
    /\ {<<x.owner, x.ts>> : x \in badger} = {<<x.owner, x.ts>> : x \in memory}
    /\ \A x \in postgres : x.owner \in owners /\ \E y \in memory : SameKey(x, y)

(* A listing holds every report of its owner that was stored when it began  *)
(* and still is, although the in-memory store is read in pages by position  *)
(* while new keys are sorted in before it (memory_adapter.go:470), and none *)
(* of another owner.  Only those pages can repeat a report, and only when   *)
(* one was stored meanwhile.                                                *)
ListingComplete ==
    list.pc = "done" =>
        /\ \A x \in list.before \cap Table(list.b) : \E i \in DOMAIN list.got : list.got[i] = x
        /\ \A i \in DOMAIN list.got : list.got[i].owner = list.owner
        /\ ~(list.b = "memory" /\ list.moved) => IsInjective(list.got)
        /\ list.b = "memory" => list.total = Len(list.got)
=============================================================================
