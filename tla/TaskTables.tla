----------------------------- MODULE TaskTables -----------------------------
(***************************************************************************)
(* The task repository of pkg/storage in its four backends, side by side:  *)
(* every action makes the same call on all of them, so that what the       *)
(* manager sees can be compared.  The calls of this module come one at a   *)
(* time; TaskScan has the listings that take several.                      *)
(*                                                                         *)
(* A task is what the backends treat differently: its metadata (a set of   *)
(* entries of a key, the text of the value and its JSON type), the         *)
(* workflow and the job it belongs to ("" for none), whether it carries a  *)
(* schedule, and the time it was created.  Ids are numbered in the order   *)
(* of their strings.                                                       *)
(***************************************************************************)
EXTENDS Naturals, FiniteSets, Sequences, SequencesExt

CONSTANTS
    Ids,          \* task ids, a subset of Nat
    None,         \* no record
    Metas,        \* the metadata a task may carry, and a listing may filter by
    Groups,       \* the <<workflow id, job id>> a task may have
    MaxCreates    \* bound: Create calls

VARIABLES
    memory,       \* memoryTaskRepo.storage: id -> task or None
    metaIdx,      \* memoryTaskRepo.metaIdx, as <<key, text, id>>
    badger,       \* the keys task:<id>
    badgerIdx,    \* the keys meta-idx<key><text><id>, as <<key, text, id>>
    sqlite,       \* the rows of table tasks
    postgres,     \* the rows of table tasks
    clock,        \* the number of Create calls, which is the time of the next one
    overwritten   \* ids that Create was given while they were in use

tableVars == <<memory, metaIdx, badger, badgerIdx, sqlite, postgres, clock, overwritten>>

Entry(key, text, type) == [key |-> key, text |-> text, type |-> type]

NewTask(meta, group, cron) ==
    [meta |-> meta, wf |-> group[1], job |-> group[2], cron |-> cron, created |-> clock]

(* The task an update writes keeps the creation time that was read. *)
Edited(old, t) == [t EXCEPT !.created = old.created]

Stored(table) == {k \in Ids : table[k] # None}

Sorted(ids) == SetToSortSeq(ids, <)

(* The texts by which a task is found: metaValueStr of every value. *)
metaValueStr(t) == {<<e.key, e.text>> : e \in t.meta}

Indexed(k, t) == {<<e.key, e.text, k>> : e \in t.meta}

-----------------------------------------------------------------------------
(* In memory: a map under a mutex, and an index of metadata that every      *)
(* write maintains under the repository's own lock.                         *)

MemoryCreate(k, t) ==
    IF memory[k] # None
    THEN UNCHANGED <<memory, metaIdx>>
    ELSE /\ memory' = [memory EXCEPT ![k] = t]
         /\ metaIdx' = metaIdx \cup Indexed(k, t)

MemoryUpdate(k, t) ==
    IF memory[k] = None
    THEN UNCHANGED <<memory, metaIdx>>
    ELSE /\ memory' = [memory EXCEPT ![k] = Edited(@, t)]
         /\ metaIdx' = (metaIdx \ Indexed(k, memory[k])) \cup Indexed(k, t)

MemoryDelete(k) ==
    /\ memory' = [memory EXCEPT ![k] = None]
    /\ metaIdx' = IF memory[k] = None THEN metaIdx ELSE metaIdx \ Indexed(k, memory[k])

(* The part [offset, offset + limit) of a listing. *)
Page(s, offset, limit) ==
    IF offset >= Len(s)
    THEN << >>
    ELSE SubSeq(s, offset + 1, IF offset + limit < Len(s) THEN offset + limit ELSE Len(s))

(* The ids that every entry of the filter is indexed under. *)
MemoryFilterIDs(filter) ==
    {k \in Ids : \A e \in filter : <<e.key, e.text, k>> \in metaIdx}

MemoryListByMetadata(filter, offset, limit) ==
    Page(Sorted({k \in MemoryFilterIDs(filter) : memory[k] # None}), offset, limit)

MemoryListAll(offset, limit) == Page(Sorted(Stored(memory)), offset, limit)

MemoryList(filter, offset, limit) ==
    IF filter = {}
    THEN MemoryListAll(offset, limit)
    ELSE MemoryListByMetadata(filter, offset, limit)

MemoryListByWorkflowID(w) == {k \in Stored(memory) : memory[k].wf = w}

MemoryListByJobID(j) == {k \in Stored(memory) : memory[k].job = j}

-----------------------------------------------------------------------------
(* Badger: a key per task and a key per metadata entry, written in one      *)
(* transaction.  Create does not look whether the key is there.             *)

BadgerCreate(k, t) ==
    /\ badger' = [badger EXCEPT ![k] = t]
    /\ badgerIdx' = badgerIdx \cup Indexed(k, t)

BadgerUpdate(k, t) ==
    IF badger[k] = None
    THEN UNCHANGED <<badger, badgerIdx>>
    ELSE /\ badger' = [badger EXCEPT ![k] = Edited(@, t)]
         /\ badgerIdx' = (badgerIdx \ Indexed(k, badger[k])) \cup Indexed(k, t)

BadgerDelete(k) ==
    /\ badger' = [badger EXCEPT ![k] = None]
    /\ badgerIdx' = IF badger[k] = None THEN badgerIdx ELSE badgerIdx \ Indexed(k, badger[k])

CountWithPrefix(keys) == Cardinality(keys)

(* Seek to the prefix, skip offset keys, take limit. *)
ListWithPrefix(keys, offset, limit) == Page(Sorted(keys), offset, limit)

BadgerFilterIDs(filter) ==
    {k \in Ids : \A e \in filter : <<e.key, e.text, k>> \in badgerIdx}

BadgerListByMetadata(filter, offset, limit) ==
    Page(Sorted({k \in BadgerFilterIDs(filter) : badger[k] # None}), offset, limit)

BadgerListAll(offset, limit) == ListWithPrefix(Stored(badger), offset, limit)

BadgerList(filter, offset, limit) ==
    IF filter = {}
    THEN BadgerListAll(offset, limit)
    ELSE BadgerListByMetadata(filter, offset, limit)

BadgerListBy(match(_)) == {k \in Stored(badger) : match(badger[k])}

BadgerListByWorkflowID(w) == LET Match(t) == t.wf = w IN BadgerListBy(Match)

BadgerListByJobID(j) == LET Match(t) == t.job = j IN BadgerListBy(Match)

-----------------------------------------------------------------------------
(* SQLite: dbTask has no column for the schedule, the next run, the         *)
(* priority or the time zone; an empty string is written as NULL.           *)

Null == "NULL"

NullString(s) == IF s = "" THEN Null ELSE s

SqliteRow(t) ==
    [meta |-> t.meta, wf |-> NullString(t.wf), job |-> NullString(t.job), created |-> t.created]

SqliteToTask(row) ==
    [meta |-> row.meta,
     wf |-> IF row.wf = Null THEN "" ELSE row.wf,
     job |-> IF row.job = Null THEN "" ELSE row.job,
     cron |-> FALSE,
     created |-> row.created]

SqliteCreate(k, t) ==
    sqlite' = IF sqlite[k] # None THEN sqlite ELSE [sqlite EXCEPT ![k] = SqliteRow(t)]

(* UPDATE sets every column but id and created_at. *)
SqliteUpdate(k, t) ==
    sqlite' = IF sqlite[k] = None
              THEN sqlite
              ELSE [sqlite EXCEPT ![k] = [SqliteRow(t) EXCEPT !.created = sqlite[k].created]]

SqliteDelete(k) == sqlite' = [sqlite EXCEPT ![k] = None]

(* ORDER BY created_at DESC: ids of a table, the newest first. *)
Newest(table, ids) == SetToSortSeq(ids, LAMBDA a, b : table[a].created > table[b].created)

(* json_extract(metadata, key) = value, which compares types too. *)
SqliteMetadataWhere(filter, k) == filter \subseteq sqlite[k].meta

SqliteList(filter, offset, limit) ==
    Page(Newest(sqlite, {k \in Stored(sqlite) : SqliteMetadataWhere(filter, k)}), offset, limit)

SqliteListByWorkflowID(w) == {k \in Stored(sqlite) : sqlite[k].wf = w}

SqliteListByJobID(j) == {k \in Stored(sqlite) : sqlite[k].job = j}

-----------------------------------------------------------------------------
(* PostgreSQL: the same columns.  metadata @> filter compares JSON values.  *)

PostgresRow(t) ==
    [meta |-> t.meta, wf |-> NullString(t.wf), job |-> NullString(t.job), created |-> t.created]

PostgresToTask(row) ==
    [meta |-> row.meta,
     wf |-> IF row.wf = Null THEN "" ELSE row.wf,
     job |-> IF row.job = Null THEN "" ELSE row.job,
     cron |-> FALSE,
     created |-> row.created]

PostgresCreate(k, t) ==
    postgres' = IF postgres[k] # None THEN postgres ELSE [postgres EXCEPT ![k] = PostgresRow(t)]

(* Mutant: one column is missing in the SET list. *)
MutPostgresUpdate(k, t) ==
    postgres' = IF postgres[k] = None
                THEN postgres
                ELSE [postgres EXCEPT ![k] = [PostgresRow(t) EXCEPT !.created = postgres[k].created,
                                                                    !.job = postgres[k].job]]

PostgresUpdate(k, t) ==
    postgres' = IF postgres[k] = None
                THEN postgres
                ELSE [postgres EXCEPT ![k] = [PostgresRow(t) EXCEPT !.created = postgres[k].created]]

PostgresDelete(k) == postgres' = [postgres EXCEPT ![k] = None]

PostgresMetadataWhere(filter, k) == filter \subseteq postgres[k].meta

PostgresList(filter, offset, limit) ==
    Page(Newest(postgres, {k \in Stored(postgres) : PostgresMetadataWhere(filter, k)}), offset, limit)

PostgresListByWorkflowID(w) == {k \in Stored(postgres) : postgres[k].wf = w}

PostgresListByJobID(j) == {k \in Stored(postgres) : postgres[k].job = j}

-----------------------------------------------------------------------------
(* The repository behind the adapters of the factory.                       *)

Backends == {"memory", "badger", "sqlite", "postgres"}

Get(b, k) ==
    CASE b = "memory" -> memory[k]
      [] b = "badger" -> badger[k]
      [] b = "sqlite" -> IF sqlite[k] = None THEN None ELSE SqliteToTask(sqlite[k])
      [] b = "postgres" -> IF postgres[k] = None THEN None ELSE PostgresToTask(postgres[k])

List(b, filter, offset, limit) ==
    CASE b = "memory" -> MemoryList(filter, offset, limit)
      [] b = "badger" -> BadgerList(filter, offset, limit)
      [] b = "sqlite" -> SqliteList(filter, offset, limit)
      [] b = "postgres" -> PostgresList(filter, offset, limit)

ListByWorkflowID(b, w) ==
    CASE b = "memory" -> MemoryListByWorkflowID(w)
      [] b = "badger" -> BadgerListByWorkflowID(w)
      [] b = "sqlite" -> SqliteListByWorkflowID(w)
      [] b = "postgres" -> PostgresListByWorkflowID(w)

ListByJobID(b, j) ==
    CASE b = "memory" -> MemoryListByJobID(j)
      [] b = "badger" -> BadgerListByJobID(j)
      [] b = "sqlite" -> SqliteListByJobID(j)
      [] b = "postgres" -> PostgresListByJobID(j)

-----------------------------------------------------------------------------
Init ==
    /\ memory = [k \in Ids |-> None] /\ metaIdx = {}
    /\ badger = [k \in Ids |-> None] /\ badgerIdx = {}
    /\ sqlite = [k \in Ids |-> None]
    /\ postgres = [k \in Ids |-> None]
    /\ clock = 0
    /\ overwritten = {}

Create(k, t) ==
    /\ clock < MaxCreates
    /\ MemoryCreate(k, t) /\ BadgerCreate(k, t) /\ SqliteCreate(k, t) /\ PostgresCreate(k, t)
    /\ clock' = clock + 1
    /\ overwritten' = IF memory[k] = None THEN overwritten ELSE overwritten \cup {k}

Update(k, t) ==
    /\ MemoryUpdate(k, t) /\ BadgerUpdate(k, t) /\ SqliteUpdate(k, t) /\ PostgresUpdate(k, t)
    /\ UNCHANGED <<clock, overwritten>>

Delete(k) ==
    /\ MemoryDelete(k) /\ BadgerDelete(k) /\ SqliteDelete(k) /\ PostgresDelete(k)
    /\ UNCHANGED <<clock, overwritten>>

Next ==
    \E k \in Ids :
        \/ \E meta \in Metas, g \in Groups, cron \in BOOLEAN :
              Create(k, NewTask(meta, g, cron)) \/ Update(k, NewTask(meta, g, cron))
        \/ Delete(k)

Spec == Init /\ [][Next]_tableVars

-----------------------------------------------------------------------------
Filters == Metas \ {{}}

(* Two values that print alike but are of different JSON types. *)
Alike(filter, t) ==
    \E e \in filter, f \in t.meta : e.key = f.key /\ e.text = f.text /\ e.type # f.type

(* The metadata index of the in-memory and badger repositories is exact    *)
(* after any history of creates, updates and deletes: a filter finds the   *)
(* tasks that carry its entries and no others.  (An id that was created    *)
(* again while in use is exempt: badger replaces the task and keeps the    *)
(* index entries of the replaced one.)                                     *)
IndexExact ==
    \A f \in Filters : \A k \in Ids \ overwritten :
        LET Found(t) == t # None /\ metaValueStr([meta |-> f]) \subseteq metaValueStr(t) IN
        /\ k \in MemoryFilterIDs(f) <=> Found(memory[k])
        /\ k \in BadgerFilterIDs(f) <=> Found(badger[k])

(* Whatever backend the manager was configured with, the same calls leave  *)
(* the same tasks with the same metadata, workflow, job and age, and       *)
(* listings by workflow, by job and by metadata find the same ones (up to  *)
(* the schedule, which the SQL tables drop, and to values that only print  *)
(* alike, which the SQL filters tell apart).                               *)
BackendsAgree ==
    \A b \in Backends : \A k \in Ids \ overwritten :
        LET t == Get(b, k) IN
        /\ IF memory[k] = None
           THEN t = None
           ELSE t # None /\ [memory[k] EXCEPT !.cron = FALSE] = [t EXCEPT !.cron = FALSE]
        /\ \A g \in Groups :
              /\ g[1] # "" => (k \in ListByWorkflowID(b, g[1]) <=> k \in MemoryListByWorkflowID(g[1]))
              /\ g[2] # "" => (k \in ListByJobID(b, g[2]) <=> k \in MemoryListByJobID(g[2]))
        /\ \A f \in Filters :
              t # None /\ ~Alike(f, t) =>
                  (k \in ToSet(List(b, f, 0, Cardinality(Ids)))
                      <=> k \in ToSet(MemoryList(f, 0, Cardinality(Ids))))

(* Reading page after page while nothing changes lists every task once, in *)
(* each backend's own order.                                               *)
PagesPartition ==
    \A b \in Backends, f \in Metas, limit \in 1 .. Cardinality(Ids) :
        LET all == List(b, f, 0, Cardinality(Ids))
            pages == [i \in 1 .. Cardinality(Ids) |-> List(b, f, (i - 1) * limit, limit)]
        IN  FlattenSeq(pages) = all
=============================================================================
