------------------------------ MODULE JobList ------------------------------
(***************************************************************************)
(* GET /jobs: ListJobs derives the state of every job from the tasks that  *)
(* name it, while jobs are created, tasks run and end, and tasks are       *)
(* deleted.  It pages through all tasks, then through the stored jobs, and *)
(* merges the two; each page is a query of its own.                        *)
(***************************************************************************)
EXTENDS Naturals, Sequences, SequencesExt, FiniteSets

CONSTANTS
    Jobs,       \* job ids, numbers in the order of the ids
    Tasks,      \* task ids, numbers in the order of the ids
    JobOf,      \* the job each task is submitted with
    None,
    Backends,   \* MANAGER_STORAGE_TYPE, any of these
    PageSize,   \* page size of listAllTasksFromRepo
    PageLimit   \* pageLimit of listAllStoredJobs

VARIABLES
    backend,   \* the storage the manager was started with
    tasks,     \* task -> its state, or None
    jobs,      \* jobRepo: the jobs with a record
    age,       \* jobs in the order of their CreatedAt, which their tasks share
    creating,  \* the CreateJob call in progress: its tasks still to store
    list       \* the ListJobs call in progress

vars == <<backend, tasks, jobs, age, creating, list>>

States == {"Pending", "Scheduled", "Running", "Completed", "Failed", "Skipped", "Interrupted"}

NoList == [pc |-> "idle", offset |-> 0, tasks |-> <<>>, jobs |-> <<>>, page |-> <<>>,
           before |-> {}, moved |-> FALSE]

Init ==
    /\ backend \in Backends
    /\ tasks = [t \in Tasks |-> None]
    /\ jobs = {}
    /\ age = <<>>
    /\ creating = <<>>
    /\ list = NoList

Stored == {t \in Tasks : tasks[t] # None}

CreatedAt(j) == CHOOSE i \in DOMAIN age : age[i] = j

(* What a creation or a deletion means for a listing in progress. *)
Moved == list' = [list EXCEPT !.moved = list.pc # "idle"]

-----------------------------------------------------------------------------
(* CreateJob stores the job's record first and then its tasks in turn. *)
CreateJob(j) ==
    /\ creating = <<>>
    /\ j \notin ToSet(age)
    /\ jobs' = jobs \cup {j}
    /\ age' = Append(age, j)
    /\ creating' = SetToSeq({t \in Tasks : JobOf[t] = j})
    /\ Moved
    /\ UNCHANGED <<backend, tasks>>

CreateNext ==
    /\ creating # <<>>
    /\ tasks' = [tasks EXCEPT ![Head(creating)] = "Pending"]
    /\ creating' = Tail(creating)
    /\ Moved
    /\ UNCHANGED <<backend, jobs, age>>

(* Dispatch and the result handler, as far as a listing sees them. *)
Advance(t) ==
    /\ \/ tasks[t] = "Pending" /\ tasks' = [tasks EXCEPT ![t] = "Running"]
       \/ tasks[t] = "Running" /\ \E s \in {"Completed", "Failed"} : tasks' = [tasks EXCEPT ![t] = s]
    /\ UNCHANGED <<backend, jobs, age, creating, list>>

DeleteTask(t) ==
    /\ t \in Stored
    /\ tasks' = [tasks EXCEPT ![t] = None]
    /\ Moved
    /\ UNCHANGED <<backend, jobs, age, creating>>

-----------------------------------------------------------------------------
(* The order of a query over all tasks: by id in memory and badger, newest  *)
(* first in the SQL stores, where tasks of one job share their time.        *)
TaskOrders ==
    IF backend \in {"memory", "badger"}
    THEN {SetToSortSeq(Stored, LAMBDA a, b : a < b)}
    ELSE {s \in SetToSeqs(Stored) :
            \A i \in 1..(Len(s) - 1) : CreatedAt(JobOf[s[i]]) >= CreatedAt(JobOf[s[i + 1]])}

(* The jobs as jobRepo.List orders them in each backend. *)
MemoryJobs == SetToSortSeq(jobs, LAMBDA a, b : a < b)

BadgerJobs == SetToSortSeq(jobs, LAMBDA a, b : a < b)

SqliteJobs == Reverse(age)

PostgresJobs == Reverse(age)

JobOrder ==
    CASE backend = "memory" -> MemoryJobs [] backend = "badger" -> BadgerJobs
      [] backend = "sqlite" -> SqliteJobs [] backend = "postgres" -> PostgresJobs

Page(s, offset, n) == SubSeq(s, offset + 1, IF offset + n < Len(s) THEN offset + n ELSE Len(s))

ListJobs ==
    /\ list.pc = "idle"
    /\ list' = [NoList EXCEPT !.pc = "tasks", !.before = Stored]
    /\ UNCHANGED <<backend, tasks, jobs, age, creating>>

(* listAllTasks: one page, the loop's offset and its end. *)
ListTasks ==
    /\ list.pc = "tasks"
    /\ \E order \in TaskOrders :
         LET page == Page(order, list.offset, PageSize)
             next == list.offset + Len(page)
             copy == [i \in DOMAIN page |-> [id |-> page[i], state |-> tasks[page[i]]]]
             last == page = <<>> \/ next >= Len(order)
         IN  list' = [list EXCEPT !.tasks = @ \o copy,
                                  !.offset = IF last THEN 0 ELSE next,
                                  !.pc = IF last THEN "jobs" ELSE "tasks"]
    /\ UNCHANGED <<backend, tasks, jobs, age, creating>>

(* listAllStoredJobs: one page. *)
ListStoredJobs ==
    /\ list.pc = "jobs"
    /\ LET page == Page(JobOrder, list.offset, PageLimit)
           last == page = <<>> \/ list.offset + Len(page) >= Len(JobOrder)
       IN  list' = [list EXCEPT !.jobs = @ \o page,
                                !.offset = @ + PageLimit,
                                !.pc = IF last THEN "merge" ELSE "jobs"]
    /\ UNCHANGED <<backend, tasks, jobs, age, creating>>

(* Mutant: a pending task does not keep the job from being complete. *)
MutComputeJobState(states) ==
    CASE states \cap {"Failed", "Interrupted"} # {} -> "Failed"
      [] states \cap {"Running", "Scheduled"} # {} -> "Running"
      [] states \cap {"Completed"} # {} -> "Completed"
      [] OTHER -> "Pending"

(* ComputeJobState, from the states that occur among the tasks. *)
ComputeJobState(states) ==
    CASE states = {} -> "Pending"
      [] states \cap {"Failed", "Interrupted"} # {} -> "Failed"
      [] states \cap {"Running", "Scheduled"} # {} -> "Running"
      [] states # {} /\ states \subseteq {"Completed", "Skipped"} -> "Completed"
      [] OTHER -> "Pending"

(* computeJobSummary: CreatedAt is the earliest of the tasks, zero without. *)
Summary(j, mine) ==
    [job |-> j, state |-> ComputeJobState({m.state : m \in mine}),
     created |-> IF mine = {} THEN 0 ELSE CreatedAt(j)]

(* The jobs known only from their tasks. *)
Derived(listed, stored) == {JobOf[m.id] : m \in listed} \ ToSet(stored)

(* Newest first, ties by id. *)
Sorted(s) ==
    SortSeq(s, LAMBDA a, b : a.created > b.created \/ (a.created = b.created /\ a.job < b.job))

Merge ==
    /\ list.pc = "merge"
    /\ LET listed == ToSet(list.tasks)
           all    == list.jobs \o SetToSeq(Derived(listed, list.jobs))
       IN  list' = [list EXCEPT !.pc = "done",
                                !.page = Sorted([i \in DOMAIN all |->
                                                   Summary(all[i], {m \in listed : JobOf[m.id] = all[i]})])]
    /\ UNCHANGED <<backend, tasks, jobs, age, creating>>

Return ==
    /\ list.pc = "done"
    /\ list' = NoList
    /\ UNCHANGED <<backend, tasks, jobs, age, creating>>

Next ==
    \/ \E j \in Jobs : CreateJob(j)
    \/ CreateNext
    \/ \E t \in Tasks : Advance(t) \/ DeleteTask(t)
    \/ ListJobs \/ ListTasks \/ ListStoredJobs \/ Merge \/ Return

Spec == Init /\ [][Next]_vars

-----------------------------------------------------------------------------
(* JobStatus: the values of the status parameter and the states they select.*)
ByStatus(page, status) == SelectSeq(page, LAMBDA s : s.state = status)

(* A job is listed at most once, whether it is known from its record, from  *)
(* its tasks or from both (service.go:443), unless records were added while *)
(* the stored jobs were paged through; and the four status filters          *)
(* (service.go:471) split the listing between them.                         *)
JobListedOnce ==
    list.pc = "done" =>
        /\ ~list.moved => Cardinality({list.page[i].job : i \in DOMAIN list.page}) = Len(list.page)
        /\ Len(list.page) = Len(ByStatus(list.page, "Pending")) + Len(ByStatus(list.page, "Running"))
                            + Len(ByStatus(list.page, "Completed")) + Len(ByStatus(list.page, "Failed"))

(* While nothing is created or deleted, a job is listed as completed only   *)
(* when each of its stored tasks has completed or was skipped, and as       *)
(* failed only when one of them failed, although every page of tasks is     *)
(* read at another moment (service.go:423, 553).                            *)
ListedStateIsReal ==
    list.pc = "done" /\ ~list.moved /\ backend \in {"memory", "badger"} =>
        \A i \in DOMAIN list.page :
            LET now == {tasks[t] : t \in {u \in Stored : JobOf[u] = list.page[i].job}}
            IN  /\ list.page[i].state = "Completed" => now \subseteq {"Completed", "Skipped"}
                /\ list.page[i].state = "Failed" => now \cap {"Failed", "Interrupted"} # {}
=============================================================================
