----------------------------- MODULE Submission -----------------------------
(***************************************************************************)
(* How tasks enter the manager (manager/service.go): CreateTask,           *)
(* CreateWorkflow and CreateJob validate what they are given and then write *)
(* record after record, undoing the batch when one write fails; DeleteTask  *)
(* runs beside them.  Names, schedules and the other fields of a task are   *)
(* left out: their validation returns before anything is written, and a     *)
(* refused call changes nothing.                                            *)
(***************************************************************************)
EXTENDS Dag

CONSTANTS
    Callers,      \* concurrent API calls
    Batches,      \* [kind, group, tasks] a client may submit
    Singles,      \* [id, group, deps] a client may give to CreateTask
    FreshIds,     \* uuids the manager may draw for CreateTask
    Exclusive,    \* Create refuses an id that exists (all backends but badger)
    MaxFaults,    \* bound: writes that fail
    MaxDeletes    \* bound: DeleteTask calls

VARIABLES
    stored,      \* taskRepo: id -> [group, deps]
    jobs,        \* jobRepo: the ids of the job records
    call,        \* caller -> what it is doing (lost: a ghost, what DeleteTask took)
    faults, deletes,
    committed,   \* ghost: id -> record, of calls that returned success
    leaked,      \* ghost: ids whose rollback failed
    reused       \* ghost: ids DeleteTask took from a batch being written
vars == <<stored, jobs, call, faults, deletes, committed, leaked, reused>>

Idle == [pc |-> "idle", kind |-> "", group |-> "", tasks |-> <<>>, n |-> 0, lost |-> {}]
Used == DOMAIN stored \cup DOMAIN committed \cup {call[c].tasks[1].id : c \in {d \in Callers : call[d].pc = "store"}}

(* f with x mapped to v, and f without the ids in S. *)
Put(f, x, v) == [y \in DOMAIN f \cup {x} |-> IF y = x THEN v ELSE f[y]]
Without(f, S) == [y \in DOMAIN f \ S |-> f[y]]

Rec(c, i) == [group |-> call[c].group, deps |-> ToSet(call[c].tasks[i].deps)]

(* The stored tasks of a group as the list a repository returns (the         *)
(* validators do not depend on its order).                                   *)
Listed(f, g) ==
    LET ids == {x \in DOMAIN f : f[x].group = g}
    IN  [i \in DOMAIN SetToSeq(ids) |-> [id |-> SetToSeq(ids)[i], deps |-> SetToSeq(f[SetToSeq(ids)[i]].deps)]]

-----------------------------------------------------------------------------
Init ==
    /\ stored = <<>> /\ jobs = {}
    /\ call = [c \in Callers |-> Idle]
    /\ faults = 0 /\ deletes = 0
    /\ committed = <<>> /\ leaked = {} /\ reused = {}

(* CreateTask up to the new id.  Dependencies need a workflow, and are       *)
(* checked with the id the client sent, before the manager draws its own.    *)
CreateTask(c) ==
    /\ call[c].pc = "idle"
    /\ \E t \in Singles, x \in FreshIds \ Used :
        LET all == Append(Listed(stored, t.group), [id |-> t.id, deps |-> t.deps]) IN
        /\ t.deps # <<>> => t.group # "" /\ ValidateDependenciesExist(all) /\ ValidateDAG(all)
        /\ call' = [call EXCEPT ![c] = [pc |-> "store", kind |-> "task", group |-> t.group,
                                        tasks |-> <<[id |-> x, deps |-> t.deps]>>, n |-> 0, lost |-> {}]]
    /\ UNCHANGED <<stored, jobs, faults, deletes, committed, leaked, reused>>

(* The Create of CreateTask; its failure is simply returned. *)
StoreTask(c) ==
    /\ call[c].pc = "store"
    /\ LET x == call[c].tasks[1].id IN
       \/ /\ stored' = Put(stored, x, Rec(c, 1))
          /\ committed' = Put(committed, x, Rec(c, 1))
          /\ UNCHANGED faults
       \/ /\ faults < MaxFaults
          /\ faults' = faults + 1
          /\ UNCHANGED <<stored, committed>>
    /\ call' = [call EXCEPT ![c] = Idle]
    /\ UNCHANGED <<jobs, deletes, leaked, reused>>

(* Mutant: only ValidateDependenciesExist looks at the batch. *)
MutCreateBatch(c) ==
    /\ call[c].pc = "idle"
    /\ \E b \in Batches :
        /\ b.tasks # <<>>
        /\ ValidateDependenciesExist(b.tasks)
        /\ call' = [call EXCEPT ![c] = [pc |-> IF b.kind = "job" THEN "job" ELSE "create",
                                        kind |-> b.kind, group |-> b.group, tasks |-> b.tasks,
                                        n |-> 0, lost |-> {}]]
    /\ UNCHANGED <<stored, jobs, faults, deletes, committed, leaked, reused>>

(* CreateWorkflow and CreateJob up to the first write. *)
CreateBatch(c) ==
    /\ call[c].pc = "idle"
    /\ \E b \in Batches :
        /\ b.tasks # <<>>
        /\ ValidateDependenciesExist(b.tasks)
        /\ ValidateDAG(b.tasks)
        /\ call' = [call EXCEPT ![c] = [pc |-> IF b.kind = "job" THEN "job" ELSE "create",
                                        kind |-> b.kind, group |-> b.group, tasks |-> b.tasks,
                                        n |-> 0, lost |-> {}]]
    /\ UNCHANGED <<stored, jobs, faults, deletes, committed, leaked, reused>>

(* CreateJob's job record; without it nothing is written. *)
CreateJobRecord(c) ==
    /\ call[c].pc = "job"
    /\ \/ /\ Exclusive => call[c].group \notin jobs
          /\ jobs' = jobs \cup {call[c].group}
          /\ call' = [call EXCEPT ![c].pc = "create"]
          /\ UNCHANGED faults
       \/ /\ Exclusive /\ call[c].group \in jobs
          /\ call' = [call EXCEPT ![c] = Idle]
          /\ UNCHANGED <<jobs, faults>>
       \/ /\ faults < MaxFaults
          /\ faults' = faults + 1
          /\ call' = [call EXCEPT ![c] = Idle]
          /\ UNCHANGED jobs
    /\ UNCHANGED <<stored, deletes, committed, leaked, reused>>

(* The next task of the batch.  The last one makes the call a success.       *)
CreateNext(c) ==
    /\ call[c].pc = "create"
    /\ LET i == call[c].n + 1
           x == call[c].tasks[i].id
           kept == Ids(call[c].tasks) \ (call[c].lost \ {x})
       IN  \/ /\ Exclusive => x \notin DOMAIN stored
              /\ stored' = Put(stored, x, Rec(c, i))
              /\ IF i = Len(call[c].tasks)
                 THEN /\ call' = [call EXCEPT ![c] = Idle]
                      /\ committed' = [y \in DOMAIN committed \cup kept |->
                                         IF y \in kept
                                         THEN Rec(c, CHOOSE j \in 1..i : call[c].tasks[j].id = y)
                                         ELSE committed[y]]
                 ELSE /\ call' = [call EXCEPT ![c].n = i, ![c].lost = @ \ {x}]
                      /\ UNCHANGED committed
              /\ UNCHANGED faults
           \/ /\ Exclusive /\ x \in DOMAIN stored
              /\ call' = [call EXCEPT ![c].pc = "undo", ![c].tasks = SubSeq(@, 1, call[c].n), ![c].n = 1]
              /\ UNCHANGED <<stored, committed, faults>>
           \/ /\ faults < MaxFaults
              /\ faults' = faults + 1
              /\ call' = [call EXCEPT ![c].pc = "undo", ![c].tasks = SubSeq(@, 1, call[c].n), ![c].n = 1]
              /\ UNCHANGED <<stored, committed>>
    /\ UNCHANGED <<jobs, deletes, leaked, reused>>

(* Mutant: the rollback starts at the second task that was created. *)
MutUndoNext(c) ==
    /\ call[c].pc = "undo"
    /\ call[c].n <= Len(call[c].tasks)
    /\ stored' = IF call[c].n = 1 THEN stored ELSE Without(stored, {call[c].tasks[call[c].n].id})
    /\ call' = [call EXCEPT ![c].n = @ + 1]
    /\ UNCHANGED <<jobs, faults, deletes, committed, leaked, reused>>

(* The rollback deletes by id what the call created; a Delete that fails is  *)
(* logged and skipped.                                                       *)
UndoNext(c) ==
    /\ call[c].pc = "undo"
    /\ call[c].n <= Len(call[c].tasks)
    /\ LET x == call[c].tasks[call[c].n].id IN
       \/ /\ stored' = Without(stored, {x})
          /\ UNCHANGED <<faults, leaked>>
       \/ /\ faults < MaxFaults
          /\ faults' = faults + 1
          /\ leaked' = leaked \cup {x}
          /\ UNCHANGED stored
    /\ call' = [call EXCEPT ![c].n = @ + 1]
    /\ UNCHANGED <<jobs, deletes, committed, reused>>

(* The end of the rollback: CreateJob also deletes its job record. *)
Undone(c) ==
    /\ call[c].pc = "undo"
    /\ call[c].n > Len(call[c].tasks)
    /\ \/ /\ jobs' = IF call[c].kind = "job" THEN jobs \ {call[c].group} ELSE jobs
          /\ UNCHANGED <<faults, leaked>>
       \/ /\ call[c].kind = "job"
          /\ faults < MaxFaults
          /\ faults' = faults + 1
          /\ leaked' = leaked \cup {call[c].group}
          /\ UNCHANGED jobs
    /\ call' = [call EXCEPT ![c] = Idle]
    /\ UNCHANGED <<stored, deletes, committed, reused>>

(* The ids an unfinished batch has written so far. *)
Written(c) ==
    CASE call[c].pc = "create" -> {call[c].tasks[i].id : i \in 1..call[c].n}
      [] call[c].pc = "undo"   -> Ids(call[c].tasks)
      [] OTHER                 -> {}

DeleteTask(x) ==
    /\ deletes < MaxDeletes
    /\ x \in DOMAIN stored
    /\ deletes' = deletes + 1
    /\ stored' = Without(stored, {x})
    /\ committed' = Without(committed, {x})
    /\ reused' = reused \cup ({x} \cap UNION {Written(c) : c \in Callers})
    /\ call' = [c \in Callers |->
                 IF x \in Written(c) THEN [call[c] EXCEPT !.lost = @ \cup {x}] ELSE call[c]]
    /\ UNCHANGED <<jobs, faults, leaked>>

Next ==
    \/ \E c \in Callers :
        \/ CreateTask(c) \/ StoreTask(c) \/ CreateBatch(c) \/ CreateJobRecord(c)
        \/ CreateNext(c) \/ UndoNext(c) \/ Undone(c)
    \/ \E x \in DOMAIN stored : DeleteTask(x)

Spec == Init /\ [][Next]_vars

-----------------------------------------------------------------------------
InProgress == UNION {Written(c) : c \in Callers}

(* A batch is all or nothing: whatever is stored belongs to a call that      *)
(* succeeded or is still writing, save what a failed rollback left; and what *)
(* a successful call stored stays until DeleteTask takes it, even when other *)
(* batches that use the same ids fail and roll back.                         *)
AllOrNothing ==
    /\ DOMAIN stored \subseteq DOMAIN committed \cup InProgress \cup leaked
    /\ \A x \in DOMAIN committed \ reused : x \in DOMAIN stored /\ stored[x] = committed[x]

(* The job records: while no call is running, a job record stands for tasks  *)
(* that were committed under it (until they are deleted), or its rollback    *)
(* failed.                                                                   *)
JobRecordsBacked ==
    (\A c \in Callers : call[c].pc = "idle") /\ deletes = 0 =>
        \A g \in jobs : g \in leaked \/ \E x \in DOMAIN committed : committed[x].group = g

(* Validation looks at one batch, or at the workflow as it was listed; the   *)
(* tasks of calls that succeeded still never form a cycle, however calls     *)
(* interleave and whatever ids the client picks.  A cycle would keep every   *)
(* task on it from ever being ready.                                         *)
CommittedAcyclic ==
    \A g \in {committed[x].group : x \in DOMAIN committed} : Acyclic(Listed(committed, g))
=============================================================================
