-------------------------------- MODULE Jobs --------------------------------
(***************************************************************************)
(* One job (manager/service.go): StartJob in its three execution modes,    *)
(* StopJob, and the result handler's job branch, which starts the tasks    *)
(* that depend on a completed one and stops the job when a task fails.     *)
(*                                                                         *)
(* Callers run StartJob and StopJob; parallel mode starts each root in a   *)
(* goroutine of its own; results are handled by the MQTT thread.  Whatever *)
(* decides on the job works on a listing of its tasks that may be stale.   *)
(* The tasks have no WorkflowID.                                           *)
(***************************************************************************)
EXTENDS Naturals, Sequences, FiniteSets

CONSTANTS
    Tasks,       \* 1..n
    DependsOn,   \* task -> sequence of smaller task ids
    Callers,     \* HTTP threads
    MQTT,        \* the thread of the subscription handlers
    Modes,       \* execution modes StartJob is called with
    MaxStarts,   \* bound: StartJob calls
    MaxStops,    \* bound: StopJob calls
    Losses       \* TRUE: the publish of a start command may fail

Threads == Callers \cup {MQTT}

(* The goroutine in which caller c starts task k. *)
Goroutine(c, k) == <<c, k>>

Starters == Threads \cup (Callers \X Tasks)

DepsOf(k) == {DependsOn[k][i] : i \in 1..Len(DependsOn[k])}

VARIABLES
    state,      \* taskRepo: task -> State
    pinned,     \* taskPropletRepo: the tasks that have a pin
    thread,     \* thread -> what it does with the job
    starter,    \* starter -> the StartTask call it runs
    starts,     \* StartJob calls so far
    stops,      \* StopJob calls so far
    working,    \* tasks some proplet works on
    told,       \* tasks whose last command to the proplet was a stop
    results,    \* published results not handled yet
    orders,     \* history: start commands published per task
    settled,    \* history: tasks whose result was handled or whose start failed
    overtaken,  \* history: tasks whose result was handled before markTaskRunning
    failedAt    \* history: the tasks being started when the first failure after the
                \* last StartJob was listed; {0} before it

vars == <<state, pinned, thread, starter, starts, stops, working, told, results, orders, settled,
          overtaken, failedAt>>

(* Mutant: a running dependency counts as done. *)
MutIsTerminal(s) == s # "Pending"

IsTerminal(s) == s \in {"Completed", "Failed"}

Idle == [pc |-> "idle", todo |-> <<>>, seen |-> <<>>, k |-> 0, r |-> "Completed"]

NoStart == [pc |-> "idle", k |-> 0, i |-> 1, copy |-> "Pending", err |-> FALSE]

(* The elements of a set of task ids in the order of the listing. *)
InOrder(S) ==
    CHOOSE s \in [1..Cardinality(S) -> S] : \A i, j \in DOMAIN s : i < j => s[i] < s[j]

Roots == {k \in Tasks : DependsOn[k] = <<>>}

(* ComputeJobState over the job's tasks. *)
ComputeJobState(st) ==
    CASE \E k \in Tasks : st[k] = "Failed" -> "Failed"
      [] \A k \in Tasks : st[k] # "Failed" /\ \E j \in Tasks : st[j] = "Running" -> "Running"
      [] \A k \in Tasks : st[k] = "Completed" -> "Completed"
      [] OTHER -> "Pending"

(* The tasks stopJobTasks stops, given a listing. *)
Active(st) == InOrder({k \in Tasks : st[k] = "Running"})

-----------------------------------------------------------------------------
Init ==
    /\ state = [k \in Tasks |-> "Pending"]
    /\ pinned = {}
    /\ thread = [c \in Threads |-> Idle]
    /\ starter = [s \in Starters |-> NoStart]
    /\ starts = 0
    /\ stops = 0
    /\ working = {}
    /\ told = {}
    /\ results = {}
    /\ orders = [k \in Tasks |-> 0]
    /\ settled = {}
    /\ overtaken = {}
    /\ failedAt = {0}

-----------------------------------------------------------------------------
(* StartTask, for whichever starter calls it. *)

Begin(k) == [NoStart EXCEPT !.pc = "get", !.k = k]

Finish(s, err) == starter' = [starter EXCEPT ![s] = [NoStart EXCEPT !.pc = "done", !.err = err]]

Move(s, pc) == starter' = [starter EXCEPT ![s].pc = pc]

StartGet(s) ==
    /\ starter[s].pc = "get"
    /\ starter' = [starter EXCEPT ![s].copy = state[starter[s].k],
                                  ![s].pc = IF DependsOn[starter[s].k] = <<>> THEN "pin" ELSE "deps"]
    /\ UNCHANGED <<state, pinned, thread, starts, stops, working, told, results, orders, settled, overtaken, failedAt>>

(* checkTaskDependencies; without a workflow it only refuses. *)
StartDep(s) ==
    /\ starter[s].pc = "deps"
    /\ LET f == starter[s] IN
       IF ~IsTerminal(state[DependsOn[f.k][f.i]])
       THEN Finish(s, TRUE)
       ELSE starter' = [starter EXCEPT ![s].i = f.i + 1,
                                       ![s].pc = IF f.i = Len(DependsOn[f.k]) THEN "pin" ELSE "deps"]
    /\ UNCHANGED <<state, pinned, thread, starts, stops, working, told, results, orders, settled, overtaken, failedAt>>

StartPin(s) ==
    /\ starter[s].pc = "pin"
    /\ IF starter[s].k \in pinned
       THEN Finish(s, TRUE) /\ UNCHANGED pinned
       ELSE pinned' = pinned \cup {starter[s].k} /\ Move(s, "persist")
    /\ UNCHANGED <<state, thread, starts, stops, working, told, results, orders, settled, overtaken, failedAt>>

StartPersist(s) ==
    /\ starter[s].pc = "persist"
    /\ state' = [state EXCEPT ![starter[s].k] = starter[s].copy]
    /\ Move(s, "publish")
    /\ UNCHANGED <<pinned, thread, starts, stops, working, told, results, orders, settled, overtaken, failedAt>>

StartPublish(s) ==
    /\ starter[s].pc = "publish"
    /\ orders' = [orders EXCEPT ![starter[s].k] = @ + 1]
    /\ working' = working \cup {starter[s].k}
    /\ told' = told \ {starter[s].k}
    /\ Move(s, "mark")
    /\ UNCHANGED <<state, pinned, thread, starts, stops, results, settled, overtaken, failedAt>>

(* A failed publish unpins the task and marks it Failed. *)
StartLost(s) ==
    /\ Losses
    /\ starter[s].pc = "publish"
    /\ pinned' = pinned \ {starter[s].k}
    /\ Move(s, "fail")
    /\ UNCHANGED <<state, thread, starts, stops, working, told, results, orders, settled, overtaken, failedAt>>

StartFail(s) ==
    /\ starter[s].pc = "fail"
    /\ state' = [state EXCEPT ![starter[s].k] = "Failed"]
    /\ settled' = settled \cup {starter[s].k}
    /\ Finish(s, TRUE)
    /\ UNCHANGED <<pinned, thread, starts, stops, working, told, results, orders, overtaken, failedAt>>

StartMark(s) ==
    /\ starter[s].pc = "mark"
    /\ state' = [state EXCEPT ![starter[s].k] = "Running"]
    /\ overtaken' = overtaken \cup ({starter[s].k} \cap settled)
    /\ Finish(s, FALSE)
    /\ UNCHANGED <<pinned, thread, starts, stops, working, told, results, orders, settled, failedAt>>

-----------------------------------------------------------------------------
(* StartJob: one listing of the job's tasks, then by mode.  Parallel starts  *)
(* every root in a goroutine, sequential one root after the other, without   *)
(* waiting for it to finish, configurable the roots that are not terminal,   *)
(* in the order of TopologicalSort, which may be any.                        *)
StartJob(c, mode) ==
    /\ thread[c].pc = "idle"
    /\ starts < MaxStarts
    /\ starts' = starts + 1
    /\ CASE mode = "parallel" ->
              /\ thread' = [thread EXCEPT ![c] = [Idle EXCEPT !.pc = "wait", !.seen = state]]
              /\ starter' = [s \in Starters |->
                                IF s \in {Goroutine(c, k) : k \in Roots} THEN Begin(s[2]) ELSE starter[s]]
         [] mode = "sequential" ->
              /\ thread' = [thread EXCEPT ![c] =
                               [Idle EXCEPT !.pc = "start", !.todo = InOrder(Roots), !.seen = state]]
              /\ UNCHANGED starter
         [] mode = "configurable" ->
              LET ready == {k \in Roots : ~IsTerminal(state[k])} IN
              /\ \E sorted \in [1..Cardinality(ready) -> ready] :
                    /\ {sorted[i] : i \in DOMAIN sorted} = ready
                    /\ thread' = [thread EXCEPT ![c] =
                                     [Idle EXCEPT !.pc = "start", !.todo = sorted, !.seen = state]]
              /\ UNCHANGED starter
    /\ failedAt' = {0}
    /\ UNCHANGED <<state, pinned, stops, working, told, results, orders, settled, overtaken>>

(* startJobParallel waits for its goroutines. *)
JobWait(c) ==
    /\ thread[c].pc = "wait"
    /\ \A k \in Roots : starter[Goroutine(c, k)].pc = "done"
    /\ thread' = [thread EXCEPT ![c] =
                     IF \E k \in Roots : starter[Goroutine(c, k)].err
                     THEN [Idle EXCEPT !.pc = "stop", !.todo = Active(thread[c].seen)]
                     ELSE Idle]
    /\ starter' = [s \in Starters |-> IF s \in {Goroutine(c, k) : k \in Roots} THEN NoStart ELSE starter[s]]
    /\ UNCHANGED <<state, pinned, starts, stops, working, told, results, orders, settled, overtaken, failedAt>>

(* The other two modes call StartTask for the next task, and stop the job    *)
(* at the first error.                                                       *)
JobNext(c) ==
    /\ thread[c].pc = "start"
    /\ starter[c].pc = "idle"
    /\ IF thread[c].todo = <<>>
       THEN thread' = [thread EXCEPT ![c] = Idle] /\ UNCHANGED starter
       ELSE /\ starter' = [starter EXCEPT ![c] = Begin(Head(thread[c].todo))]
            /\ thread' = [thread EXCEPT ![c].todo = Tail(@)]
    /\ UNCHANGED <<state, pinned, starts, stops, working, told, results, orders, settled, overtaken, failedAt>>

JobStarted(c) ==
    /\ thread[c].pc = "start"
    /\ starter[c].pc = "done"
    /\ starter' = [starter EXCEPT ![c] = NoStart]
    /\ thread' = IF starter[c].err
                 THEN [thread EXCEPT ![c] = [Idle EXCEPT !.pc = "stop", !.todo = Active(thread[c].seen)]]
                 ELSE thread
    /\ UNCHANGED <<state, pinned, starts, stops, working, told, results, orders, settled, overtaken, failedAt>>

(* StopJob: a listing, then stopJobTasks. *)
StopJob(c) ==
    /\ thread[c].pc = "idle"
    /\ stops < MaxStops
    /\ stops' = stops + 1
    /\ thread' = [thread EXCEPT ![c] = [Idle EXCEPT !.pc = "stop", !.todo = Active(state)]]
    /\ UNCHANGED <<state, pinned, starter, starts, working, told, results, orders, settled, overtaken, failedAt>>

(* stopJobTasks: StopTask of the next task.  It needs the pin, sends the     *)
(* stop command, removes the pin and leaves the state alone.                 *)
StopNext(c) ==
    /\ thread[c].pc = "stop"
    /\ IF thread[c].todo = <<>>
       THEN thread' = [thread EXCEPT ![c] = Idle] /\ UNCHANGED <<told, pinned>>
       ELSE LET k == Head(thread[c].todo) IN
            IF k \in pinned
            THEN /\ told' = told \cup {k}
                 /\ thread' = [thread EXCEPT ![c].pc = "unpin", ![c].k = k, ![c].todo = Tail(@)]
                 /\ UNCHANGED pinned
            ELSE thread' = [thread EXCEPT ![c].todo = Tail(@)] /\ UNCHANGED <<told, pinned>>
    /\ UNCHANGED <<state, starter, starts, stops, working, results, orders, settled, overtaken, failedAt>>

StopUnpin(c) ==
    /\ thread[c].pc = "unpin"
    /\ pinned' = pinned \ {thread[c].k}
    /\ thread' = [thread EXCEPT ![c].pc = "stop", ![c].k = 0]
    /\ UNCHANGED <<state, starter, starts, stops, working, told, results, orders, settled, overtaken, failedAt>>

-----------------------------------------------------------------------------
(* The proplet reports a result, or drops a task it was told to stop. *)
PropletReports(k, r) ==
    /\ k \in working
    /\ working' = working \ {k}
    /\ results' = results \cup {<<k, r>>}
    /\ UNCHANGED <<state, pinned, thread, starter, starts, stops, told, orders, settled, overtaken, failedAt>>

PropletDrops(k) ==
    /\ k \in working \cap told
    /\ working' = working \ {k}
    /\ UNCHANGED <<state, pinned, thread, starter, starts, stops, told, results, orders, settled, overtaken, failedAt>>

(* updateResultsHandler: the result is written ... *)
UpdateResultsHandler(k, r) ==
    /\ thread[MQTT].pc = "idle"
    /\ <<k, r>> \in results
    /\ results' = results \ {<<k, r>>}
    /\ state' = [state EXCEPT ![k] = r]
    /\ settled' = settled \cup {k}
    /\ thread' = [thread EXCEPT ![MQTT] = [Idle EXCEPT !.pc = "list", !.k = k, !.r = r]]
    /\ UNCHANGED <<pinned, starter, starts, stops, working, told, orders, overtaken, failedAt>>

(* Tasks somebody is still busy starting. *)
BeingStarted ==
    {starter[s].k : s \in {x \in Starters : starter[x].pc \notin {"idle", "done"}}}
        \cup UNION {{thread[c].todo[i] : i \in DOMAIN thread[c].todo} :
                      c \in {x \in Threads : thread[x].pc = "start"}}

(* The pending tasks of the listing that depend on k. *)
Dependents(k) == InOrder({j \in Tasks : state[j] = "Pending" /\ k \in DepsOf(j)})

(* Mutant: a failed task does not stop the job. *)
MutResultList ==
    /\ thread[MQTT].pc = "list"
    /\ LET k == thread[MQTT].k IN
       thread' = [thread EXCEPT ![MQTT] =
                     IF \E j \in Tasks : state[j] = "Failed"
                     THEN Idle
                     ELSE [Idle EXCEPT !.pc = "next", !.k = k, !.todo = Dependents(k)]]
    /\ failedAt' = IF thread[MQTT].r = "Failed" /\ failedAt = {0} THEN BeingStarted ELSE failedAt
    /\ UNCHANGED <<state, pinned, starter, starts, stops, working, told, results, orders, settled, overtaken>>

(* ... the job's tasks are listed, and a failure stops the active ones, a    *)
(* success looks at the pending tasks that depend on the completed one,      *)
(* unless the listing shows a failure.                                       *)
ResultList ==
    /\ thread[MQTT].pc = "list"
    /\ LET k == thread[MQTT].k IN
       thread' = [thread EXCEPT ![MQTT] =
                     IF thread[MQTT].r = "Failed"
                     THEN [Idle EXCEPT !.pc = "stop", !.todo = Active(state)]
                     ELSE IF \E j \in Tasks : state[j] = "Failed"
                     THEN Idle
                     ELSE [Idle EXCEPT !.pc = "next", !.k = k, !.todo = Dependents(k)]]
    /\ failedAt' = IF thread[MQTT].r = "Failed" /\ failedAt = {0} THEN BeingStarted ELSE failedAt
    /\ UNCHANGED <<state, pinned, starter, starts, stops, working, told, results, orders, settled, overtaken>>

(* startJobDependentTasks: allDependenciesComplete re-reads the dependencies *)
(* of the next dependent; then StartTask, whose error is ignored.            *)
DependentNext ==
    /\ thread[MQTT].pc = "next"
    /\ starter[MQTT].pc \in {"idle", "done"}
    /\ IF thread[MQTT].todo = <<>>
       THEN /\ thread' = [thread EXCEPT ![MQTT] = Idle]
            /\ starter' = [starter EXCEPT ![MQTT] = NoStart]
       ELSE LET j == Head(thread[MQTT].todo) IN
            /\ thread' = [thread EXCEPT ![MQTT].todo = Tail(@)]
            /\ starter' = [starter EXCEPT ![MQTT] =
                              IF \A d \in DepsOf(j) : IsTerminal(state[d]) THEN Begin(j) ELSE NoStart]
    /\ UNCHANGED <<state, pinned, starts, stops, working, told, results, orders, settled, overtaken, failedAt>>

-----------------------------------------------------------------------------
StartStep(s) ==
    \/ StartGet(s) \/ StartDep(s) \/ StartPin(s) \/ StartPersist(s)
    \/ StartPublish(s) \/ StartLost(s) \/ StartFail(s) \/ StartMark(s)

ThreadStep(c) ==
    \/ c \in Callers /\ (JobWait(c) \/ JobNext(c) \/ JobStarted(c))
    \/ StopNext(c) \/ StopUnpin(c)
    \/ c = MQTT /\ (ResultList \/ DependentNext)

Next ==
    \/ \E c \in Callers : StopJob(c) \/ \E mode \in Modes : StartJob(c, mode)
    \/ \E s \in Starters : StartStep(s)
    \/ \E c \in Threads : ThreadStep(c)
    \/ \E k \in Tasks : PropletDrops(k)
    \/ \E k \in Tasks, r \in {"Completed", "Failed"} : PropletReports(k, r) \/ UpdateResultsHandler(k, r)

Spec == Init /\ [][Next]_vars

(* Threads and goroutines run, proplets finish, the job is started. *)
Fairness ==
    /\ \A s \in Starters : WF_vars(StartStep(s))
    /\ \A c \in Threads : WF_vars(ThreadStep(c))
    /\ \A k \in Tasks : WF_vars(\E r \in {"Completed", "Failed"} : PropletReports(k, r))
    /\ \A k \in Tasks : WF_vars(\E r \in {"Completed", "Failed"} : UpdateResultsHandler(k, r))
    /\ WF_vars(starts = 0 /\ \E c \in Callers, mode \in Modes : StartJob(c, mode))

FairSpec == Spec /\ Fairness

-----------------------------------------------------------------------------
(* A job keeps the promise of Precedence in every mode: its tasks are        *)
(* ordered once, after their dependencies, although the goroutines of a      *)
(* parallel start, the handler and a failed start's clean-up run side by     *)
(* side.                                                                     *)
P == INSTANCE Precedence

RefinesPrecedence == P!Spec

(* Once the handler of a failure is done, every task a proplet still works   *)
(* on was told to stop, or was being started when the failure was listed     *)
(* (its StartTask, or the StartJob that had it on its list).  The failure is *)
(* lost on the job when markTaskRunning overwrites it.                       *)
FailFast ==
    failedAt # {0} /\ overtaken = {} /\ thread[MQTT].pc = "idle" => working \subseteq told \cup failedAt

(* A job that is started once and not stopped ends: ComputeJobState becomes  *)
(* Completed or Failed for good, unless a result was overtaken by            *)
(* markTaskRunning.                                                          *)
JobEnds ==
    <>[](ComputeJobState(state) \in {"Completed", "Failed"} \/ overtaken # {} \/ stops > 0)
=============================================================================
