------------------------------ MODULE Workflow ------------------------------
(***************************************************************************)
(* The workflow coordinator (manager/workflow.go) and the StartTask it     *)
(* drives and is driven by: StartTask of a task with unmet dependencies    *)
(* calls CheckAndStartReadyTasks, which calls StartTask of whatever is     *)
(* ready.  A thread therefore has a stack of calls.  Every repository call *)
(* and every publish is a step; results are handled one at a time by the   *)
(* MQTT thread, StartTask also comes from HTTP and cron threads.           *)
(*                                                                         *)
(* A task is reduced to its State.  Proplet selection, the task count and  *)
(* the commands themselves are the business of Dispatch.                   *)
(***************************************************************************)
EXTENDS Naturals, Sequences, FiniteSets

CONSTANTS
    Tasks,         \* a totally ordered set of task ids: 1..n
    DependsOn,     \* task -> sequence of task ids
    RunIf,         \* task -> "success" or "failure"
    Callers,       \* HTTP and cron threads
    MQTT,          \* the thread of the subscription handlers
    ClientTasks,   \* tasks on which the callers call StartTask
    Vetoes,        \* TRUE: a start may find no proplet, or a plugin may deny it
    Losses,        \* TRUE: the publish of a start command may fail
    MayShutDown,   \* TRUE: the manager may be told to stop
    ExclusivePins, \* FALSE on badger, whose Create overwrites
    MaxCalls       \* bound: StartTask calls of the callers per task

Threads == Callers \cup {MQTT}

ASSUME WorkflowAssumption ==
    /\ IsFiniteSet(Tasks) /\ Cardinality(Tasks) \in Nat
    /\ Tasks \subseteq Nat
    /\ ClientTasks \subseteq Tasks
    /\ DependsOn \in [Tasks -> Seq(Tasks)]
    /\ MaxCalls \in Nat

Range1(s) == {s[i] : i \in 1..Len(s)}

VARIABLES
    state,     \* taskRepo: task -> State
    pinned,    \* taskPropletRepo: the tasks that have a pin
    stack,     \* thread -> its calls, innermost first
    shuttingDown,
    calls,     \* StartTask calls made by the callers per task
    working,   \* tasks some proplet works on
    results,   \* published results not handled yet: <<task, state>>
    orders,    \* history: start commands published per task
    settled,   \* history: tasks that completed, failed or were skipped
    stranding, \* history: tasks that settled without the coordinator being told
    undone     \* history: tasks whose stored outcome was overwritten

vars == <<state, pinned, stack, shuttingDown, calls, working, results, orders, settled, stranding, undone>>

IsTerminal(s) == s \in {"Completed", "Failed", "Skipped", "Interrupted"}

(* A call of StartTask: the task, the copy of its state, the dependency to   *)
(* be looked at next; a call of CheckAndStartReadyTasks: the ready tasks of  *)
(* its listing that are still to be started or skipped.                      *)
StartFrame(k) == [fn |-> "StartTask", pc |-> "get", k |-> k, copy |-> "Pending", i |-> 1, todo |-> <<>>]

CheckFrame == [fn |-> "Check", pc |-> "list", k |-> 0, copy |-> "Pending", i |-> 1, todo |-> <<>>]

Top(c) == Head(stack[c])

At(c, fn, pc) == stack[c] # <<>> /\ Top(c).fn = fn /\ Top(c).pc = pc

SetTop(c, f) == stack' = [stack EXCEPT ![c] = <<f>> \o Tail(@)]

Goto(c, pc) == SetTop(c, [Top(c) EXCEPT !.pc = pc])

Push(c, f) == stack' = [stack EXCEPT ![c] = <<f>> \o @]

(* Replaces the innermost call, which goes on with g, by a call f of it. *)
CallFrom(c, g, f) == stack' = [stack EXCEPT ![c] = <<f>> \o (<<g>> \o Tail(@))]

Return(c) == stack' = [stack EXCEPT ![c] = Tail(@)]

(* taskRepo.Update of a task that nobody deletes. *)
Write(k, s) ==
    /\ state' = [state EXCEPT ![k] = s]
    /\ undone' = IF IsTerminal(state[k]) /\ state[k] # s THEN undone \cup {k} ELSE undone

-----------------------------------------------------------------------------
(* EvaluateConditionalExecution over the parents' states of a listing. *)
EvaluateConditionalExecution(k, st) ==
    LET deps == Range1(DependsOn[k]) IN
    \/ deps = {}
    \/ RunIf[k] = "success" /\ \A d \in deps : st[d] = "Completed"
    \/ RunIf[k] = "failure" /\ \E d \in deps : st[d] = "Failed"

(* dag.GetReadyTasks without the tasks CheckAndStartReadyTasks passes over. *)
Ready(st) ==
    {k \in Tasks : st[k] = "Pending" /\ \A d \in Range1(DependsOn[k]) : IsTerminal(st[d])}

(* In the order of the listing: a set with one sequence in it. *)
GetReadyTasks(st) ==
    {s \in UNION {[1..n -> Ready(st)] : n \in 0..Cardinality(Tasks)} :
        Range1(s) = Ready(st) /\ \A i, j \in DOMAIN s : i < j => s[i] < s[j]}

-----------------------------------------------------------------------------
Init ==
    /\ state = [k \in Tasks |-> "Pending"]
    /\ pinned = {}
    /\ stack = [c \in Threads |-> <<>>]
    /\ shuttingDown = FALSE
    /\ calls = [k \in ClientTasks |-> 0]
    /\ working = {}
    /\ results = {}
    /\ orders = [k \in Tasks |-> 0]
    /\ settled = {}
    /\ stranding = {}
    /\ undone = {}

(* StartTask as called by a client or by the cron scheduler. *)
StartTask(c, k) ==
    /\ stack[c] = <<>>
    /\ calls[k] < MaxCalls
    /\ calls' = [calls EXCEPT ![k] = @ + 1]
    /\ Push(c, StartFrame(k))
    /\ UNCHANGED <<state, pinned, shuttingDown, working, results, orders, settled, stranding, undone>>

(* The shuttingDown check and GetTask. *)
StartGet(c) ==
    /\ At(c, "StartTask", "get")
    /\ IF shuttingDown
       THEN Return(c)
       ELSE SetTop(c, [Top(c) EXCEPT !.copy = state[Top(c).k],
                                     !.pc = IF DependsOn[Top(c).k] = <<>> THEN "pin" ELSE "deps"])
    /\ UNCHANGED <<state, pinned, shuttingDown, calls, working, results, orders, settled, stranding, undone>>

(* Mutant: the dependencies of a task that is started by hand are not looked at. *)
MutStartDep(c) ==
    /\ At(c, "StartTask", "deps")
    /\ Goto(c, "pin")
    /\ UNCHANGED <<state, pinned, shuttingDown, calls, working, results, orders, settled, stranding, undone>>

(* Mutant: a failed dependency is not done, although run_if may wait for it. *)
MutStartDepFailed(c) ==
    /\ At(c, "StartTask", "deps")
    /\ LET f == Top(c) IN
       IF state[DependsOn[f.k][f.i]] \in {"Completed", "Skipped"}
       THEN SetTop(c, [f EXCEPT !.i = @ + 1, !.pc = IF f.i = Len(DependsOn[f.k]) THEN "pin" ELSE "deps"])
       ELSE CallFrom(c, [f EXCEPT !.pc = "unmet"], CheckFrame)
    /\ UNCHANGED <<state, pinned, shuttingDown, calls, working, results, orders, settled, stranding, undone>>

(* checkTaskDependencies reads one dependency after the other; the first     *)
(* that is not done makes it run the coordinator and give up.                *)
StartDep(c) ==
    /\ At(c, "StartTask", "deps")
    /\ LET f == Top(c) IN
       IF state[DependsOn[f.k][f.i]] \in {"Completed", "Failed", "Skipped"}
       THEN SetTop(c, [f EXCEPT !.i = @ + 1, !.pc = IF f.i = Len(DependsOn[f.k]) THEN "pin" ELSE "deps"])
       ELSE CallFrom(c, [f EXCEPT !.pc = "unmet"], CheckFrame)
    /\ UNCHANGED <<state, pinned, shuttingDown, calls, working, results, orders, settled, stranding, undone>>

(* checkTaskDependencies returns its error. *)
StartUnmet(c) ==
    /\ At(c, "StartTask", "unmet")
    /\ Return(c)
    /\ UNCHANGED <<state, pinned, shuttingDown, calls, working, results, orders, settled, stranding, undone>>

(* pinTaskToProplet: a task is pinned once and for all. *)
StartPin(c) ==
    /\ At(c, "StartTask", "pin")
    /\ IF Top(c).k \in pinned /\ ExclusivePins
       THEN Return(c) /\ UNCHANGED pinned
       ELSE /\ pinned' = pinned \cup {Top(c).k}
            /\ Goto(c, "persist")
    /\ UNCHANGED <<state, shuttingDown, calls, working, results, orders, settled, stranding, undone>>

(* No proplet alive, or a plugin denies the start. *)
StartVetoed(c) ==
    /\ Vetoes
    /\ At(c, "StartTask", "pin")
    /\ Return(c)
    /\ UNCHANGED <<state, pinned, shuttingDown, calls, working, results, orders, settled, stranding, undone>>

(* persistTaskBeforeStart writes the copy back. *)
StartPersist(c) ==
    /\ At(c, "StartTask", "persist")
    /\ Write(Top(c).k, Top(c).copy)
    /\ Goto(c, "publish")
    /\ UNCHANGED <<pinned, shuttingDown, calls, working, results, orders, settled, stranding>>

(* publishStart; its error unpins the task and marks it Failed, and nobody   *)
(* tells the coordinator.                                                    *)
StartPublish(c) ==
    /\ At(c, "StartTask", "publish")
    /\ orders' = [orders EXCEPT ![Top(c).k] = @ + 1]
    /\ working' = working \cup {Top(c).k}
    /\ Goto(c, "mark")
    /\ UNCHANGED <<state, pinned, shuttingDown, calls, results, settled, stranding, undone>>

StartLost(c) ==
    /\ Losses
    /\ At(c, "StartTask", "publish")
    /\ pinned' = pinned \ {Top(c).k}
    /\ Goto(c, "fail")
    /\ UNCHANGED <<state, shuttingDown, calls, working, results, orders, settled, stranding, undone>>

StartFail(c) ==
    /\ At(c, "StartTask", "fail")
    /\ Write(Top(c).k, "Failed")
    /\ settled' = settled \cup {Top(c).k}
    /\ stranding' = stranding \cup {Top(c).k}
    /\ Return(c)
    /\ UNCHANGED <<pinned, shuttingDown, calls, working, results, orders>>

(* markTaskRunning writes the copy with State Running, over a result that    *)
(* was handled since the publish.                                            *)
StartMark(c) ==
    /\ At(c, "StartTask", "mark")
    /\ Write(Top(c).k, "Running")
    /\ stranding' = stranding \cup ({Top(c).k} \cap settled)
    /\ Return(c)
    /\ UNCHANGED <<pinned, shuttingDown, calls, working, results, orders, settled>>

-----------------------------------------------------------------------------
(* CheckAndStartReadyTasks: one listing, then one ready task after the other. *)
CheckList(c) ==
    /\ At(c, "Check", "list")
    /\ \E ready \in GetReadyTasks(state) :
         SetTop(c, [Top(c) EXCEPT
                      !.pc = "next",
                      !.todo = [i \in 1..Len(ready) |->
                                  <<ready[i], EvaluateConditionalExecution(ready[i], state)>>]])
    /\ UNCHANGED <<state, pinned, shuttingDown, calls, working, results, orders, settled, stranding, undone>>

(* A task that should not run is written back as Skipped; nothing looks at   *)
(* the tasks that depend on it.                                              *)
CheckSkip(c) ==
    /\ At(c, "Check", "next")
    /\ Top(c).todo # <<>>
    /\ LET k == Head(Top(c).todo)[1] IN
       /\ ~Head(Top(c).todo)[2]
       /\ Write(k, "Skipped")
       /\ settled' = settled \cup {k}
       /\ stranding' = stranding \cup {k}
    /\ SetTop(c, [Top(c) EXCEPT !.todo = Tail(@)])
    /\ UNCHANGED <<pinned, shuttingDown, calls, working, results, orders>>

(* Mutant: run_if is not looked at before the start. *)
MutCheckStart(c) ==
    /\ At(c, "Check", "next")
    /\ Top(c).todo # <<>>
    /\ CallFrom(c, [Top(c) EXCEPT !.todo = Tail(@)], StartFrame(Head(Top(c).todo)[1]))
    /\ UNCHANGED <<state, pinned, shuttingDown, calls, working, results, orders, settled, stranding, undone>>

CheckStart(c) ==
    /\ At(c, "Check", "next")
    /\ Top(c).todo # <<>>
    /\ Head(Top(c).todo)[2]
    /\ CallFrom(c, [Top(c) EXCEPT !.todo = Tail(@)], StartFrame(Head(Top(c).todo)[1]))
    /\ UNCHANGED <<state, pinned, shuttingDown, calls, working, results, orders, settled, stranding, undone>>

CheckDone(c) ==
    /\ At(c, "Check", "next")
    /\ Top(c).todo = <<>>
    /\ Return(c)
    /\ UNCHANGED <<state, pinned, shuttingDown, calls, working, results, orders, settled, stranding, undone>>

-----------------------------------------------------------------------------
(* The proplet works on the task and publishes its result. *)
PropletReports(k, s) ==
    /\ k \in working
    /\ working' = working \ {k}
    /\ results' = results \cup {<<k, s>>}
    /\ UNCHANGED <<state, pinned, stack, shuttingDown, calls, orders, settled, stranding, undone>>

(* Mutant: a failed task does not wake its workflow. *)
MutUpdateResultsHandler(k, s) ==
    /\ stack[MQTT] = <<>>
    /\ <<k, s>> \in results
    /\ results' = results \ {<<k, s>>}
    /\ Write(k, s)
    /\ settled' = settled \cup {k}
    /\ IF s = "Failed" THEN UNCHANGED stack ELSE Push(MQTT, CheckFrame)
    /\ UNCHANGED <<pinned, shuttingDown, calls, working, orders, stranding>>

(* updateResultsHandler for a task outside jobs: the read and write of the   *)
(* task (only its existence is read), then OnTaskCompletion.                 *)
UpdateResultsHandler(k, s) ==
    /\ stack[MQTT] = <<>>
    /\ <<k, s>> \in results
    /\ results' = results \ {<<k, s>>}
    /\ Write(k, s)
    /\ settled' = settled \cup {k}
    /\ Push(MQTT, CheckFrame)
    /\ UNCHANGED <<pinned, shuttingDown, calls, working, orders, stranding>>

(* Shutdown raises the flag, then interrupts the running tasks one by one;   *)
(* the next process fails them.                                              *)
Shutdown ==
    /\ MayShutDown
    /\ ~shuttingDown
    /\ shuttingDown' = TRUE
    /\ UNCHANGED <<state, pinned, stack, calls, working, results, orders, settled, stranding, undone>>

Interrupt(k) ==
    /\ shuttingDown
    /\ state[k] = "Running"
    /\ Write(k, "Interrupted")
    /\ settled' = settled \cup {k}
    /\ stranding' = stranding \cup {k}
    /\ UNCHANGED <<pinned, stack, shuttingDown, calls, working, results, orders>>

Step(c) ==
    \/ StartGet(c) \/ StartDep(c) \/ StartUnmet(c) \/ StartPin(c) \/ StartVetoed(c)
    \/ StartPersist(c) \/ StartPublish(c) \/ StartLost(c) \/ StartFail(c) \/ StartMark(c)
    \/ CheckList(c) \/ CheckSkip(c) \/ CheckStart(c) \/ CheckDone(c)

Next ==
    \/ \E c \in Callers, k \in ClientTasks : StartTask(c, k)
    \/ \E c \in Threads : Step(c)
    \/ Shutdown
    \/ \E k \in Tasks : Interrupt(k)
    \/ \E k \in Tasks, s \in {"Completed", "Failed"} :
         PropletReports(k, s) \/ UpdateResultsHandler(k, s)

Spec == Init /\ [][Next]_vars

(* Threads keep running, proplets finish, the client starts every root. *)
Fairness ==
    /\ \A c \in Threads : WF_vars(Step(c))
    /\ \A k \in Tasks : WF_vars(\E s \in {"Completed", "Failed"} : PropletReports(k, s))
    /\ \A k \in Tasks : WF_vars(\E s \in {"Completed", "Failed"} : UpdateResultsHandler(k, s))
    /\ \A k \in ClientTasks : WF_vars(orders[k] = 0 /\ \E c \in Callers : StartTask(c, k))

FairSpec == Spec /\ Fairness

-----------------------------------------------------------------------------
(* The manager keeps the promise of Precedence: however StartTask calls of   *)
(* clients and coordinator runs of several threads interleave, a task is     *)
(* ordered at most once (the pin) and only after what it depends on settled. *)
P == INSTANCE Precedence

RefinesPrecedence == P!Spec

(* checkTaskDependencies and CheckAndStartReadyTasks call each other and do  *)
(* not agree on an Interrupted dependency (done for one, unmet for the       *)
(* other); still a thread nests StartTask at most twice, and once more for   *)
(* each ordered task that was interrupted or whose result was overwritten by *)
(* markTaskRunning (a dependency that looked done in the listing).           *)
BoundedRecursion ==
    \A c \in Threads :
        Cardinality({i \in DOMAIN stack[c] : stack[c][i].fn = "StartTask"})
            <= 2 + Cardinality({k \in stranding : orders[k] > 0})

(* A task the coordinator skipped was not ordered: coordinator runs of two   *)
(* threads that list the workflow at different times agree on run_if, unless *)
(* the outcome of a dependency was overwritten between the listings (by      *)
(* markTaskRunning or the write back of a stale copy) or somebody asked for  *)
(* the task by hand (StartTask itself does not look at run_if).              *)
SkippedNotOrdered ==
    \A k \in Tasks :
        /\ state[k] = "Skipped"
        /\ k \in ClientTasks => calls[k] = 0
        /\ Range1(DependsOn[k]) \cap undone = {}
        => orders[k] = 0

Behind[k \in Tasks] == \E d \in Range1(DependsOn[k]) : d \in stranding \/ Behind[d]

(* Once every root has been started, each task of the workflow settles or    *)
(* waits behind a task that settled without waking the coordinator: skipped, *)
(* refused by the broker, or reported before markTaskRunning.                *)
SettlesOrStranded ==
    \A k \in Tasks : <>[](k \in settled \/ Behind[k])
=============================================================================
