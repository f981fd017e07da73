------------------------------ MODULE Dispatch ------------------------------
(***************************************************************************)
(* Task dispatch and its bookkeeping in the manager (manager/service.go):  *)
(* CreateTask, StartTask, StopTask, UpdateTask, DeleteTask, DeleteProplet  *)
(* as called by HTTP handlers, the cron scheduler and job goroutines, and  *)
(* the MQTT handlers for discovery, liveness and results.                  *)
(*                                                                         *)
(* Each call runs in a thread of its own and touches the repositories one  *)
(* call at a time, so a call is a sequence of actions with a private copy  *)
(* of the records it read; the copy is stale as soon as another thread     *)
(* writes.  The MQTT client runs its handlers one after the other: they    *)
(* share the single thread MQTT.                                           *)
(*                                                                         *)
(* Tasks here have no DependsOn, WorkflowID or JobID (dependencies are the *)
(* business of the workflow coordinator) and the plugin registry may veto  *)
(* a start.  shuttingDown is raised by Shutdown, outside this module.      *)
(***************************************************************************)
EXTENDS Repositories, FiniteSets

CONSTANTS
    Callers,         \* goroutines that serve API, cron and job calls
    MQTT,            \* the goroutine that runs the subscription handlers
    BroadcastTasks,  \* tasks with broadcast = true
    Ops,             \* the operations the callers issue
    NewStates,       \* states a create request may carry (Pending if it names none)
    StartOutcomes,   \* what a publish of a start command can do, see Outcomes
    StopOutcomes,    \* the same for stop commands
    Reports,         \* states a proplet's result can put a task in
    Serial,          \* TRUE: one call or message at a time
    MaxCalls         \* bound: calls issued in a behaviour

Threads == Callers \cup {MQTT}

AllOps == {"CreateTask", "StartTask", "StopTask", "UpdateTask", "DeleteTask", "DeleteProplet"}

(* pubsub.Publish: "ok" delivered, no error; "lost" an error and no         *)
(* delivery; "late" the timeout error although the broker still delivers;   *)
(* "gone" no error, although the token later failed.                        *)
Outcomes == {"ok", "lost", "late", "gone"}

IsErr(o) == o \in {"lost", "late"}

Delivers(o) == o \in {"ok", "late"}

ASSUME DispatchAssumption ==
    /\ MQTT \notin Callers
    /\ BroadcastTasks \subseteq Tasks
    /\ Ops \subseteq AllOps
    /\ NewStates \subseteq States
    /\ StartOutcomes \subseteq Outcomes
    /\ StopOutcomes \subseteq Outcomes
    /\ Reports \subseteq {"Completed", "Failed"}
    /\ Serial \in BOOLEAN
    /\ MaxCalls \in Nat

VARIABLES
    tasks,         \* taskRepo
    proplets,      \* propletRepo
    pins,          \* taskPropletRepo: task -> proplet
    issued,        \* task ids handed out by uuid.NewString
    shuttingDown,
    call,          \* per thread: program counter, arguments and private copies
    calls,         \* number of calls issued so far
    told,          \* task -> proplets whose last command about it was a start
    working,       \* task -> proplets that received a start and have not reported
    results,       \* results published by proplets, not yet handled
    overlapped     \* history: tasks stopped while another start or stop of them ran

vars == <<tasks, proplets, pins, issued, shuttingDown, call, calls, told, working, results,
          overlapped>>

Pcs ==
    {"idle",
     "start", "bpersist", "bpublish", "bmark",
     "select", "pin", "persist", "publish", "bump", "mark",
     "unpin1", "unpin2", "unpin3", "unbump", "countermand", "fail",
     "stop_pin", "stop_proplet", "stop_publish", "stop_unpin", "stop_bump", "stop_all",
     "update", "cron_get", "cron_put", "unschedule", "delete", "delete_proplet",
     "alive", "lookup", "refresh", "create", "result"}

Call ==
    [pc : Pcs, task : Tasks \cup {None}, t : TaskRec \cup {None},
     prop : Proplets \cup {None}, p : PropletRec \cup {None}]

IdleCall == [pc |-> "idle", task |-> None, t |-> None, prop |-> None, p |-> None]

Goto(c, l) == call' = [call EXCEPT ![c] = [@ EXCEPT !.pc = l]]

Return(c) == call' = [call EXCEPT ![c] = IdleCall]

AllIdle == \A c \in Threads : call[c].pc = "idle"

(* A thread takes a new call or message. *)
Free(c) == call[c].pc = "idle" /\ (Serial => AllIdle)

Enter(c, l, k, t, prop, p) ==
    call' = [call EXCEPT ![c] = [pc |-> l, task |-> k, t |-> t, prop |-> prop, p |-> p]]

Begin(c, op) ==
    /\ op \in Ops
    /\ c \in Callers
    /\ Free(c)
    /\ calls < MaxCalls
    /\ calls' = calls + 1

StopPcs ==
    {"stop_pin", "stop_proplet", "stop_publish", "stop_unpin", "stop_bump", "stop_all"}

StartPcs ==
    {"start", "bpersist", "bpublish", "bmark", "select", "pin", "persist", "publish",
     "bump", "mark", "unpin1", "unpin2", "unpin3", "unbump", "countermand", "fail"}

Starting(k) == \E c \in Callers : call[c].task = k /\ call[c].pc \in StartPcs

Stopping(k) == \E c \in Callers : call[c].task = k /\ call[c].pc \in StopPcs

(* publishStart and publishStop to the proplets ps, with outcome o. *)
SendStart(k, ps, o) ==
    IF Delivers(o)
    THEN /\ told' = [told EXCEPT ![k] = @ \cup ps]
         /\ working' = [working EXCEPT ![k] = @ \cup ps]
    ELSE UNCHANGED <<told, working>>

SendStop(k, ps, o) ==
    told' = IF Delivers(o) THEN [told EXCEPT ![k] = @ \ ps] ELSE told

-----------------------------------------------------------------------------
Init ==
    /\ tasks = [k \in Tasks |-> None]
    /\ proplets = [p \in Proplets |-> None]
    /\ pins = [k \in Tasks |-> None]
    /\ issued = {}
    /\ shuttingDown = FALSE
    /\ call = [c \in Threads |-> IdleCall]
    /\ calls = 0
    /\ told = [k \in Tasks |-> {}]
    /\ working = [k \in Tasks |-> {}]
    /\ results = {}
    /\ overlapped = {}

-----------------------------------------------------------------------------
(* CreateTask: a fresh id, the state of the request, with or without a       *)
(* proplet_id, which must not be set on a broadcast task.  A schedule is     *)
(* followed by ScheduleTask.                                                 *)
CreateTask(c, k, p, s) ==
    /\ Begin(c, "CreateTask")
    /\ k \notin issued
    /\ k \in BroadcastTasks => p = None
    /\ issued' = issued \cup {k}
    /\ tasks' = [tasks EXCEPT ![k] = [state |-> s, proplet |-> p]]
    /\ UNCHANGED call \/ Enter(c, "cron_get", k, None, None, None)
    /\ UNCHANGED <<proplets, pins, shuttingDown, told, working, results, overlapped>>

-----------------------------------------------------------------------------
(* StartTask *)

(* The shuttingDown check. *)
StartTask(c, k) ==
    /\ Begin(c, "StartTask")
    /\ ~shuttingDown
    /\ Enter(c, "start", k, None, None, None)
    /\ overlapped' = IF Stopping(k) THEN overlapped \cup {k} ELSE overlapped
    /\ UNCHANGED <<tasks, proplets, pins, issued, shuttingDown, told, working, results>>

(* GetTask; an unknown task ends the call. *)
StartGet(c) ==
    /\ call[c].pc = "start"
    /\ LET k == call[c].task IN
       IF tasks[k] = None
       THEN Return(c)
       ELSE Enter(c, IF k \in BroadcastTasks THEN "bpersist" ELSE "select",
                  k, tasks[k], None, None)
    /\ UNCHANGED <<tasks, proplets, pins, issued, shuttingDown, calls, told, working, results, overlapped>>

(* Broadcast: persistTaskBeforeStart, publishStart to everyone, markTaskRunning. *)
BroadcastPersist(c) ==
    /\ call[c].pc = "bpersist"
    /\ LET k == call[c].task IN
       /\ tasks' = TaskUpdated(tasks, k, call[c].t)
       /\ IF TaskUpdateErr(tasks, k) THEN Return(c) ELSE Goto(c, "bpublish")
    /\ UNCHANGED <<proplets, pins, issued, shuttingDown, calls, told, working, results, overlapped>>

BroadcastPublish(c) ==
    /\ call[c].pc = "bpublish"
    /\ \E o \in StartOutcomes :
         /\ SendStart(call[c].task, Proplets, o)
         /\ IF IsErr(o) THEN Return(c) ELSE Goto(c, "bmark")
    /\ UNCHANGED <<tasks, proplets, pins, issued, shuttingDown, calls, results, overlapped>>

BroadcastMark(c) ==
    /\ call[c].pc = "bmark"
    /\ tasks' = TaskUpdated(tasks, call[c].task, [call[c].t EXCEPT !.state = "Running"])
    /\ Return(c)
    /\ UNCHANGED <<proplets, pins, issued, shuttingDown, calls, told, working, results, overlapped>>

(* selectPropletWithConstraints over the proplets alive now, or GetProplet   *)
(* of the one the task names, which must be alive.  A plugin may veto the    *)
(* selection or the dispatch, and its constraints may exclude any proplet.   *)
Alive(p) == proplets[p] # None /\ proplets[p].fresh

StartSelect(c) ==
    /\ call[c].pc = "select"
    /\ \/ \E p \in Proplets :
            /\ Alive(p)
            /\ call[c].t.proplet \in {None, p}
            /\ Enter(c, "pin", call[c].task, call[c].t, p, proplets[p])
       \/ Return(c)
    /\ UNCHANGED <<tasks, proplets, pins, issued, shuttingDown, calls, told, working, results, overlapped>>

(* Mutant: the pin is written without looking for an earlier one. *)
MutStartPin(c) ==
    /\ call[c].pc = "pin"
    /\ pins' = [pins EXCEPT ![call[c].task] = call[c].prop]
    /\ Enter(c, "persist", call[c].task, [call[c].t EXCEPT !.proplet = call[c].prop],
             call[c].prop, call[c].p)
    /\ UNCHANGED <<tasks, proplets, issued, shuttingDown, calls, told, working, results, overlapped>>

(* pinTaskToProplet: the pin of an already pinned task fails. *)
StartPin(c) ==
    /\ call[c].pc = "pin"
    /\ LET k == call[c].task
           p == call[c].prop IN
       IF PinCreateErr(tasks, proplets, pins, k, p)
       THEN Return(c) /\ UNCHANGED pins
       ELSE /\ pins' = [pins EXCEPT ![k] = p]
            /\ Enter(c, "persist", k, [call[c].t EXCEPT !.proplet = p], p, call[c].p)
    /\ UNCHANGED <<tasks, proplets, issued, shuttingDown, calls, told, working, results, overlapped>>

(* persistTaskBeforeStart writes the whole copy; its error leaves the pin. *)
StartPersist(c) ==
    /\ call[c].pc = "persist"
    /\ LET k == call[c].task IN
       /\ tasks' = TaskUpdated(tasks, k, call[c].t)
       /\ IF TaskUpdateErr(tasks, k) THEN Return(c) ELSE Goto(c, "publish")
    /\ UNCHANGED <<proplets, pins, issued, shuttingDown, calls, told, working, results, overlapped>>

StartPublish(c) ==
    /\ call[c].pc = "publish"
    /\ \E o \in StartOutcomes :
         /\ SendStart(call[c].task, {call[c].prop}, o)
         /\ Goto(c, IF IsErr(o) THEN "unpin1" ELSE "bump")
    /\ UNCHANGED <<tasks, proplets, pins, issued, shuttingDown, calls, results, overlapped>>

(* bumpPropletTaskCount writes back the whole copy with another TaskCount. *)
Incremented(rec) == [rec EXCEPT !.count = rec.count + 1]

(* Mutant: the count is not clamped at zero. *)
MutDecremented(rec) == [rec EXCEPT !.count = rec.count - 1]

Decremented(rec) == [rec EXCEPT !.count = IF rec.count = 0 THEN 0 ELSE rec.count - 1]

StartBump(c) ==
    /\ call[c].pc = "bump"
    /\ LET p == call[c].prop IN
       /\ proplets' = PropletUpdated(proplets, p, Incremented(call[c].p))
       /\ Goto(c, IF PropletUpdateErr(proplets, p) THEN "unpin2" ELSE "mark")
    /\ UNCHANGED <<tasks, pins, issued, shuttingDown, calls, told, working, results, overlapped>>

(* markTaskRunning writes the copy read at the start of the call. *)
StartMark(c) ==
    /\ call[c].pc = "mark"
    /\ LET k == call[c].task IN
       /\ tasks' = TaskUpdated(tasks, k, [call[c].t EXCEPT !.state = "Running"])
       /\ IF TaskUpdateErr(tasks, k) THEN Goto(c, "unpin3") ELSE Return(c)
    /\ UNCHANGED <<proplets, pins, issued, shuttingDown, calls, told, working, results, overlapped>>

(* Mutant: a failed publish leaves the task pinned. *)
MutStartUnpin(c) ==
    /\ call[c].pc \in {"unpin1", "unpin2", "unpin3"}
    /\ pins' = IF call[c].pc = "unpin1" THEN pins ELSE [pins EXCEPT ![call[c].task] = None]
    /\ Goto(c, CASE call[c].pc = "unpin1" -> "fail"
                 [] call[c].pc = "unpin2" -> "countermand"
                 [] call[c].pc = "unpin3" -> "unbump")
    /\ UNCHANGED <<tasks, proplets, issued, shuttingDown, calls, told, working, results, overlapped>>

(* The error paths.  A failed publish unpins and marks the task Failed; a    *)
(* failed bump also countermands the start; a failed mark also writes back   *)
(* the TaskCount of the copy, less one.                                      *)
StartUnpin(c) ==
    /\ call[c].pc \in {"unpin1", "unpin2", "unpin3"}
    /\ pins' = [pins EXCEPT ![call[c].task] = None]
    /\ Goto(c, CASE call[c].pc = "unpin1" -> "fail"
                 [] call[c].pc = "unpin2" -> "countermand"
                 [] call[c].pc = "unpin3" -> "unbump")
    /\ UNCHANGED <<tasks, proplets, issued, shuttingDown, calls, told, working, results, overlapped>>

StartUnbump(c) ==
    /\ call[c].pc = "unbump"
    /\ proplets' = PropletUpdated(proplets, call[c].prop, Decremented(call[c].p))
    /\ Goto(c, "countermand")
    /\ UNCHANGED <<tasks, pins, issued, shuttingDown, calls, told, working, results, overlapped>>

StartCountermand(c) ==
    /\ call[c].pc = "countermand"
    /\ \E o \in StopOutcomes : SendStop(call[c].task, {call[c].prop}, o)
    /\ Goto(c, "fail")
    /\ UNCHANGED <<tasks, proplets, pins, issued, shuttingDown, calls, working, results, overlapped>>

StartFail(c) ==
    /\ call[c].pc = "fail"
    /\ tasks' = TaskUpdated(tasks, call[c].task, [call[c].t EXCEPT !.state = "Failed"])
    /\ Return(c)
    /\ UNCHANGED <<proplets, pins, issued, shuttingDown, calls, told, working, results, overlapped>>

-----------------------------------------------------------------------------
(* StopTask: GetTask, the pin, GetProplet, publish, unpin, bump.  The stored *)
(* state of the task is left alone.                                          *)
StopTask(c, k) ==
    /\ Begin(c, "StopTask")
    /\ tasks[k] # None
    /\ Enter(c, IF k \in BroadcastTasks THEN "stop_all" ELSE "stop_pin", k, None, None, None)
    /\ overlapped' = IF Starting(k) \/ Stopping(k) THEN overlapped \cup {k} ELSE overlapped
    /\ UNCHANGED <<tasks, proplets, pins, issued, shuttingDown, told, working, results>>

StopBroadcast(c) ==
    /\ call[c].pc = "stop_all"
    /\ \E o \in StopOutcomes : SendStop(call[c].task, Proplets, o)
    /\ Return(c)
    /\ UNCHANGED <<tasks, proplets, pins, issued, shuttingDown, calls, working, results, overlapped>>

StopGetPin(c) ==
    /\ call[c].pc = "stop_pin"
    /\ LET k == call[c].task IN
       IF pins[k] = None
       THEN Return(c)
       ELSE Enter(c, "stop_proplet", k, None, pins[k], None)
    /\ UNCHANGED <<tasks, proplets, pins, issued, shuttingDown, calls, told, working, results, overlapped>>

StopGetProplet(c) ==
    /\ call[c].pc = "stop_proplet"
    /\ LET p == call[c].prop IN
       IF proplets[p] = None
       THEN Return(c)
       ELSE Enter(c, "stop_publish", call[c].task, None, p, proplets[p])
    /\ UNCHANGED <<tasks, proplets, pins, issued, shuttingDown, calls, told, working, results, overlapped>>

StopPublish(c) ==
    /\ call[c].pc = "stop_publish"
    /\ \E o \in StopOutcomes :
         /\ SendStop(call[c].task, {call[c].prop}, o)
         /\ IF IsErr(o) THEN Return(c) ELSE Goto(c, "stop_unpin")
    /\ UNCHANGED <<tasks, proplets, pins, issued, shuttingDown, calls, working, results, overlapped>>

StopUnpin(c) ==
    /\ call[c].pc = "stop_unpin"
    /\ pins' = [pins EXCEPT ![call[c].task] = None]
    /\ Goto(c, "stop_bump")
    /\ UNCHANGED <<tasks, proplets, issued, shuttingDown, calls, told, working, results, overlapped>>

(* Mutant: the stop leaves TaskCount as it was. *)
MutStopBump(c) ==
    /\ call[c].pc = "stop_bump"
    /\ proplets' = PropletUpdated(proplets, call[c].prop, call[c].p)
    /\ Return(c)
    /\ UNCHANGED <<tasks, pins, issued, shuttingDown, calls, told, working, results, overlapped>>

StopBump(c) ==
    /\ call[c].pc = "stop_bump"
    /\ proplets' = PropletUpdated(proplets, call[c].prop, Decremented(call[c].p))
    /\ Return(c)
    /\ UNCHANGED <<tasks, pins, issued, shuttingDown, calls, told, working, results, overlapped>>

-----------------------------------------------------------------------------
(* UpdateTask edits other fields of a copy and writes it back; a changed     *)
(* schedule is followed by a second read and write (updateCronTask).         *)
UpdateTask(c, k) ==
    /\ Begin(c, "UpdateTask")
    /\ tasks[k] # None
    /\ Enter(c, "update", k, tasks[k], None, None)
    /\ UNCHANGED <<tasks, proplets, pins, issued, shuttingDown, told, working, results, overlapped>>

UpdateWrite(c) ==
    /\ call[c].pc = "update"
    /\ LET k == call[c].task IN
       /\ tasks' = TaskUpdated(tasks, k, call[c].t)
       /\ \/ Return(c)
          \/ ~TaskUpdateErr(tasks, k) /\ Enter(c, "cron_get", k, None, None, None)
    /\ UNCHANGED <<proplets, pins, issued, shuttingDown, calls, told, working, results, overlapped>>

CronGet(c) ==
    /\ call[c].pc = "cron_get"
    /\ LET k == call[c].task IN
       IF tasks[k] = None THEN Return(c) ELSE Enter(c, "cron_put", k, tasks[k], None, None)
    /\ UNCHANGED <<tasks, proplets, pins, issued, shuttingDown, calls, told, working, results, overlapped>>

CronPut(c) ==
    /\ call[c].pc = "cron_put"
    /\ tasks' = TaskUpdated(tasks, call[c].task, call[c].t)
    /\ Return(c)
    /\ UNCHANGED <<proplets, pins, issued, shuttingDown, calls, told, working, results, overlapped>>

(* DeleteTask: UnscheduleTask (a read and a write back), then Delete. *)
DeleteTask(c, k) ==
    /\ Begin(c, "DeleteTask")
    /\ IF tasks[k] = None
       THEN Enter(c, "delete", k, None, None, None)
       ELSE Enter(c, "unschedule", k, tasks[k], None, None)
    /\ UNCHANGED <<tasks, proplets, pins, issued, shuttingDown, told, working, results, overlapped>>

DeleteUnschedule(c) ==
    /\ call[c].pc = "unschedule"
    /\ tasks' = TaskUpdated(tasks, call[c].task, call[c].t)
    /\ Goto(c, "delete")
    /\ UNCHANGED <<proplets, pins, issued, shuttingDown, calls, told, working, results, overlapped>>

DeleteRemove(c) ==
    /\ call[c].pc = "delete"
    /\ tasks' = [tasks EXCEPT ![call[c].task] = None]
    /\ pins' = PinsAfterTaskDelete(pins, call[c].task)
    /\ Return(c)
    /\ UNCHANGED <<proplets, issued, shuttingDown, calls, told, working, results, overlapped>>

(* DeleteProplet: refused while TaskCount > 0, in a read of its own. *)
DeleteProplet(c, p) ==
    /\ Begin(c, "DeleteProplet")
    /\ proplets[p] # None
    /\ proplets[p].count = 0
    /\ Enter(c, "delete_proplet", None, None, p, None)
    /\ UNCHANGED <<tasks, proplets, pins, issued, shuttingDown, told, working, results, overlapped>>

DeletePropletRemove(c) ==
    /\ call[c].pc = "delete_proplet"
    /\ proplets' = [proplets EXCEPT ![call[c].prop] = None]
    /\ pins' = PinsAfterPropletDelete(pins, call[c].prop)
    /\ Return(c)
    /\ UNCHANGED <<tasks, issued, shuttingDown, calls, told, working, results, overlapped>>

-----------------------------------------------------------------------------
(* The MQTT handlers.  Each message is taken with the handler's first read.  *)

(* updateLivenessHandler: an unknown proplet is created instead. *)
AliveMsg(p) ==
    /\ Free(MQTT)
    /\ IF proplets[p] = None
       THEN Enter(MQTT, "lookup", None, None, p, None)
       ELSE Enter(MQTT, "alive", None, None, p, proplets[p])
    /\ UNCHANGED <<tasks, proplets, pins, issued, shuttingDown, calls, told, working, results, overlapped>>

AliveWrite ==
    /\ call[MQTT].pc = "alive"
    /\ proplets' = PropletUpdated(proplets, call[MQTT].prop, [call[MQTT].p EXCEPT !.fresh = TRUE])
    /\ Return(MQTT)
    /\ UNCHANGED <<tasks, pins, issued, shuttingDown, calls, told, working, results, overlapped>>

(* createPropletHandler: refresh the metadata of a known proplet, or create. *)
DiscoveryMsg(p) ==
    /\ Free(MQTT)
    /\ Enter(MQTT, "lookup", None, None, p, None)
    /\ UNCHANGED <<tasks, proplets, pins, issued, shuttingDown, calls, told, working, results, overlapped>>

CreateLookup ==
    /\ call[MQTT].pc = "lookup"
    /\ LET p == call[MQTT].prop IN
       IF proplets[p] = None
       THEN Enter(MQTT, "create", None, None, p, None)
       ELSE Enter(MQTT, "refresh", None, None, p, proplets[p])
    /\ UNCHANGED <<tasks, proplets, pins, issued, shuttingDown, calls, told, working, results, overlapped>>

CreateWrite ==
    /\ call[MQTT].pc \in {"create", "refresh"}
    /\ LET p == call[MQTT].prop IN
       proplets' = IF call[MQTT].pc = "create"
                   THEN PropletCreated(proplets, p, [count |-> 0, fresh |-> FALSE])
                   ELSE PropletUpdated(proplets, p, call[MQTT].p)
    /\ Return(MQTT)
    /\ UNCHANGED <<tasks, pins, issued, shuttingDown, calls, told, working, results, overlapped>>

(* updateResultsHandler: the state the message asks for, whatever is stored. *)
ResultMsg(r) ==
    /\ Free(MQTT)
    /\ results' = results \ {r}
    /\ IF tasks[r.task] = None
       THEN UNCHANGED call
       ELSE Enter(MQTT, "result", r.task, [tasks[r.task] EXCEPT !.state = r.state], None, None)
    /\ UNCHANGED <<tasks, proplets, pins, issued, shuttingDown, calls, told, working, overlapped>>

ResultWrite ==
    /\ call[MQTT].pc = "result"
    /\ tasks' = TaskUpdated(tasks, call[MQTT].task, call[MQTT].t)
    /\ Return(MQTT)
    /\ UNCHANGED <<proplets, pins, issued, shuttingDown, calls, told, working, results, overlapped>>

-----------------------------------------------------------------------------
(* The proplets and the clock, as the manager sees them. *)

(* A proplet reports the outcome of a task it was started on. *)
PropletReports(k, p, s) ==
    /\ p \in working[k]
    /\ working' = [working EXCEPT ![k] = @ \ {p}]
    /\ results' = results \cup {[task |-> k, state |-> s]}
    /\ UNCHANGED <<tasks, proplets, pins, issued, shuttingDown, call, calls, told, overlapped>>

(* It drops the task without a result: stopped, latent, or crashed. *)
PropletDrops(k, p) ==
    /\ p \in working[k]
    /\ working' = [working EXCEPT ![k] = @ \ {p}]
    /\ UNCHANGED <<tasks, proplets, pins, issued, shuttingDown, call, calls, told, results, overlapped>>

(* AliveTimeout passes after the last heartbeat of p, in every copy of it. *)
Stale(rec) == IF rec = None THEN None ELSE [rec EXCEPT !.fresh = FALSE]

TimePasses(p) ==
    /\ proplets' = [proplets EXCEPT ![p] = Stale(@)]
    /\ call' = [c \in Threads |->
                  IF call[c].prop = p THEN [call[c] EXCEPT !.p = Stale(@)] ELSE call[c]]
    /\ UNCHANGED <<tasks, pins, issued, shuttingDown, calls, told, working, results, overlapped>>

-----------------------------------------------------------------------------
StartStep(c) ==
    \/ StartGet(c) \/ BroadcastPersist(c) \/ BroadcastPublish(c) \/ BroadcastMark(c)
    \/ StartSelect(c) \/ StartPin(c) \/ StartPersist(c) \/ StartPublish(c)
    \/ StartBump(c) \/ StartMark(c)
    \/ StartUnpin(c) \/ StartUnbump(c) \/ StartCountermand(c) \/ StartFail(c)

StopStep(c) ==
    \/ StopBroadcast(c) \/ StopGetPin(c) \/ StopGetProplet(c)
    \/ StopPublish(c) \/ StopUnpin(c) \/ StopBump(c)

EditStep(c) ==
    \/ UpdateWrite(c) \/ CronGet(c) \/ CronPut(c)
    \/ DeleteUnschedule(c) \/ DeleteRemove(c) \/ DeletePropletRemove(c)

CallStep(c) == StartStep(c) \/ StopStep(c) \/ EditStep(c)

HandlerStep == AliveWrite \/ CreateLookup \/ CreateWrite \/ ResultWrite

NewCall(c) ==
    \/ \E k \in Tasks, p \in Proplets \cup {None}, s \in NewStates : CreateTask(c, k, p, s)
    \/ \E k \in Tasks : StartTask(c, k) \/ StopTask(c, k) \/ UpdateTask(c, k) \/ DeleteTask(c, k)
    \/ \E p \in Proplets : DeleteProplet(c, p)

NewMsg ==
    \/ \E p \in Proplets : AliveMsg(p) \/ DiscoveryMsg(p)
    \/ \E r \in results : ResultMsg(r)

Environment ==
    \/ \E k \in Tasks, p \in Proplets :
         (\E s \in Reports : PropletReports(k, p, s)) \/ PropletDrops(k, p)
    \/ \E p \in Proplets : TimePasses(p)

Next ==
    \/ \E c \in Callers : NewCall(c) \/ CallStep(c)
    \/ NewMsg \/ HandlerStep
    \/ Environment

Spec == Init /\ [][Next]_vars

-----------------------------------------------------------------------------
(* Every variable keeps its type: in particular a private copy is a whole    *)
(* record whenever the call's next step writes it back, and TaskCount, an    *)
(* unsigned integer in the code, never goes below zero (bumpPropletTaskCount)*)
TypeOK ==
    /\ tasks \in [Tasks -> TaskRec \cup {None}]
    /\ proplets \in [Proplets -> PropletRec \cup {None}]
    /\ pins \in [Tasks -> Proplets \cup {None}]
    /\ issued \in SUBSET Tasks
    /\ shuttingDown \in BOOLEAN
    /\ call \in [Threads -> Call]
    /\ calls \in 0..MaxCalls
    /\ told \in [Tasks -> SUBSET Proplets]
    /\ working \in [Tasks -> SUBSET Proplets]
    /\ results \in SUBSET [task : Tasks, state : Reports]
    /\ overlapped \in SUBSET Tasks

(* The proplets that a failed StartTask of k is about to send a stop. *)
RecallPcs == {"unpin2", "unpin3", "unbump", "countermand"}

Recalling(k) ==
    {call[c].prop : c \in {d \in Callers : call[d].task = k /\ call[d].pc \in RecallPcs}}

(* Tasks that run on one proplet and whose stops never met another start or  *)
(* stop of the same task.                                                    *)
Orderly == Tasks \ (BroadcastTasks \cup overlapped)

(* A task is ordered on one proplet only: apart from starts that are being   *)
(* taken back, only the pinned proplet has been told to start it, however    *)
(* the StartTask calls, deletions and stale copies interleave (the pin of    *)
(* pinTaskToProplet is the lock of StartTask).                               *)
OneOrder == \A k \in Orderly : told[k] \ Recalling(k) \subseteq {pins[k]}

(* The pin tells the truth between calls: when no start or stop of a task is *)
(* under way, it is pinned to a proplet exactly if the last command that     *)
(* proplet got about it was a start.  StopTask, which aims at the pin,       *)
(* therefore reaches the proplet that runs the task.                         *)
PinMatchesOrder ==
    \A k \in Orderly :
        ~Starting(k) /\ ~Stopping(k) => told[k] = {pins[k]} \ {None}

(* TaskCount counts the pinned tasks between calls, as DeleteProplet and the *)
(* schedulers take it to, when calls and messages do not overlap.            *)
TaskCountExact ==
    AllIdle => \A p \in Proplets :
                 Cardinality({k \in Tasks : pins[k] = p}) =
                     IF proplets[p] = None THEN 0 ELSE proplets[p].count
=============================================================================
