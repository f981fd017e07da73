-------------------------------- MODULE Cron --------------------------------
(***************************************************************************)
(* The cron scheduler (manager/cron.go, pkg/cron/parser.go) and the parts   *)
(* of the service that write the same task records: CreateTask, UpdateTask, *)
(* DeleteTask, the result handler and the restart.  All of them read a     *)
(* whole record, change some fields and write the whole record back with    *)
(* no lock in between.  StartTask is one step here (Dispatch has its        *)
(* steps).  Time is a counter; a cron expression names the multiples of     *)
(* Period.                                                                  *)
(***************************************************************************)
EXTENDS Integers, Sequences, FiniteSets, SequencesExt

CONSTANTS
    Tasks,          \* tasks, numbered in the order of their creation
    Priority,       \* Tasks -> 0..100, 0 standing for the default
    Recurring,      \* tasks with IsRecurring
    ViaBatch,       \* tasks that enter through CreateWorkflow or CreateJob
    Period,         \* distance between the times a schedule names
    ExclusivePins,  \* taskPropletRepo.Create refuses a pin that exists
    StartMayFail,   \* StartTask may fail for lack of a proplet
    MaxTime,        \* bound: time
    MaxUpdates,     \* bound: UpdateTask and DeleteTask calls
    MaxCrashes      \* bound: restarts of the manager

VARIABLES
    now,
    db,        \* task -> record, or Absent
    pins,      \* tasks with an entry in taskPropletRepo
    working,   \* tasks a proplet is running
    cron,      \* the scheduler's goroutine
    api,       \* an API call
    handler,   \* the result handler
    updates, crashes,
    lastSlot,  \* ghost: the NextRun of the task's last run by cron, 0 before it
    doubled,   \* ghost: tasks cron ran twice for one NextRun
    excused    \* ghost: tasks whose NextRun was put back, or whose run crashed half way
vars == <<now, db, pins, working, cron, api, handler, updates, crashes, lastSlot, doubled, excused>>

Absent == [state |-> "Absent", sched |-> FALSE, next |-> 0, recurring |-> FALSE]
NoThread == [pc |-> "idle", op |-> "", task |-> 0, copy |-> Absent, todo |-> <<>>]

(* CalculateNextRun: the first time the expression names after from. *)
CalculateNextRun(from) == ((from \div Period) + 1) * Period

EffectivePriority(t) == IF Priority[t] = 0 THEN 50 ELSE Priority[t]

(* GetReadyTasksByPriority: higher priority first, then the older task. *)
GetReadyTasksByPriority(S) ==
    SetToSortSeq(S, LAMBDA a, b :
        \/ EffectivePriority(a) > EffectivePriority(b)
        \/ EffectivePriority(a) = EffectivePriority(b) /\ a < b)

Due(t) == db[t].sched /\ db[t].next # 0 /\ db[t].next <= now

(* taskRepo.Update: an absent task is an error and nothing is written.  The  *)
(* ghost notes a write that puts back an older NextRun.                      *)
Update(t, r) ==
    /\ db' = IF db[t] = Absent THEN db ELSE [db EXCEPT ![t] = r]
    /\ excused' = IF db[t] # Absent /\ r.sched /\ r.next <= lastSlot[t] THEN excused \cup {t} ELSE excused

(* updateNextRun; an empty expression does not parse and nothing is written. *)
UpdateNextRun(t, r) ==
    IF r.sched THEN Update(t, [r EXCEPT !.next = CalculateNextRun(now)])
    ELSE UNCHANGED <<db, excused>>

-----------------------------------------------------------------------------
Init ==
    /\ now = 1
    /\ db = [t \in Tasks |-> Absent]
    /\ pins = {} /\ working = {}
    /\ cron = [NoThread EXCEPT !.pc = "load"]
    /\ api = NoThread /\ handler = NoThread
    /\ updates = 0 /\ crashes = 0
    /\ lastSlot = [t \in Tasks |-> 0] /\ doubled = {} /\ excused = {}

TimePasses ==
    /\ now < MaxTime
    /\ now' = now + 1
    /\ UNCHANGED <<db, pins, working, cron, api, handler, updates, crashes, lastSlot, doubled, excused>>

-----------------------------------------------------------------------------
(* The scheduler's goroutine.                                               *)

(* loadScheduledTasks: the listing (its order is the repository's).          *)
LoadList ==
    /\ cron.pc = "load"
    /\ cron' = [cron EXCEPT !.pc = "loading",
                            !.todo = LET s == SetToSeq({t \in Tasks : db[t].sched})
                                     IN  [i \in DOMAIN s |-> [task |-> s[i], copy |-> db[s[i]]]]]
    /\ UNCHANGED <<now, db, pins, working, api, handler, updates, crashes, lastSlot, doubled, excused>>

(* A listed task without a NextRun, or whose run was missed, gets the next   *)
(* one, written over whatever happened since the listing.                    *)
LoadNext ==
    /\ cron.pc = "loading"
    /\ cron.todo # <<>>
    /\ LET r == Head(cron.todo).copy IN
       IF r.next = 0 \/ r.next < now
       THEN UpdateNextRun(Head(cron.todo).task, r)
       ELSE UNCHANGED <<db, excused>>
    /\ cron' = [cron EXCEPT !.todo = Tail(@)]
    /\ UNCHANGED <<now, pins, working, api, handler, updates, crashes, lastSlot, doubled>>

Loaded ==
    /\ cron.pc = "loading"
    /\ cron.todo = <<>>
    /\ cron' = NoThread
    /\ UNCHANGED <<now, db, pins, working, api, handler, updates, crashes, lastSlot, doubled, excused>>

(* A tick of processScheduledTasks with something due. *)
ProcessScheduledTasks ==
    /\ cron.pc = "idle"
    /\ \E t \in Tasks : Due(t)
    /\ cron' = [cron EXCEPT !.pc = "trigger",
                            !.todo = LET s == GetReadyTasksByPriority({t \in Tasks : Due(t)})
                                     IN  [i \in DOMAIN s |-> [task |-> s[i], copy |-> db[s[i]]]]]
    /\ UNCHANGED <<now, db, pins, working, api, handler, updates, crashes, lastSlot, doubled, excused>>

Current == Head(cron.todo)
NextDue == [cron EXCEPT !.pc = IF Len(cron.todo) = 1 THEN "idle" ELSE "trigger",
                        !.todo = Tail(@), !.copy = Absent]

(* triggerScheduledTask: StartTask pins the task, sends it and marks it. *)
TriggerScheduledTask ==
    /\ cron.pc = "trigger"
    /\ LET t == Current.task IN
        /\ db[t] # Absent
        /\ ExclusivePins => t \notin pins
        /\ pins' = pins \cup {t}
        /\ working' = working \cup {t}
        /\ db' = [db EXCEPT ![t].state = "Running"]
        /\ doubled' = IF lastSlot[t] = Current.copy.next THEN doubled \cup {t} ELSE doubled
        /\ lastSlot' = [lastSlot EXCEPT ![t] = Current.copy.next]
    /\ cron' = [cron EXCEPT !.pc = "fetch"]
    /\ UNCHANGED <<now, api, handler, updates, crashes, excused>>

(* Mutant: a failed start ends the tick. *)
MutTriggerFails ==
    /\ cron.pc = "trigger"
    /\ \/ db[Current.task] = Absent
       \/ ExclusivePins /\ Current.task \in pins
       \/ StartMayFail
    /\ cron' = NoThread
    /\ UNCHANGED <<now, db, pins, working, api, handler, updates, crashes, lastSlot, doubled, excused>>

(* StartTask refuses: the loop goes on and leaves NextRun as it is. *)
TriggerFails ==
    /\ cron.pc = "trigger"
    /\ \/ db[Current.task] = Absent
       \/ ExclusivePins /\ Current.task \in pins
       \/ StartMayFail
    /\ cron' = NextDue
    /\ UNCHANGED <<now, db, pins, working, api, handler, updates, crashes, lastSlot, doubled, excused>>

(* The re-fetch after the trigger. *)
Refetch ==
    /\ cron.pc = "fetch"
    /\ cron' = IF db[Current.task] = Absent THEN NextDue
               ELSE [cron EXCEPT !.pc = "write", !.copy = db[Current.task]]
    /\ UNCHANGED <<now, db, pins, working, api, handler, updates, crashes, lastSlot, doubled, excused>>

(* Mutant: the run of a recurring task leaves NextRun as it was. *)
MutWriteSchedule ==
    /\ cron.pc = "write"
    /\ IF Current.copy.recurring
       THEN UNCHANGED <<db, excused>>
       ELSE Update(Current.task, [cron.copy EXCEPT !.sched = FALSE, !.next = 0])
    /\ cron' = NextDue
    /\ UNCHANGED <<now, pins, working, api, handler, updates, crashes, lastSlot, doubled>>

(* A recurring task (as listed) gets its next run, any other loses its       *)
(* schedule; both write the re-fetched record back.                          *)
WriteSchedule ==
    /\ cron.pc = "write"
    /\ IF Current.copy.recurring
       THEN UpdateNextRun(Current.task, cron.copy)
       ELSE Update(Current.task, [cron.copy EXCEPT !.sched = FALSE, !.next = 0])
    /\ cron' = NextDue
    /\ UNCHANGED <<now, pins, working, api, handler, updates, crashes, lastSlot, doubled>>

-----------------------------------------------------------------------------
(* The service.                                                             *)

(* CreateTask with a schedule computes NextRun, stores the task and goes on  *)
(* to ScheduleTask; CreateWorkflow and CreateJob store the schedule alone.   *)
CreateTask(t) ==
    /\ api.pc = "idle"
    /\ db[t] = Absent /\ lastSlot[t] = 0 /\ t \notin pins
    /\ LET r == [state |-> "Pending", sched |-> TRUE, next |-> CalculateNextRun(now), recurring |-> t \in Recurring] IN
       IF t \in ViaBatch
       THEN /\ db' = [db EXCEPT ![t] = [r EXCEPT !.next = 0]]
            /\ UNCHANGED api
       ELSE /\ db' = [db EXCEPT ![t] = r]
            /\ api' = [NoThread EXCEPT !.pc = "sget", !.op = "set", !.task = t]
    /\ UNCHANGED <<now, pins, working, cron, handler, updates, crashes, lastSlot, doubled, excused>>

(* UpdateTask up to its Update.  A request that carries no schedule clears   *)
(* the stored one; one that repeats it leaves NextRun alone.                 *)
UpdateTask(t, op) ==
    /\ api.pc = "idle"
    /\ updates < MaxUpdates
    /\ db[t] # Absent
    /\ op = "keep" => db[t].sched
    /\ updates' = updates + 1
    /\ api' = [NoThread EXCEPT !.pc = "put", !.task = t,
          !.op = IF op = "clear" /\ ~db[t].sched THEN "keep" ELSE op,
          !.copy = CASE op = "keep"  -> db[t]
                     [] op = "set"   -> [db[t] EXCEPT !.sched = TRUE, !.next = CalculateNextRun(now)]
                     [] op = "clear" -> [db[t] EXCEPT !.sched = FALSE, !.next = 0, !.recurring = db[t].recurring /\ ~db[t].sched]]
    /\ UNCHANGED <<now, db, pins, working, cron, handler, crashes, lastSlot, doubled, excused>>

(* Its Update; a changed schedule goes on to updateCronTask. *)
UpdateWrite ==
    /\ api.pc = "put"
    /\ Update(api.task, api.copy)
    /\ api' = IF api.op = "keep" \/ db[api.task] = Absent THEN NoThread ELSE [api EXCEPT !.pc = "sget"]
    /\ UNCHANGED <<now, pins, working, cron, handler, updates, crashes, lastSlot, doubled>>

(* DeleteTask unschedules first. *)
DeleteTask(t) ==
    /\ api.pc = "idle"
    /\ updates < MaxUpdates
    /\ db[t] # Absent
    /\ updates' = updates + 1
    /\ api' = [NoThread EXCEPT !.pc = "sget", !.op = "delete", !.task = t]
    /\ UNCHANGED <<now, db, pins, working, cron, handler, crashes, lastSlot, doubled, excused>>

(* The Get of ScheduleTask (op "set"; a task without a schedule ends it) or  *)
(* of UnscheduleTask.                                                        *)
ScheduleGet ==
    /\ api.pc = "sget"
    /\ LET r == db[api.task] IN
       api' = IF r = Absent \/ (api.op = "set" /\ ~r.sched)
              THEN (IF api.op = "delete" THEN [api EXCEPT !.pc = "delete"] ELSE NoThread)
              ELSE [api EXCEPT !.pc = "sput", !.copy = r]
    /\ UNCHANGED <<now, db, pins, working, cron, handler, updates, crashes, lastSlot, doubled, excused>>

ScheduleWrite ==
    /\ api.pc = "sput"
    /\ IF api.op = "set"
       THEN UpdateNextRun(api.task, api.copy)
       ELSE Update(api.task, [api.copy EXCEPT !.sched = FALSE, !.next = 0])
    /\ api' = IF api.op = "delete" THEN [api EXCEPT !.pc = "delete"] ELSE NoThread
    /\ UNCHANGED <<now, pins, working, cron, handler, updates, crashes, lastSlot, doubled>>

DeleteRemove ==
    /\ api.pc = "delete"
    /\ db' = [db EXCEPT ![api.task] = Absent]
    /\ api' = NoThread
    /\ UNCHANGED <<now, pins, working, cron, handler, updates, crashes, lastSlot, doubled, excused>>

(* updateResultsHandler: the proplet is done, the handler reads the task ... *)
ResultGet ==
    /\ handler.pc = "idle"
    /\ \E t \in working :
        /\ working' = working \ {t}
        /\ handler' = IF db[t] = Absent THEN handler
                      ELSE [NoThread EXCEPT !.pc = "put", !.task = t, !.copy = [db[t] EXCEPT !.state = "Completed"]]
    /\ UNCHANGED <<now, db, pins, cron, api, updates, crashes, lastSlot, doubled, excused>>

(* ... and writes it back. *)
ResultWrite ==
    /\ handler.pc = "put"
    /\ Update(handler.task, handler.copy)
    /\ handler' = NoThread
    /\ UNCHANGED <<now, pins, working, cron, api, updates, crashes, lastSlot, doubled>>

(* The manager dies and comes back: the goroutines are gone, and the         *)
(* scheduler loads the stored tasks again.                                   *)
Restart ==
    /\ crashes < MaxCrashes
    /\ crashes' = crashes + 1
    /\ cron' = [NoThread EXCEPT !.pc = "load"]
    /\ api' = NoThread /\ handler' = NoThread
    /\ excused' = IF cron.pc \in {"fetch", "write"} THEN excused \cup {Current.task} ELSE excused
    /\ UNCHANGED <<now, db, pins, working, updates, lastSlot, doubled>>

CronStep ==
    LoadList \/ LoadNext \/ Loaded \/ ProcessScheduledTasks \/ TriggerScheduledTask \/ TriggerFails
    \/ Refetch \/ WriteSchedule

ApiStep == UpdateWrite \/ ScheduleGet \/ ScheduleWrite \/ DeleteRemove

Next ==
    \/ TimePasses
    \/ CronStep
    \/ \E t \in Tasks : CreateTask(t) \/ DeleteTask(t) \/ \E op \in {"keep", "set", "clear"} : UpdateTask(t, op)
    \/ ApiStep
    \/ ResultGet \/ ResultWrite
    \/ Restart

Spec == Init /\ [][Next]_vars

(* The ticker keeps ticking and each tick runs to its end; an API call in    *)
(* progress ends too.                                                        *)
FairSpec == Spec /\ WF_vars(CronStep) /\ WF_vars(ApiStep)

-----------------------------------------------------------------------------
(* A run a schedule names happens once: cron starts a task twice for the     *)
(* same NextRun only after a stale write of another actor put that NextRun   *)
(* back, or a crash between the start and the write of the schedule.         *)
SlotRunOnce == doubled \subseteq excused

(* A due task is tried: the loop reaches it, whatever happens to the tasks   *)
(* before it in the tick, unless it is unscheduled, rescheduled or deleted.  *)
DueIsTried ==
    \A t \in Tasks :
        Due(t) ~> (~Due(t) \/ (cron.pc = "trigger" /\ Current.task = t))
=============================================================================
