-------------------------- MODULE LifecycleProofs ---------------------------
(***************************************************************************)
(* Across shutdowns, crashes and restarts of the manager: no interrupted   *)
(* task is left behind by the recovery, and none is given up while a       *)
(* proplet is under orders to run it.                                      *)
(***************************************************************************)
EXTENDS Lifecycle, DispatchProofs

USE DEF IsErr, Delivers

Phases == {"down", "recover", "up"} \cup ShutdownPhases

(* The types of Lifecycle's own variables, and those of Dispatch. *)
LifeTypes ==
    /\ TypeInv
    /\ phase \in Phases
    /\ copies \in [Tasks -> TaskRec \cup {None}]
    /\ stopped \subseteq Tasks

(* RecoveryComplete.  While the recovery runs, an interrupted task is one it *)
(* has listed and not settled yet; from then on no call holds a copy that    *)
(* would bring the state back, or is about to read one.                      *)
Interrupted(k) == tasks[k] # None /\ tasks[k].state = "Interrupted"

CleanCall(c) ==
    /\ call[c].pc \in CopyPcs => call[c].t.state # "Interrupted"
    /\ call[c].pc \in {"start", "cron_get"} => ~Interrupted(call[c].task)

Clean == \A c \in Threads : CleanCall(c)

RecoveryInv ==
    /\ phase = "down" => AllIdle
    /\ phase \in {"recover", "up"} => Clean
    /\ phase = "recover" => \A k \in Tasks : Interrupted(k) => copies[k] # None
    /\ phase = "up" => \A k \in Tasks : ~Interrupted(k)

(* StoppedBeforeFailed.  A task the recovery has listed is not started again *)
(* before it is settled, and nobody else stores a state that would allow it. *)
SettledStates == {"Interrupted", "Completed", "Failed"}

ListedStay ==
    phase = "recover" =>
        \A k \in Tasks : copies[k] # None =>
            /\ tasks[k] # None => tasks[k].state \in SettledStates
            /\ \A c \in Callers : ~At(c, k, StartPcs)

ResultKnown == call[MQTT].pc = "result" => call[MQTT].t.state \in {"Completed", "Failed"}

StopInv ==
    /\ phase = "down" => AllIdle
    /\ phase # "recover" => stopped = {}
    /\ ListedStay /\ ResultKnown /\ StoppedBeforeFailed

(* What Dispatch does in each phase is a step of Dispatch. *)
LEMMA DispatchSteps ==
    Serving \/ Handling \/ Unattended => Next
<1>1. Handling => Next
  BY DEF Handling, HandlerCall, Next, NewCall, CallStep
<1>2. Unattended => Next
  BY DEF Unattended, Next, Environment
<1> QED  BY <1>1, <1>2 DEF Serving

(* A write of a task record by the lifecycle keeps the types. *)
LEMMA WriteTypes ==
    ASSUME TypeInv, NEW k \in Tasks, NEW t \in TaskRec,
           tasks' = TaskUpdated(tasks, k, t),
           UNCHANGED <<proplets, pins, issued, shuttingDown, call, calls, told, working, results, overlapped>>
    PROVE  TypeInv'
BY TaskWrite DEF TypeInv, TypeOK, CallsOK

(* A stop command keeps the types. *)
LEMMA StopTypes ==
    ASSUME TypeInv, NEW k \in Tasks, NEW p \in Proplets, NEW o, SendStop(k, {p}, o),
           UNCHANGED <<tasks, proplets, pins, issued, shuttingDown, call, calls, working, results, overlapped>>
    PROVE  TypeInv'
BY Zenon, SendTypes DEF TypeInv, TypeOK, CallsOK

(* The end of the process keeps the types. *)
LEMMA DiesTypes ==
    ASSUME TypeInv, Dies
    PROVE  TypeInv'
<1>1. IdleCall \in Call /\ WellFormed(IdleCall)
  BY DEF IdleCall, Call, Pcs, WellFormed, TaskPcs, CopyPcs, TargetPcs, CountPcs, StartPcs, StopPcs
<1>2. CallsOK'
  BY <1>1 DEF Dies, CallsOK
<1> QED  BY Zenon, <1>2 DEF Dies, TypeInv, TypeOK, CallsOK

(* Types of the lists of tasks. *)
LEMMA ListedTypes ==
    ASSUME TypeInv, NEW S
    PROVE  Listed(S) \in [Tasks -> TaskRec \cup {None}] /\ NoCopies \in [Tasks -> TaskRec \cup {None}]
BY DEF Listed, NoCopies, TypeInv, TypeOK

(* A listed copy keeps its type with another state. *)
LEMMA CopiesTypes ==
    ASSUME LifeTypes, NEW k \in Tasks, copies[k] # None
    PROVE  /\ copies[k] \in TaskRec
           /\ \A s \in States : [copies[k] EXCEPT !.state = s] \in TaskRec
           /\ \A s \in States : [copies[k] EXCEPT !.state = s].state = s
           /\ [copies EXCEPT ![k] = None] \in [Tasks -> TaskRec \cup {None}]
BY CopyTypes DEF LifeTypes, TaskRec

(* Every variable keeps its type through the life of the process. *)
LEMMA LifeTypesStep == LifeTypes /\ [LifeNext]_allVars => LifeTypes'
<1> SUFFICES ASSUME LifeTypes, [LifeNext]_allVars PROVE LifeTypes'
  OBVIOUS
<1> USE DEF Phases, ShutdownPhases
<1>1. CASE UNCHANGED allVars
  BY <1>1 DEF allVars, vars, lifeVars, LifeTypes, TypeInv, TypeOK, CallsOK
<1>2. CASE (Serving \/ Handling \/ Unattended) /\ UNCHANGED lifeVars
  BY <1>2, DispatchSteps, TypeStep DEF LifeTypes, lifeVars
<1>3. CASE Restart \/ RecoverDone \/ InterruptRunningTasks \/ ShutdownReturns
  <2>1. UNCHANGED vars
    BY <1>3 DEF Restart, RecoverDone, InterruptRunningTasks, ShutdownReturns
  <2>2. TypeInv'
    BY <2>1 DEF vars, LifeTypes, TypeInv, TypeOK, CallsOK
  <2>3. copies' \in [Tasks -> TaskRec \cup {None}]
    BY <1>3, ListedTypes DEF LifeTypes, Restart, RecoverDone, InterruptRunningTasks, ShutdownReturns
  <2> QED
    BY <1>3, <2>2, <2>3 DEF LifeTypes, Restart, RecoverDone, InterruptRunningTasks, ShutdownReturns
<1>4. CASE Shutdown
  <2>1. TypeInv'
    BY <1>4 DEF Shutdown, LifeTypes, TypeInv, TypeOK, CallsOK
  <2> QED  BY <1>4, <2>1, ListedTypes DEF Shutdown, LifeTypes
<1>5. ASSUME NEW k \in Tasks, SignalStop(k)
      PROVE  LifeTypes'
  <2>1. copies[k] \in TaskRec /\ copies' \in [Tasks -> TaskRec \cup {None}]
    BY <1>5, CopiesTypes DEF SignalStop
  <2>2. CASE UNCHANGED told
    BY <1>5, <2>1, <2>2 DEF SignalStop, LifeTypes, TypeInv, TypeOK, CallsOK
  <2>3. ASSUME NEW p \in Proplets, NEW o, SendStop(k, {p}, o)
        PROVE  LifeTypes'
    <3>1. TypeInv'
      BY <1>5, <2>3, StopTypes DEF SignalStop, LifeTypes
    <3> QED  BY <1>5, <2>1, <3>1 DEF SignalStop, LifeTypes
  <2>4. pins[k] \in Proplets \cup {None} /\ copies[k].proplet \in Proplets \cup {None}
    BY <2>1 DEF LifeTypes, TypeInv, TypeOK, TaskRec
  <2> QED  BY <1>5, <2>2, <2>3, <2>4 DEF SignalStop
<1>6. ASSUME NEW k \in Tasks, RecoverStop(k)
      PROVE  LifeTypes'
  <2>1. CASE UNCHANGED told
    BY <1>6, <2>1 DEF RecoverStop, LifeTypes, TypeInv, TypeOK, CallsOK
  <2>2. ASSUME NEW p \in Proplets, NEW o, SendStop(k, {p}, o)
        PROVE  LifeTypes'
    <3>1. TypeInv'
      BY <1>6, <2>2, StopTypes DEF RecoverStop, LifeTypes
    <3> QED  BY <1>6, <3>1 DEF RecoverStop, LifeTypes
  <2>3. pins[k] \in Proplets \cup {None}
    BY DEF LifeTypes, TypeInv, TypeOK
  <2> QED  BY <1>6, <2>1, <2>2, <2>3 DEF RecoverStop
<1>7. ASSUME NEW k \in Tasks, RecoverFail(k) \/ Interrupt(k)
      PROVE  LifeTypes'
  <2>1. PICK t \in TaskRec : tasks' = TaskUpdated(tasks, k, t)
    BY Zenon, <1>7, CopiesTypes DEF RecoverFail, Interrupt, States
  <2>2. TypeInv'
    BY <1>7, <2>1, WriteTypes DEF RecoverFail, Interrupt, LifeTypes
  <2>3. copies' \in [Tasks -> TaskRec \cup {None}]
    BY <1>7, CopiesTypes DEF RecoverFail, Interrupt
  <2> QED  BY <1>7, <2>2, <2>3 DEF RecoverFail, Interrupt, LifeTypes
<1>8. CASE Dies
  <2>1. TypeInv'
    BY <1>8, DiesTypes DEF LifeTypes
  <2> QED  BY <1>8, <2>1, ListedTypes DEF Dies, LifeTypes
<1> QED
  BY <1>1, <1>2, <1>3, <1>4, <1>5, <1>6, <1>7, <1>8
  DEF LifeNext, ShutdownStep, RecoverStep, Exit, Crash

(* They have them initially. *)
LEMMA LifeTypesInit == LifeInit => LifeTypes
BY TypeInit DEF LifeInit, LifeTypes, NoCopies, Phases

-----------------------------------------------------------------------------
(* A write that does not interrupt a task. *)
LEMMA WriteClean ==
    ASSUME TypeInv, NEW k \in Tasks, NEW t \in TaskRec, t.state # "Interrupted",
           tasks' = TaskUpdated(tasks, k, t)
    PROVE  \A j \in Tasks : Interrupted(j)' => Interrupted(j)
BY NoRecordAssumption DEF TaskUpdated, Interrupted, TypeInv, TypeOK

(* A step of c that interrupts no task, to a clean place. *)
LEMMA CleanMove ==
    ASSUME TypeInv, TypeInv', Clean, NEW c \in Threads,
           \A d \in Threads \ {c} : call'[d] = call[d],
           \A j \in Tasks : Interrupted(j)' => Interrupted(j),
           call'[c].pc \in CopyPcs => call'[c].t.state # "Interrupted",
           call'[c].pc \in {"start", "cron_get"} => ~Interrupted(call'[c].task)
    PROVE  Clean'
<1> SUFFICES ASSUME NEW d \in Threads PROVE CleanCall(d)'
  BY DEF Clean
<1>1. call'[d].pc \in {"start", "cron_get"} => call'[d].task \in Tasks
  BY DEF TypeInv, CallsOK, WellFormed, TaskPcs, StartPcs
<1> QED  BY <1>1 DEF Clean, CleanCall

(* Where c is after a move, its copy included. *)
LEMMA MoveFacts ==
    ASSUME TypeInv, NEW c \in Threads
    PROVE  /\ Return(c) => /\ \A d \in Threads \ {c} : call'[d] = call[d]
                           /\ call'[c].pc = "idle"
           /\ \A l : Goto(c, l) => /\ \A d \in Threads \ {c} : call'[d] = call[d]
                                   /\ call'[c].pc = l /\ call'[c].t = call[c].t
                                   /\ call'[c].task = call[c].task
           /\ \A l, k, t, q, p : Enter(c, l, k, t, q, p) =>
                                   /\ \A d \in Threads \ {c} : call'[d] = call[d]
                                   /\ call'[c].pc = l /\ call'[c].t = t /\ call'[c].task = k
<1>1. call[c] \in Call /\ c \in DOMAIN call
  BY DEF TypeInv, CallsOK
<1>2. ASSUME NEW l, Goto(c, l)
      PROVE  /\ \A d \in Threads \ {c} : call'[d] = call[d]
             /\ call'[c].pc = l /\ call'[c].t = call[c].t
             /\ call'[c].task = call[c].task
  BY <1>1, <1>2 DEF Goto, Call
<1>3. ASSUME NEW l, NEW k, NEW t, NEW q, NEW p, Enter(c, l, k, t, q, p)
      PROVE  /\ \A d \in Threads \ {c} : call'[d] = call[d]
             /\ call'[c].pc = l /\ call'[c].t = t /\ call'[c].task = k
  BY <1>1, <1>3 DEF Enter
<1>4. Return(c) => (\A d \in Threads \ {c} : call'[d] = call[d]) /\ call'[c].pc = "idle"
  BY <1>1 DEF Return, IdleCall
<1> QED  BY <1>2, <1>3, <1>4

(* The steps of StartTask bring no interruption back. *)
LEMMA CleanStart ==
    ASSUME TypeInv, TypeInv', Clean, NEW c \in Callers, StartStep(c)
    PROVE  Clean' /\ \A j \in Tasks : Interrupted(j)' => Interrupted(j)
<1> USE DEF CopyPcs, StartPcs
<1>1. c \in Threads
  BY DEF Threads
<1>2. WellFormed(call[c]) /\ CleanCall(c) /\ call[c].pc # "idle"
  BY <1>1
  DEF TypeInv, CallsOK, Clean, StartStep, StartGet, BroadcastPersist, BroadcastPublish, BroadcastMark,
      StartSelect, StartPin, StartPersist, StartPublish, StartBump, StartMark, StartUnpin, StartUnbump,
      StartCountermand, StartFail
<1>3. UNCHANGED tasks => \A j \in Tasks : Interrupted(j)' => Interrupted(j)
  BY DEF Interrupted
<1>4. CASE StartGet(c)
  <2>1. CASE Return(c)
    BY <1>1, <1>3, <1>4, <2>1, MoveFacts, CleanMove DEF StartGet
  <2>2. ASSUME NEW l \in {"bpersist", "select"}, tasks[call[c].task] # None,
               Enter(c, l, call[c].task, tasks[call[c].task], None, None)
        PROVE  Clean'
    <3>1. tasks[call[c].task].state # "Interrupted" /\ UNCHANGED tasks
      BY <1>2, <1>4, <2>2 DEF CleanCall, Interrupted, StartGet
    <3>2. /\ \A d \in Threads \ {c} : call'[d] = call[d]
          /\ call'[c].pc = l /\ call'[c].t = tasks[call[c].task]
      BY <1>1, <2>2, MoveFacts
    <3> QED  BY <1>1, <1>3, <3>1, <3>2, CleanMove
  <2> QED  BY <1>3, <1>4, <2>1, <2>2 DEF StartGet
<1>5. ASSUME NEW t \in TaskRec, t.state # "Interrupted", call[c].task \in Tasks,
             tasks' = TaskUpdated(tasks, call[c].task, t),
             \/ Return(c)
             \/ \E l \in Pcs : Goto(c, l) /\ l \notin {"start", "cron_get"} /\ call[c].pc \in CopyPcs
      PROVE  Clean' /\ \A j \in Tasks : Interrupted(j)' => Interrupted(j)
  <2>1. \A j \in Tasks : Interrupted(j)' => Interrupted(j)
    BY <1>5, WriteClean
  <2> QED  BY <1>1, <1>2, <1>5, <2>1, MoveFacts, CleanMove DEF CleanCall
<1>6. call[c].pc # "start" => call[c].task \in Tasks /\ call[c].t \in TaskRec /\ call[c].t.state # "Interrupted"
  BY <1>2
  DEF WellFormed, TaskPcs, CleanCall, StartStep, StartGet, BroadcastPersist, BroadcastPublish,
      BroadcastMark, StartSelect, StartPin, StartPersist, StartPublish, StartBump, StartMark, StartUnpin,
      StartUnbump, StartCountermand, StartFail
<1>7. CASE BroadcastPersist(c) \/ StartPersist(c)
  BY ZenonT(30), <1>5, <1>6, <1>7 DEF BroadcastPersist, StartPersist, Pcs
<1>8. CASE BroadcastMark(c) \/ StartMark(c) \/ StartFail(c)
  <2>1. \A s \in {"Running", "Failed"} : [call[c].t EXCEPT !.state = s] \in TaskRec
                                         /\ [call[c].t EXCEPT !.state = s].state # "Interrupted"
    <3>1. call[c].t \in TaskRec /\ {"Running", "Failed"} \subseteq States
      BY <1>6, <1>8 DEF BroadcastMark, StartMark, StartFail, States
    <3>2. \A s \in States : [call[c].t EXCEPT !.state = s].state = s
      BY <3>1 DEF TaskRec
    <3> QED  BY <3>1, <3>2, CopyTypes
  <2> QED  BY ZenonT(30), <1>5, <1>6, <1>8, <2>1 DEF BroadcastMark, StartMark, StartFail, Pcs
<1>9. CASE /\ UNCHANGED tasks /\ call[c].pc \in CopyPcs
           /\ Return(c) \/ \E l \in Pcs : Goto(c, l) /\ l \notin {"start", "cron_get"}
  BY <1>1, <1>2, <1>3, <1>9, MoveFacts, CleanMove DEF CleanCall
<1>10. CASE BroadcastPublish(c) \/ StartPublish(c) \/ StartBump(c) \/ StartUnbump(c) \/ StartCountermand(c)
  BY <1>9, <1>10 DEF BroadcastPublish, StartPublish, StartBump, StartUnbump, StartCountermand, Pcs
<1>11. CASE StartUnpin(c)
  BY <1>9, <1>11 DEF StartUnpin, Pcs
<1>12. ASSUME NEW l \in {"pin", "persist"}, NEW t, t.state = call[c].t.state, NEW k, NEW q, NEW p,
              Enter(c, l, k, t, q, p), UNCHANGED tasks, call[c].pc \in CopyPcs
       PROVE  Clean' /\ \A j \in Tasks : Interrupted(j)' => Interrupted(j)
  BY <1>1, <1>2, <1>3, <1>12, MoveFacts, CleanMove DEF CleanCall
<1>13. CASE StartSelect(c)
  BY <1>9, <1>12, <1>13 DEF StartSelect
<1>14. CASE StartPin(c)
  <2>1. [call[c].t EXCEPT !.proplet = call[c].prop].state = call[c].t.state
    BY <1>6, <1>14 DEF StartPin, TaskRec
  <2> QED  BY Zenon, <1>9, <1>12, <1>14, <2>1 DEF StartPin
<1> QED
  BY <1>4, <1>7, <1>8, <1>10, <1>11, <1>13, <1>14 DEF StartStep

(* Neither do those of StopTask. *)
LEMMA CleanStop ==
    ASSUME TypeInv, TypeInv', Clean, NEW c \in Callers, StopStep(c)
    PROVE  Clean' /\ \A j \in Tasks : Interrupted(j)' => Interrupted(j)
<1> USE DEF CopyPcs, StartPcs
<1>1. c \in Threads /\ UNCHANGED tasks
  BY DEF Threads, StopStep, StopBroadcast, StopGetPin, StopGetProplet, StopPublish, StopUnpin, StopBump
<1>2. \A j \in Tasks : Interrupted(j)' => Interrupted(j)
  BY <1>1 DEF Interrupted
<1>3. /\ \A d \in Threads \ {c} : call'[d] = call[d]
      /\ call'[c].pc \in {"idle", "stop_proplet", "stop_publish", "stop_unpin", "stop_bump"}
  BY <1>1, MoveFacts
  DEF StopStep, StopBroadcast, StopGetPin, StopGetProplet, StopPublish, StopUnpin, StopBump
<1> QED  BY <1>1, <1>2, <1>3, CleanMove

(* Nor the messages and their handlers: a result writes its own state. *)
LEMMA CleanMessages ==
    ASSUME TypeInv, TypeInv', Clean, NewMsg \/ HandlerStep \/ Environment
    PROVE  Clean' /\ \A j \in Tasks : Interrupted(j)' => Interrupted(j)
<1> USE DEF CopyPcs, StartPcs
<1>1. MQTT \in Threads /\ WellFormed(call[MQTT]) /\ CleanCall(MQTT)
  BY DEF Threads, TypeInv, CallsOK, Clean
<1>2. UNCHANGED tasks => \A j \in Tasks : Interrupted(j)' => Interrupted(j)
  BY DEF Interrupted
<1>3. CASE NewMsg
  <2>1. UNCHANGED tasks
    BY Zenon, <1>3 DEF NewMsg, AliveMsg, DiscoveryMsg, ResultMsg
  <2>2. CASE UNCHANGED call
    BY <1>2, <2>1, <2>2 DEF Clean, CleanCall, Interrupted
  <2>3. ASSUME NEW l \in {"lookup", "alive"}, NEW p, NEW r, Enter(MQTT, l, None, None, p, r)
        PROVE  Clean'
    BY <1>1, <1>2, <2>1, <2>3, MoveFacts, CleanMove
  <2>4. ASSUME NEW r \in results, tasks[r.task] # None,
               Enter(MQTT, "result", r.task, [tasks[r.task] EXCEPT !.state = r.state], None, None)
        PROVE  Clean'
    <3>1. [tasks[r.task] EXCEPT !.state = r.state].state # "Interrupted"
      <4>1. r.state \in {"Completed", "Failed"} /\ r.task \in Tasks
        BY Zenon, DispatchAssumption DEF TypeInv, TypeOK
      <4>2. tasks[r.task] \in TaskRec
        BY <2>4, <4>1 DEF TypeInv, TypeOK
      <4> QED  BY <4>1, <4>2 DEF TaskRec
    <3>2. /\ \A d \in Threads \ {MQTT} : call'[d] = call[d]
          /\ call'[MQTT].pc = "result" /\ call'[MQTT].t = [tasks[r.task] EXCEPT !.state = r.state]
      BY <1>1, <2>4, MoveFacts
    <3> QED  BY Zenon, <1>1, <1>2, <2>1, <3>1, <3>2, CleanMove
  <2> QED  BY Zenon, <1>2, <1>3, <2>1, <2>2, <2>3, <2>4 DEF NewMsg, AliveMsg, DiscoveryMsg, ResultMsg
<1>4. CASE HandlerStep
  <2>1. \A j \in Tasks : Interrupted(j)' => Interrupted(j)
    <3>1. CASE ResultWrite
      BY <1>1, <3>1, WriteClean DEF ResultWrite, WellFormed, TaskPcs, CleanCall
    <3> QED  BY <1>2, <1>4, <3>1 DEF HandlerStep, AliveWrite, CreateLookup, CreateWrite
  <2>2. /\ \A d \in Threads \ {MQTT} : call'[d] = call[d]
        /\ call'[MQTT].pc \in {"idle", "create", "refresh"}
    BY <1>1, <1>4, MoveFacts DEF HandlerStep, AliveWrite, CreateLookup, CreateWrite, ResultWrite
  <2> QED  BY <1>1, <2>1, <2>2, CleanMove
<1>5. CASE Environment
  <2>1. UNCHANGED tasks
    BY <1>5 DEF Environment, PropletReports, PropletDrops, TimePasses
  <2>2. \A d \in Threads : /\ call'[d].pc = call[d].pc
                           /\ call'[d].task = call[d].task
                           /\ call'[d].t = call[d].t
    BY <1>5 DEF Environment, PropletReports, PropletDrops, TimePasses, TypeInv, CallsOK, Call
  <2> QED  BY <1>2, <2>1, <2>2 DEF Clean, CleanCall, Interrupted
<1> QED  BY <1>3, <1>4, <1>5

(* While no task is interrupted, a call that begins reads a clean record,    *)
(* and so does a step of UpdateTask or of a deletion.                        *)
LEMMA CleanEdit ==
    ASSUME TypeInv, TypeInv', Clean, "Interrupted" \notin NewStates, \A k \in Tasks : ~Interrupted(k),
           NEW c \in Callers, NewCall(c) \/ EditStep(c)
    PROVE  Clean' /\ \A j \in Tasks : Interrupted(j)' => Interrupted(j)
<1> USE DEF CopyPcs, StartPcs
<1>1. c \in Threads
  BY DEF Threads
<1>2. WellFormed(call[c]) /\ CleanCall(c)
  BY <1>1 DEF TypeInv, CallsOK, Clean
<1>3. \A j \in Tasks : Interrupted(j)' => Interrupted(j)
  <2>1. ASSUME NEW k \in Tasks, NEW p \in Proplets \cup {None}, NEW s \in NewStates, CreateTask(c, k, p, s)
        PROVE  \A j \in Tasks : Interrupted(j)' => Interrupted(j)
    BY <2>1 DEF CreateTask, Interrupted, TypeInv, TypeOK
  <2>2. CASE UpdateWrite(c) \/ CronPut(c) \/ DeleteUnschedule(c)
    BY <1>2, <2>2, WriteClean
    DEF UpdateWrite, CronPut, DeleteUnschedule, WellFormed, TaskPcs, CleanCall
  <2>3. CASE DeleteRemove(c)
    BY <2>3 DEF DeleteRemove, Interrupted, TypeInv, TypeOK
  <2>4. CASE UNCHANGED tasks
    BY <2>4 DEF Interrupted
  <2> QED
    BY <2>1, <2>2, <2>3, <2>4
    DEF NewCall, StartTask, StopTask, UpdateTask, DeleteTask, DeleteProplet, EditStep, CronGet,
        DeletePropletRemove
<1> SUFFICES Clean'
  BY <1>3
<1>4. \A k \in Tasks : tasks[k] # None => tasks[k].state # "Interrupted"
  BY DEF Interrupted
<1>5. CASE UNCHANGED call
  BY <1>3, <1>5 DEF Clean, CleanCall, TypeInv, CallsOK, WellFormed, TaskPcs
<1>6. ASSUME NEW l, l \notin CopyPcs \cup {"start", "cron_get"},
             Goto(c, l) \/ \E k, t, q, p : Enter(c, l, k, t, q, p)
      PROVE  Clean'
  BY <1>1, <1>3, <1>6, MoveFacts, CleanMove
<1>7. ASSUME NEW l, l \in {"start", "cron_get"}, NEW k \in Tasks, Enter(c, l, k, None, None, None)
      PROVE  Clean'
  BY <1>1, <1>3, <1>7, MoveFacts, CleanMove
<1>8. ASSUME NEW l, l \in {"update", "cron_put", "unschedule"}, NEW k \in Tasks, tasks[k] # None,
             Enter(c, l, k, tasks[k], None, None)
      PROVE  Clean'
  <2>1. /\ \A d \in Threads \ {c} : call'[d] = call[d]
        /\ call'[c].pc = l /\ call'[c].t = tasks[k]
    BY <1>1, <1>8, MoveFacts
  <2> QED  BY <1>1, <1>3, <1>4, <1>8, <2>1, CleanMove
<1>9. CASE Return(c)
  BY <1>1, <1>3, <1>9, MoveFacts, CleanMove
<1>10. CASE NewCall(c)
  <2>1. ASSUME NEW k \in Tasks, UpdateTask(c, k) \/ DeleteTask(c, k)
        PROVE  Clean'
    BY Zenon, <1>6, <1>8, <2>1 DEF UpdateTask, DeleteTask
  <2>2. ASSUME NEW k \in Tasks, StopTask(c, k)
        PROVE  Clean'
    BY Zenon, <1>6, <2>2 DEF StopTask
  <2>3. ASSUME NEW q \in Proplets, DeleteProplet(c, q)
        PROVE  Clean'
    BY Zenon, <1>6, <2>3 DEF DeleteProplet
  <2>4. ASSUME NEW k \in Tasks, NEW p, NEW s, CreateTask(c, k, p, s) PROVE Clean'
    BY <1>5, <1>7, <2>4 DEF CreateTask
  <2>5. ASSUME NEW k \in Tasks, StartTask(c, k) PROVE Clean'
    BY <1>7, <2>5 DEF StartTask
  <2> QED  BY <1>10, <2>1, <2>2, <2>3, <2>4, <2>5 DEF NewCall
<1>11. CASE EditStep(c)
  <2>1. call[c].pc \in {"update", "cron_get"} => call[c].task \in Tasks
    BY <1>2 DEF WellFormed, TaskPcs
  <2>2. CASE UpdateWrite(c)
    BY <1>7, <1>9, <2>1, <2>2 DEF UpdateWrite
  <2>3. CASE CronGet(c)
    BY <1>8, <1>9, <2>1, <2>3 DEF CronGet
  <2>4. CASE DeleteUnschedule(c)
    BY <1>6, <2>4 DEF DeleteUnschedule
  <2> QED
    BY <1>9, <1>11, <2>2, <2>3, <2>4 DEF EditStep, CronPut, DeleteRemove, DeletePropletRemove
<1> QED  BY <1>10, <1>11

(* A call made by a message handler begins on a clean record. *)
LEMMA CleanHandlerCall ==
    ASSUME TypeInv, TypeInv', Clean, NEW c \in Callers, NEW k \in Tasks, HandlerCall(c, k)
    PROVE  Clean' /\ \A j \in Tasks : Interrupted(j)' => Interrupted(j)
<1>1. c \in Threads /\ UNCHANGED tasks
  BY DEF Threads, HandlerCall, StartTask, StopTask
<1>2. \A j \in Tasks : Interrupted(j)' => Interrupted(j)
  BY <1>1 DEF Interrupted
<1>3. PICK l \in {"start", "stop_pin", "stop_all"} :
        /\ Enter(c, l, k, None, None, None)
        /\ l = "start" => ~Interrupted(k)
  BY DEF HandlerCall, StartTask, StopTask, Interrupted
<1>4. /\ \A d \in Threads \ {c} : call'[d] = call[d]
      /\ call'[c].pc = l /\ call'[c].task = k
  BY <1>1, <1>3, MoveFacts
<1> QED  BY <1>1, <1>2, <1>3, <1>4, CleanMove DEF CopyPcs, StartPcs

(* The recovery invariant is preserved by what Dispatch does in each phase. *)
LEMMA RecoveryDispatch ==
    ASSUME LifeTypes, LifeTypes', RecoveryInv, "Interrupted" \notin NewStates,
           Serving \/ Handling \/ Unattended, UNCHANGED lifeVars
    PROVE  RecoveryInv'
<1>1. TypeInv /\ TypeInv' /\ UNCHANGED <<phase, copies>>
  BY DEF LifeTypes, lifeVars
<1>2. CASE phase \notin {"down", "recover", "up"}
  BY <1>1, <1>2 DEF RecoveryInv
<1>3. CASE Unattended
  <2>1. phase = "down" /\ AllIdle
    BY <1>3 DEF Unattended, RecoveryInv
  <2>2. AllIdle'
    BY <1>1, <1>3, <2>1
    DEF Unattended, PropletDrops, TimePasses, AllIdle, TypeInv, CallsOK, Call
  <2> QED  BY <1>1, <2>1, <2>2 DEF RecoveryInv
<1>4. CASE Serving
  <2>1. phase = "up" /\ Clean /\ \A k \in Tasks : ~Interrupted(k)
    BY <1>4 DEF Serving, RecoveryInv
  <2>2. Clean' /\ \A j \in Tasks : Interrupted(j)' => Interrupted(j)
    BY <1>1, <1>4, <2>1, CleanStart, CleanStop, CleanEdit, CleanMessages DEF Serving, Next, CallStep
  <2> QED  BY <1>1, <2>1, <2>2 DEF RecoveryInv
<1>5. CASE Handling /\ phase = "recover"
  <2>1. Clean' /\ \A j \in Tasks : Interrupted(j)' => Interrupted(j)
    BY <1>1, <1>5, CleanStart, CleanStop, CleanHandlerCall, CleanMessages DEF Handling, RecoveryInv
  <2> QED  BY <1>1, <1>5, <2>1 DEF RecoveryInv
<1>6. Handling => phase \notin {"down", "up"}
  BY DEF Handling, ShutdownPhases
<1> QED  BY <1>2, <1>3, <1>4, <1>5, <1>6

(* Every step preserves the recovery invariant. *)
LEMMA RecoveryStep ==
    ASSUME "Interrupted" \notin NewStates
    PROVE  LifeTypes /\ RecoveryInv /\ [LifeNext]_allVars => RecoveryInv'
<1> SUFFICES ASSUME LifeTypes, RecoveryInv, [LifeNext]_allVars PROVE RecoveryInv'
  OBVIOUS
<1>1. LifeTypes'
  BY LifeTypesStep
<1>2. CASE UNCHANGED allVars
  BY <1>2 DEF allVars, vars, lifeVars, RecoveryInv, AllIdle, Clean, CleanCall, Interrupted
<1>3. CASE (Serving \/ Handling \/ Unattended) /\ UNCHANGED lifeVars
  BY <1>1, <1>3, RecoveryDispatch
<1>4. CASE Restart
  <2>1. AllIdle /\ UNCHANGED vars /\ phase' = "recover" /\ copies' = Listed({"Interrupted"})
    BY <1>4 DEF Restart, RecoveryInv
  <2>2. Clean'
    BY <2>1 DEF AllIdle, Clean, CleanCall, CopyPcs, StartPcs, vars
  <2>3. \A k \in Tasks : Interrupted(k)' => copies'[k] # None
    BY <2>1 DEF Interrupted, Listed, vars
  <2> QED  BY <2>1, <2>2, <2>3 DEF RecoveryInv
<1>5. ASSUME NEW k \in Tasks, RecoverStop(k)
      PROVE  RecoveryInv'
  BY <1>5 DEF RecoverStop, RecoveryInv, Clean, CleanCall, Interrupted
<1>6. ASSUME NEW k \in Tasks, RecoverFail(k)
      PROVE  RecoveryInv'
  <2>1. /\ phase = "recover" /\ phase' = "recover" /\ UNCHANGED call
        /\ copies' = [copies EXCEPT ![k] = None]
    BY <1>6 DEF RecoverFail
  <2>2. PICK t \in TaskRec : tasks' = TaskUpdated(tasks, k, t) /\ t.state = "Failed"
    BY Zenon, <1>6, CopiesTypes DEF RecoverFail, States
  <2>3. \A j \in Tasks : Interrupted(j)' => Interrupted(j) /\ j # k
    BY <2>2, NoRecordAssumption DEF TaskUpdated, Interrupted, LifeTypes, TypeInv, TypeOK
  <2>4. Clean'
    <3>1. \A c \in Threads : call[c].pc \in {"start", "cron_get"} => call[c].task \in Tasks
      BY DEF LifeTypes, TypeInv, CallsOK, WellFormed, TaskPcs, StartPcs
    <3> QED  BY <2>1, <2>3, <3>1 DEF RecoveryInv, Clean, CleanCall
  <2>5. \A j \in Tasks : Interrupted(j)' => copies'[j] # None
    BY <2>1, <2>3 DEF RecoveryInv, LifeTypes
  <2> QED  BY <2>1, <2>4, <2>5 DEF RecoveryInv
<1>7. CASE RecoverDone
  <2>1. /\ phase = "recover" /\ phase' = "up" /\ UNCHANGED <<tasks, call>>
        /\ \A k \in Tasks : copies[k] = None
    BY <1>7 DEF RecoverDone, NoCopies, vars
  <2> QED  BY <2>1 DEF RecoveryInv, Clean, CleanCall, Interrupted
<1>8. CASE Dies
  BY <1>8 DEF Dies, RecoveryInv, AllIdle, IdleCall
<1>9. CASE phase' \in ShutdownPhases
  BY <1>9 DEF RecoveryInv, ShutdownPhases
<1>10. CASE Shutdown
  BY <1>9, <1>10 DEF Shutdown, ShutdownPhases
<1>11. ASSUME NEW k \in Tasks, SignalStop(k) \/ Interrupt(k)
       PROVE  RecoveryInv'
  BY <1>9, <1>11 DEF SignalStop, Interrupt, ShutdownPhases
<1>12. CASE InterruptRunningTasks \/ ShutdownReturns
  BY <1>9, <1>12 DEF InterruptRunningTasks, ShutdownReturns, ShutdownPhases
<1> QED
  BY <1>2, <1>3, <1>4, <1>5, <1>6, <1>7, <1>8, <1>10, <1>11, <1>12
  DEF LifeNext, ShutdownStep, RecoverStep, Exit, Crash

(* Nothing is interrupted when the first process starts. *)
LEMMA RecoveryInit == LifeInit => RecoveryInv
BY DEF LifeInit, Init, RecoveryInv, AllIdle, IdleCall

(* Once the manager serves calls no task is left Interrupted, on every       *)
(* backend and for any number of tasks, callers, crashes, shutdowns and late *)
(* results, unless a create request itself asks for that state: the recovery *)
(* lists every interrupted task before the server starts, settles each, and  *)
(* no copy read before that is written back after it.                        *)
THEOREM RecoverySettles ==
    ASSUME "Interrupted" \notin NewStates
    PROVE  LifeSpec => []RecoveryComplete
<1>1. LifeTypes /\ RecoveryInv => RecoveryComplete
  BY DEF RecoveryInv, RecoveryComplete, Interrupted
<1>2. LifeTypes /\ RecoveryInv /\ [LifeNext]_allVars => RecoveryInv'
  BY RecoveryStep
<1> QED  BY <1>1, <1>2, LifeTypesInit, LifeTypesStep, RecoveryInit, PTL DEF LifeSpec

-----------------------------------------------------------------------------
(* The pins outlive the process and no start has to be taken back, and a     *)
(* start reported lost is lost while every stop arrives, if late.            *)
DurablePins == Backend = "sqlite" \/ (Backend = "postgres" /\ NoDeletes)

StopsArrive == "late" \notin StartOutcomes /\ StopOutcomes \subseteq {"ok", "late"}

(* A step of the lifecycle that leaves calls and pins alone and sends at     *)
(* most stops.                                                               *)
LEMMA OrderStops ==
    ASSUME OrderInv, UNCHANGED <<call, pins, overlapped>>, \A j \in Tasks : told'[j] \subseteq told[j]
    PROVE  OrderInv'
<1>1. Orderly' = Orderly /\ Orderly \subseteq Tasks /\ \A j \in Tasks : Recalling(j)' = Recalling(j)
  BY DEF Orderly, Recalling
<1>2. \A S : Fewer(S) /\ SamePin(S)
  BY <1>1 DEF Fewer, SamePin, At
<1>3. OneOrder'
  BY <1>1 DEF OrderInv, OneOrder
<1>4. BroadcastOnly'
  BY DEF OrderInv, BroadcastOnly
<1>5. PinHeld' /\ OneHolder' /\ StopAlone' /\ StopAimed'
  BY <1>1, <1>2, Frame
<1>6. StopSent' /\ NotOut'
  BY <1>1, <1>2, FrameTold
<1> QED  BY <1>3, <1>4, <1>5, <1>6 DEF OrderInv

(* Where nothing is taken back, only the pinned proplet is under orders. *)
LEMMA OrderPinned ==
    ASSUME OrderInv, TypeInv, Kept, NeverRecalls
    PROVE  \A k \in Orderly : told[k] \subseteq {pins[k]}
<1>1. \A k \in Tasks : Recalling(k) = {}
  BY DEF Recalling, Kept, KeptCall
<1> QED  BY Zenon, <1>1 DEF OrderInv, OneOrder, Orderly

(* The end of the process: no call is left to hold or to take back. *)
LEMMA OrderDies ==
    ASSUME OrderInv, TypeInv, Kept, DurablePins, Dies
    PROVE  OrderInv' /\ Kept'
<1>1. /\ \A c \in Callers : call'[c].pc = "idle"
      /\ UNCHANGED <<pins, told, overlapped>>
  BY DEF Dies, Threads, IdleCall, DurablePins
<1>2. Orderly' = Orderly /\ \A k \in Tasks : Recalling(k)' = {}
  BY <1>1 DEF Orderly, Recalling, RecallPcs
<1>3. OneOrder'
  BY <1>1, <1>2, OrderPinned DEF OneOrder, Orderly, DurablePins, NeverRecalls
<1>4. OrderInv'
  BY Zenon, <1>1, <1>3
  DEF OrderInv, PinHeld, OneHolder, NotOut, StopAlone, StopAimed, StopSent, BroadcastOnly, At,
      HoldPcs, NotOutPcs, StopPcs, StartPcs, AimedPcs, BroadcastPcs
<1>5. Kept'
  BY <1>1 DEF Kept, KeptCall, DeletePcs, StartPcs, SelectedPcs, RecallPcs
<1> QED  BY <1>4, <1>5

(* The other steps of the lifecycle: what they do to calls, pins and orders. *)
LEMMA LifecycleQuiet ==
    ASSUME LifeTypes,
           \/ Shutdown \/ InterruptRunningTasks \/ ShutdownReturns \/ RecoverStep
           \/ \E k \in Tasks : SignalStop(k) \/ Interrupt(k)
    PROVE  /\ UNCHANGED <<call, pins, proplets, overlapped>>
           /\ \A j \in Tasks : told'[j] \subseteq told[j]
           /\ \A j \in Tasks : tasks[j] # None => tasks'[j] # None
<1>1. ASSUME NEW k \in Tasks, SignalStop(k) \/ RecoverStop(k)
      PROVE  \A j \in Tasks : told'[j] \subseteq told[j]
  BY <1>1 DEF SignalStop, RecoverStop, SendStop, LifeTypes, TypeInv, TypeOK
<1>2. ASSUME NEW k \in Tasks, Interrupt(k) \/ RecoverFail(k)
      PROVE  \A j \in Tasks : tasks[j] # None => tasks'[j] # None
  <2>1. PICK t \in TaskRec : tasks' = TaskUpdated(tasks, k, t)
    BY ZenonT(30), <1>2, CopiesTypes DEF Interrupt, RecoverFail, States
  <2> QED  BY <2>1, NoRecordAssumption DEF TaskUpdated, LifeTypes, TypeInv, TypeOK
<1>3. UNCHANGED <<call, pins, proplets, overlapped>>
  BY Zenon DEF Shutdown, InterruptRunningTasks, ShutdownReturns, RecoverStep, SignalStop, Interrupt,
         Restart, RecoverStop, RecoverFail, RecoverDone, vars
<1>4. \A j \in Tasks : told'[j] \subseteq told[j]
  BY Zenon, <1>1
  DEF Shutdown, InterruptRunningTasks, ShutdownReturns, RecoverStep, Interrupt, Restart, RecoverFail,
      RecoverDone, vars
<1>5. \A j \in Tasks : tasks[j] # None => tasks'[j] # None
  BY Zenon, <1>2
  DEF Shutdown, InterruptRunningTasks, ShutdownReturns, RecoverStep, SignalStop, Restart, RecoverStop,
      RecoverDone, vars
<1> QED  BY <1>3, <1>4, <1>5

(* The order invariant holds through the life of the process. *)
LEMMA LifeOrderStep ==
    ASSUME DurablePins, StopsArrive
    PROVE  LifeTypes /\ OrderInv /\ Kept /\ [LifeNext]_allVars => OrderInv' /\ Kept'
<1> SUFFICES ASSUME LifeTypes, OrderInv, Kept, [LifeNext]_allVars PROVE OrderInv' /\ Kept'
  OBVIOUS
<1>1. PinIsLock /\ CommandsKnown /\ TypeInv
  BY DEF DurablePins, StopsArrive, PinIsLock, CommandsKnown, LifeTypes
<1>2. CASE [Next]_vars
  BY <1>1, <1>2, OrderStep, KeptStep
<1>3. CASE Dies
  BY <1>1, <1>3, OrderDies
<1>4. CASE \/ Shutdown \/ InterruptRunningTasks \/ ShutdownReturns \/ RecoverStep
           \/ \E k \in Tasks : SignalStop(k) \/ Interrupt(k)
  <2>1. /\ UNCHANGED <<call, pins, proplets, overlapped>>
        /\ \A j \in Tasks : told'[j] \subseteq told[j]
        /\ \A j \in Tasks : tasks[j] # None => tasks'[j] # None
    BY ZenonT(30), <1>4, LifecycleQuiet
  <2>2. Kept'
    <3>1. \A c \in Callers : call[c].pc \in StartPcs => call[c].task \in Tasks
      BY <1>1, Held
    <3> QED  BY <2>1, <3>1 DEF Kept, KeptCall
  <2> QED  BY ZenonT(30), <2>1, <2>2, OrderStops
<1>5. UNCHANGED allVars => UNCHANGED vars
  BY DEF allVars
<1> QED  BY <1>2, <1>3, <1>4, <1>5, DispatchSteps DEF LifeNext, ShutdownStep, Exit, Crash

(* A start under way concerns its own task only. *)
LEMMA StartLocal ==
    ASSUME TypeInv, NEW c \in Callers, StartStep(c)
    PROVE  /\ call[c].pc \in StartPcs /\ overlapped' = overlapped
           /\ \A j \in Tasks \ {call[c].task} : tasks'[j] = tasks[j] /\ told'[j] = told[j]
           /\ \A d \in Threads \ {c} : call'[d] = call[d]
           /\ call'[c].pc \in StartPcs => call'[c].task = call[c].task
<1>1. c \in Threads
  BY DEF Threads
<1>2. call[c].pc \in StartPcs /\ overlapped' = overlapped
  BY DEF StartStep, StartGet, BroadcastPersist, BroadcastPublish, BroadcastMark, StartSelect, StartPin,
         StartPersist, StartPublish, StartBump, StartMark, StartUnpin, StartUnbump, StartCountermand,
         StartFail, StartPcs
<1>3. \A j \in Tasks \ {call[c].task} : tasks'[j] = tasks[j]
  BY DEF StartStep, StartGet, BroadcastPersist, BroadcastPublish, BroadcastMark, StartSelect, StartPin,
         StartPersist, StartPublish, StartBump, StartMark, StartUnpin, StartUnbump, StartCountermand,
         StartFail, TaskUpdated, TypeInv, TypeOK
<1>4. \A j \in Tasks \ {call[c].task} : told'[j] = told[j]
  BY Zenon DEF StartStep, StartGet, BroadcastPersist, BroadcastPublish, BroadcastMark, StartSelect, StartPin,
         StartPersist, StartPublish, StartBump, StartMark, StartUnpin, StartUnbump, StartCountermand,
         StartFail, SendStart, SendStop, TypeInv, TypeOK
<1>5. \/ Return(c)
      \/ \E l : Goto(c, l)
      \/ \E l, t, q, p : Enter(c, l, call[c].task, t, q, p)
  BY DEF StartStep, StartGet, BroadcastPersist, BroadcastPublish, BroadcastMark, StartSelect, StartPin,
         StartPersist, StartPublish, StartBump, StartMark, StartUnpin, StartUnbump, StartCountermand,
         StartFail
<1>6. /\ \A d \in Threads \ {c} : call'[d] = call[d]
      /\ call'[c].pc \in StartPcs => call'[c].task = call[c].task
  BY <1>1, <1>5, MoveFacts DEF StartPcs
<1> QED  BY <1>2, <1>3, <1>4, <1>6

(* A stop under way writes no task and starts none. *)
LEMMA StopLocal ==
    ASSUME TypeInv, NEW c \in Callers, StopStep(c)
    PROVE  /\ UNCHANGED <<tasks, overlapped>>
           /\ \A j \in Tasks : told'[j] \subseteq told[j]
           /\ \A d \in Threads \ {c} : call'[d] = call[d]
           /\ call'[c].pc \notin StartPcs
<1>1. c \in Threads
  BY DEF Threads
<1>2. UNCHANGED <<tasks, overlapped>>
  BY ZenonT(30) DEF StopStep, StopBroadcast, StopGetPin, StopGetProplet, StopPublish, StopUnpin, StopBump
<1>3. \A j \in Tasks : told'[j] \subseteq told[j]
  <2>1. UNCHANGED told \/ \E k, ps, o : SendStop(k, ps, o)
    BY Zenon DEF StopStep, StopBroadcast, StopGetPin, StopGetProplet, StopPublish, StopUnpin, StopBump
  <2>2. CASE UNCHANGED told
    BY <2>2
  <2>3. ASSUME NEW k, NEW ps, NEW o, SendStop(k, ps, o) PROVE \A j \in Tasks : told'[j] \subseteq told[j]
    <3>1. told \in [Tasks -> SUBSET Proplets]
      BY Zenon DEF TypeInv, TypeOK
    <3> QED  BY <2>3, <3>1 DEF SendStop
  <2> QED  BY Zenon, <2>1, <2>2, <2>3
<1>4. \/ Return(c)
      \/ \E l \in StopPcs : Goto(c, l)
      \/ \E l \in StopPcs : \E k, t, q, p : Enter(c, l, k, t, q, p)
  BY Zenon DEF StopStep, StopBroadcast, StopGetPin, StopGetProplet, StopPublish, StopUnpin, StopBump, StopPcs
<1>5. /\ \A d \in Threads \ {c} : call'[d] = call[d]
      /\ call'[c].pc \in StopPcs \cup {"idle"}
  BY <1>1, <1>4, MoveFacts
<1> QED  BY <1>2, <1>3, <1>5 DEF StartPcs, StopPcs

(* The result a handler is about to write is the one it was sent. *)
LEMMA ResultStays ==
    ASSUME TypeInv, ResultKnown, [Next]_vars
    PROVE  ResultKnown'
<1>1. MQTT \in Threads /\ MQTT \notin Callers
  BY DispatchAssumption DEF Threads
<1>2. CASE UNCHANGED call
  BY <1>2 DEF ResultKnown
<1>3. ASSUME NEW c \in Callers, NewCall(c) \/ CallStep(c)
      PROVE  ResultKnown'
  <2>1. c \in Threads
    BY DEF Threads
  <2>2. \/ UNCHANGED call \/ Return(c)
        \/ \E l : Goto(c, l)
        \/ \E l, k, t, q, p : Enter(c, l, k, t, q, p)
        \/ StartStep(c) \/ StopStep(c)
    BY ZenonT(30), <1>3
    DEF NewCall, CreateTask, StartTask, StopTask, UpdateTask, DeleteTask, DeleteProplet, CallStep,
        EditStep, UpdateWrite, CronGet, CronPut, DeleteUnschedule, DeleteRemove, DeletePropletRemove
  <2>3. call'[MQTT] = call[MQTT]
    <3>1. MQTT \in Threads \ {c}
      BY Zenon, <1>1
    <3>2. CASE Return(c) \/ (\E l : Goto(c, l)) \/ (\E l, k, t, q, p : Enter(c, l, k, t, q, p))
      BY Zenon, <2>1, <3>1, <3>2, MoveFacts
    <3>3. CASE StartStep(c)
      BY Zenon, <3>1, <3>3, StartLocal
    <3>4. CASE StopStep(c)
      BY Zenon, <3>1, <3>4, StopLocal
    <3> QED  BY Zenon, <2>2, <3>2, <3>3, <3>4
  <2> QED  BY <2>3 DEF ResultKnown
<1>4. CASE HandlerStep
  <2>1. call'[MQTT].pc \in {"idle", "create", "refresh"}
    BY <1>1, <1>4, MoveFacts DEF HandlerStep, AliveWrite, CreateLookup, CreateWrite, ResultWrite
  <2> QED  BY <2>1 DEF ResultKnown
<1>5. CASE NewMsg
  <2>1. ASSUME NEW l \in {"lookup", "alive"}, NEW p, NEW r, Enter(MQTT, l, None, None, p, r)
        PROVE  ResultKnown'
    BY <1>1, <2>1, MoveFacts DEF ResultKnown
  <2>2. ASSUME NEW r \in results, tasks[r.task] # None,
               Enter(MQTT, "result", r.task, [tasks[r.task] EXCEPT !.state = r.state], None, None)
        PROVE  ResultKnown'
    <3>1. r.state \in {"Completed", "Failed"} /\ r.task \in Tasks
      BY Zenon, DispatchAssumption DEF TypeInv, TypeOK
    <3>2. tasks[r.task] \in TaskRec
      BY <2>2, <3>1 DEF TypeInv, TypeOK
    <3>3. [tasks[r.task] EXCEPT !.state = r.state].state = r.state
      BY <3>2 DEF TaskRec
    <3>4. call'[MQTT].t = [tasks[r.task] EXCEPT !.state = r.state]
      BY <1>1, <2>2, MoveFacts
    <3> QED  BY <3>1, <3>3, <3>4 DEF ResultKnown
  <2> QED  BY Zenon, <1>2, <1>5, <2>1, <2>2 DEF NewMsg, AliveMsg, DiscoveryMsg, ResultMsg
<1>6. CASE Environment
  <2>1. call'[MQTT].pc = call[MQTT].pc /\ call'[MQTT].t = call[MQTT].t
    BY <1>1, <1>6 DEF Environment, PropletReports, PropletDrops, TimePasses, TypeInv, CallsOK, Call
  <2> QED  BY <2>1 DEF ResultKnown
<1> QED  BY <1>2, <1>3, <1>4, <1>5, <1>6 DEF Next, vars

(* While the recovery runs nobody starts a task it has listed, orders it on  *)
(* a proplet or makes it startable again.                                    *)
LEMMA ListedUntouched ==
    ASSUME TypeInv, StopInv, phase = "recover", Handling, NEW k \in Tasks, copies[k] # None
    PROVE  /\ told'[k] \subseteq told[k] /\ overlapped \subseteq overlapped'
           /\ tasks'[k] # None => tasks'[k].state \in SettledStates
           /\ \A c \in Callers : ~At(c, k, StartPcs)'
<1>1. /\ tasks[k] # None => tasks[k].state \in SettledStates
      /\ \A c \in Callers : ~At(c, k, StartPcs)
  BY DEF StopInv, ListedStay
<1>2. Callers \subseteq Threads
  BY DEF Threads
<1>3. CASE NewMsg \/ HandlerStep \/ Environment
  <2>1. \A c \in Callers : ~At(c, k, StartPcs)'
    BY <1>1, <1>3, CallersStay DEF At
  <2>2. UNCHANGED <<told, overlapped>>
    BY ZenonT(30), <1>3 DEF NewMsg, AliveMsg, DiscoveryMsg, ResultMsg, HandlerStep, AliveWrite, CreateLookup, CreateWrite,
                ResultWrite, Environment, PropletReports, PropletDrops, TimePasses
  <2>3. CASE ResultWrite
    <3>1. tasks'[k] \in {tasks[k], call[MQTT].t} /\ call[MQTT].t.state \in SettledStates
      BY <2>3 DEF ResultWrite, TaskUpdated, StopInv, ResultKnown, SettledStates, TypeInv, TypeOK
    <3> QED  BY <1>1, <2>1, <2>2, <3>1
  <2>4. CASE UNCHANGED tasks
    BY <1>1, <2>1, <2>2, <2>4
  <2> QED
    BY Zenon, <1>3, <2>1, <2>2, <2>3, <2>4
    DEF NewMsg, AliveMsg, DiscoveryMsg, ResultMsg, HandlerStep, AliveWrite, CreateLookup, CreateWrite,
        Environment, PropletReports, PropletDrops, TimePasses
<1>4. ASSUME NEW c \in Callers, StartStep(c)
      PROVE  /\ told'[k] \subseteq told[k] /\ overlapped \subseteq overlapped'
             /\ tasks'[k] # None => tasks'[k].state \in SettledStates
             /\ \A d \in Callers : ~At(d, k, StartPcs)'
  <2>1. k # call[c].task
    BY <1>1, <1>4, StartLocal DEF At
  <2> QED  BY <1>1, <1>2, <1>4, <2>1, StartLocal DEF At
<1>5. ASSUME NEW c \in Callers, StopStep(c)
      PROVE  /\ told'[k] \subseteq told[k] /\ overlapped \subseteq overlapped'
             /\ tasks'[k] # None => tasks'[k].state \in SettledStates
             /\ \A d \in Callers : ~At(d, k, StartPcs)'
  BY <1>1, <1>2, <1>5, StopLocal DEF At
<1>6. ASSUME NEW c \in Callers, NEW j \in Tasks, HandlerCall(c, j)
      PROVE  /\ told'[k] \subseteq told[k] /\ overlapped \subseteq overlapped'
             /\ tasks'[k] # None => tasks'[k].state \in SettledStates
             /\ \A d \in Callers : ~At(d, k, StartPcs)'
  <2>1. UNCHANGED <<tasks, told>> /\ overlapped \subseteq overlapped'
    BY <1>6 DEF HandlerCall, StartTask, StopTask
  <2>2. PICK l \in {"start", "stop_pin", "stop_all"} :
          Enter(c, l, j, None, None, None) /\ (l = "start" => tasks[j] # None /\ tasks[j].state = "Pending")
    BY <1>6 DEF HandlerCall, StartTask, StopTask
  <2>3. /\ \A d \in Threads \ {c} : call'[d] = call[d]
        /\ call'[c].pc = l /\ call'[c].task = j
    BY <1>2, <2>2, MoveFacts
  <2>4. l \in StartPcs => j # k
    BY <1>1, <2>2 DEF StartPcs, SettledStates
  <2> QED  BY <1>1, <1>2, <2>1, <2>3, <2>4 DEF At
<1> QED  BY <1>3, <1>4, <1>5, <1>6 DEF Handling

(* What Dispatch does in each phase preserves the stop invariant. *)
LEMMA StopDispatch ==
    ASSUME TypeInv, StopInv, Serving \/ Handling \/ Unattended, UNCHANGED lifeVars
    PROVE  StopInv'
<1>1. UNCHANGED <<phase, copies, stopped>>
  BY DEF lifeVars
<1>2. ResultKnown'
  BY DispatchSteps, ResultStays DEF StopInv
<1>3. (phase = "down" => AllIdle)'
  <2>1. CASE Unattended
    BY <1>1, <2>1 DEF StopInv, Unattended, PropletDrops, TimePasses, AllIdle, TypeInv, CallsOK, Call
  <2>2. Serving \/ Handling => phase # "down"
    BY DEF Serving, Handling, ShutdownPhases
  <2> QED  BY <1>1, <2>1, <2>2
<1>4. CASE phase # "recover"
  BY <1>1, <1>2, <1>3, <1>4 DEF StopInv, ListedStay, StoppedBeforeFailed
<1>5. CASE phase = "recover"
  <2>1. Handling
    BY <1>5 DEF Serving, Unattended
  <2>2. \A k \in Tasks : copies[k] # None =>
          /\ told'[k] \subseteq told[k] /\ overlapped \subseteq overlapped'
          /\ tasks'[k] # None => tasks'[k].state \in SettledStates
          /\ \A c \in Callers : ~At(c, k, StartPcs)'
    BY <1>5, <2>1, ListedUntouched
  <2>3. ListedStay'
    BY <1>1, <2>2 DEF ListedStay
  <2>4. StoppedBeforeFailed'
    BY <1>1, <2>2 DEF StopInv, StoppedBeforeFailed, Orderly
  <2> QED  BY <1>1, <1>2, <1>3, <1>5, <2>3, <2>4 DEF StopInv
<1> QED  BY <1>4, <1>5

(* Every step preserves the stop invariant. *)
LEMMA StopInvStep ==
    ASSUME DurablePins, StopsArrive
    PROVE  LifeTypes /\ OrderInv /\ Kept /\ StopInv /\ [LifeNext]_allVars => StopInv'
<1> SUFFICES ASSUME LifeTypes, OrderInv, Kept, StopInv, [LifeNext]_allVars PROVE StopInv'
  OBVIOUS
<1>1. TypeInv /\ NeverRecalls
  BY DEF LifeTypes, DurablePins, NeverRecalls
<1>2. CASE UNCHANGED allVars
  BY <1>2 DEF allVars, vars, lifeVars, StopInv, AllIdle, ListedStay, ResultKnown, StoppedBeforeFailed,
              Orderly, At
<1>3. CASE (Serving \/ Handling \/ Unattended) /\ UNCHANGED lifeVars
  BY <1>1, <1>3, StopDispatch
<1>4. CASE Dies
  BY Zenon, <1>4 DEF Dies, StopInv, AllIdle, IdleCall, ListedStay, ResultKnown, StoppedBeforeFailed, Threads
<1>5. CASE /\ phase' \notin {"recover", "down"} /\ UNCHANGED call /\ stopped' = {}
  BY <1>5 DEF StopInv, ListedStay, ResultKnown, StoppedBeforeFailed
<1>6. CASE Restart
  <2>1. AllIdle /\ UNCHANGED vars /\ phase' = "recover" /\ stopped' = {}
        /\ copies' = Listed({"Interrupted"})
    BY <1>6 DEF Restart, StopInv
  <2>2. ListedStay'
    BY <2>1 DEF ListedStay, Listed, SettledStates, AllIdle, At, StartPcs, Threads, vars
  <2> QED  BY <2>1, <2>2 DEF StopInv, ResultKnown, StoppedBeforeFailed, vars
<1>7. ASSUME NEW k \in Tasks, RecoverStop(k)
      PROVE  StopInv'
  <2>1. /\ phase = "recover" /\ phase' = "recover" /\ stopped' = stopped \cup {k}
        /\ UNCHANGED <<tasks, pins, call, overlapped, copies>>
    BY <1>7 DEF RecoverStop
  <2>2. \A j \in Tasks : told'[j] \subseteq told[j]
    BY <1>7, LifecycleQuiet DEF RecoverStep
  <2>3. k \in Orderly => told'[k] = {}
    <3> SUFFICES ASSUME k \in Orderly PROVE told'[k] = {}
      OBVIOUS
    <3>1. told[k] \subseteq {pins[k]} /\ None \notin told[k]
      BY <1>1, OrderPinned, NoneAssumption DEF TypeInv, TypeOK
    <3>2. CASE pins[k] = None
      <4>1. told' = told
        BY Zenon, <1>7, <3>2 DEF RecoverStop
      <4> QED  BY Zenon, <3>1, <3>2, <4>1
    <3>3. CASE pins[k] # None
      <4>1. told' = [told EXCEPT ![k] = @ \ {pins[k]}]
        BY <1>7, <3>3 DEF RecoverStop, SendStop, StopsArrive
      <4> QED  BY <1>1, <3>1, <4>1 DEF TypeInv, TypeOK
    <3> QED  BY <3>2, <3>3
  <2>4. StoppedBeforeFailed'
    BY <2>1, <2>2, <2>3 DEF StopInv, StoppedBeforeFailed, Orderly
  <2> QED  BY <2>1, <2>4 DEF StopInv, ListedStay, ResultKnown, At
<1>8. ASSUME NEW k \in Tasks, RecoverFail(k)
      PROVE  StopInv'
  <2>1. /\ phase = "recover" /\ phase' = "recover"
        /\ UNCHANGED <<told, call, overlapped, stopped>>
        /\ copies' = [copies EXCEPT ![k] = None]
    BY <1>8 DEF RecoverFail
  <2>2. \A j \in Tasks : copies'[j] = IF j = k THEN None ELSE copies[j]
    BY <2>1 DEF LifeTypes
  <2>3. \A j \in Tasks \ {k} : tasks'[j] = tasks[j]
    BY <1>1, <1>8 DEF RecoverFail, TaskUpdated, TypeInv, TypeOK
  <2>4. ListedStay'
    BY <2>1, <2>2, <2>3 DEF StopInv, ListedStay, At
  <2>5. StoppedBeforeFailed'
    BY <2>1, <2>2 DEF StopInv, StoppedBeforeFailed, Orderly
  <2> QED  BY <2>1, <2>4, <2>5 DEF StopInv, ResultKnown
<1>9. CASE RecoverDone \/ Shutdown \/ InterruptRunningTasks \/ ShutdownReturns
  BY Zenon, <1>5, <1>9 DEF RecoverDone, Shutdown, InterruptRunningTasks, ShutdownReturns, StopInv, vars
<1>10. ASSUME NEW k \in Tasks, SignalStop(k) \/ Interrupt(k)
       PROVE  StopInv'
  BY <1>5, <1>10 DEF SignalStop, Interrupt, StopInv
<1> QED
  BY <1>2, <1>3, <1>4, <1>6, <1>7, <1>8, <1>9, <1>10
  DEF LifeNext, ShutdownStep, RecoverStep, Exit, Crash

(* Nothing is listed when the first process starts. *)
LEMMA StopInvInit == LifeInit => StopInv
<1> SUFFICES ASSUME LifeInit PROVE StopInv
  OBVIOUS
<1>1. phase = "down" /\ stopped = {} /\ call = [c \in Threads |-> IdleCall]
  BY Zenon DEF LifeInit, Init
<1>2. AllIdle
  BY <1>1 DEF AllIdle, IdleCall
<1>3. ResultKnown
  BY <1>2 DEF AllIdle, ResultKnown, Threads
<1> QED  BY <1>1, <1>2, <1>3 DEF StopInv, ListedStay, StoppedBeforeFailed

(* RecoverInterruptedTasks gives an interrupted task up only once no proplet *)
(* is under orders to run it, for any number of tasks, callers, crashes and  *)
(* restarts: the pins of a durable store still tell the truth after the      *)
(* calls that wrote them have died, and no handler starts a listed task      *)
(* again before it is settled.                                               *)
THEOREM RecoveryStops ==
    ASSUME DurablePins, StopsArrive
    PROVE  LifeSpec => []StoppedBeforeFailed
<1>1. LifeInit => LifeTypes /\ OrderInv /\ Kept /\ StopInv
  BY LifeTypesInit, OrderInit, KeptInit, StopInvInit DEF LifeInit
<1>2. LifeTypes /\ OrderInv /\ Kept /\ StopInv /\ [LifeNext]_allVars =>
        LifeTypes' /\ OrderInv' /\ Kept' /\ StopInv'
  BY LifeTypesStep, LifeOrderStep, StopInvStep
<1>3. StopInv => StoppedBeforeFailed
  BY DEF StopInv
<1> QED  BY <1>1, <1>2, <1>3, PTL DEF LifeSpec
=============================================================================
