----------------------------- MODULE Lifecycle ------------------------------
(***************************************************************************)
(* The life of a manager process around the dispatch of tasks              *)
(* (cmd/manager/main.go, Shutdown and RecoverInterruptedTasks): it         *)
(* subscribes, recovers the tasks an earlier process interrupted, serves   *)
(* calls, and on a signal stops the scheduler and the HTTP server, stops   *)
(* and interrupts the active tasks, disconnects and exits.  It may also    *)
(* crash at any point.  Proplets keep running while no manager does, and   *)
(* what they publish meanwhile is lost (CleanSession).                     *)
(*                                                                         *)
(* Shutdown runs after the scheduler and the server have returned, but     *)
(* the MQTT client still delivers messages and a handler may be in the     *)
(* middle of the StartTask or StopTask of a workflow or job task.  A call  *)
(* in flight outside phase "up" stands for that one: no message is then    *)
(* taken.                                                                  *)
(***************************************************************************)
EXTENDS Dispatch

CONSTANT MaxHalts    \* bound: shutdowns and crashes in a behaviour

ASSUME LifecycleAssumption == MaxHalts \in Nat

VARIABLES
    phase,    \* where main is
    copies,   \* listAllTasks of the running loop: the tasks it has not come to yet
    stopped,  \* interrupted tasks whose recovery goroutine is past its stop command
    halts     \* shutdowns and crashes so far

lifeVars == <<phase, copies, stopped, halts>>

allVars == <<vars, lifeVars>>

ShutdownPhases == {"signal", "interrupt", "closing"}

(* The tasks in one of the states S, as listAllTasks returns them. *)
Listed(S) ==
    [k \in Tasks |-> IF tasks[k] # None /\ tasks[k].state \in S THEN tasks[k] ELSE None]

NoCopies == [k \in Tasks |-> None]

ActiveStates == {s \in States : IsActive(s)}

LifeInit ==
    /\ Init
    /\ phase = "down"
    /\ copies = NoCopies
    /\ stopped = {}
    /\ halts = 0

-----------------------------------------------------------------------------
(* RecoverInterruptedTasks *)

(* main subscribes, then lists the interrupted tasks. *)
Restart ==
    /\ phase = "down"
    /\ phase' = "recover"
    /\ copies' = Listed({"Interrupted"})
    /\ stopped' = {}
    /\ UNCHANGED <<vars, halts>>

(* Mutant: a task without a pin is left alone. *)
MutRecoverStop(k) ==
    /\ phase = "recover"
    /\ copies[k] # None
    /\ k \notin stopped
    /\ IF pins[k] = None
       THEN /\ copies' = [copies EXCEPT ![k] = None]
            /\ UNCHANGED <<told, stopped>>
       ELSE /\ \E o \in StopOutcomes : SendStop(k, {pins[k]}, o)
            /\ stopped' = stopped \cup {k}
            /\ UNCHANGED copies
    /\ UNCHANGED <<tasks, proplets, pins, issued, shuttingDown, call, calls, working, results,
                   overlapped, phase, halts>>

(* Mutant: the stop goes out after the task is marked Failed. *)
MutRecoverStopLate(k) ==
    /\ phase = "recover"
    /\ copies[k] # None
    /\ k \notin stopped
    /\ stopped' = stopped \cup {k}
    /\ UNCHANGED <<vars, phase, copies, halts>>

(* A goroutine per task: a stop command to the pinned proplet, if any ... *)
RecoverStop(k) ==
    /\ phase = "recover"
    /\ copies[k] # None
    /\ k \notin stopped
    /\ IF pins[k] = None
       THEN UNCHANGED told
       ELSE \E o \in StopOutcomes : SendStop(k, {pins[k]}, o)
    /\ stopped' = stopped \cup {k}
    /\ UNCHANGED <<tasks, proplets, pins, issued, shuttingDown, call, calls, working, results,
                   overlapped, phase, copies, halts>>

(* ... and, whatever became of it, the listed copy written back as Failed. *)
RecoverFail(k) ==
    /\ phase = "recover"
    /\ k \in stopped
    /\ copies[k] # None
    /\ tasks' = TaskUpdated(tasks, k, [copies[k] EXCEPT !.state = "Failed"])
    /\ copies' = [copies EXCEPT ![k] = None]
    /\ UNCHANGED <<proplets, pins, issued, shuttingDown, call, calls, told, working, results,
                   overlapped, phase, stopped, halts>>

(* wg.Wait returns; the scheduler and the HTTP server start. *)
RecoverDone ==
    /\ phase = "recover"
    /\ copies = NoCopies
    /\ phase' = "up"
    /\ stopped' = {}
    /\ UNCHANGED <<vars, copies, halts>>

-----------------------------------------------------------------------------
(* Shutdown *)

(* The scheduler and the server are done, shuttingDown is raised and         *)
(* signalStopToActiveTasks lists the tasks.                                  *)
Shutdown ==
    /\ phase = "up"
    /\ halts < MaxHalts
    /\ \A c \in Callers : call[c].pc \in StartPcs \cup StopPcs \cup {"idle"}
    /\ shuttingDown' = TRUE
    /\ phase' = "signal"
    /\ copies' = Listed(ActiveStates)
    /\ halts' = halts + 1
    /\ UNCHANGED <<tasks, proplets, pins, issued, call, calls, told, working, results,
                   overlapped, stopped>>

(* A stop to the pinned proplet, or to the one the task names, or none. *)
SignalStop(k) ==
    /\ phase = "signal"
    /\ copies[k] # None
    /\ LET p == IF pins[k] # None THEN pins[k] ELSE copies[k].proplet IN
       IF p = None
       THEN UNCHANGED told
       ELSE \E o \in StopOutcomes : SendStop(k, {p}, o)
    /\ copies' = [copies EXCEPT ![k] = None]
    /\ UNCHANGED <<tasks, proplets, pins, issued, shuttingDown, call, calls, working, results,
                   overlapped, phase, stopped, halts>>

(* waitForActiveTasks has seen no active task or waited long enough;         *)
(* interruptRunningTasks lists them again.                                   *)
InterruptRunningTasks ==
    /\ phase = "signal"
    /\ copies = NoCopies
    /\ phase' = "interrupt"
    /\ copies' = Listed(ActiveStates)
    /\ UNCHANGED <<vars, stopped, halts>>

(* It writes the listed copy back, whatever is stored by now. *)
Interrupt(k) ==
    /\ phase = "interrupt"
    /\ copies[k] # None
    /\ tasks' = TaskUpdated(tasks, k, [copies[k] EXCEPT !.state = "Interrupted"])
    /\ copies' = [copies EXCEPT ![k] = None]
    /\ UNCHANGED <<proplets, pins, issued, shuttingDown, call, calls, told, working, results,
                   overlapped, phase, stopped, halts>>

(* Shutdown returns. *)
ShutdownReturns ==
    /\ phase = "interrupt"
    /\ copies = NoCopies
    /\ phase' = "closing"
    /\ UNCHANGED <<vars, copies, stopped, halts>>

(* The process ends: calls die where they are and messages are dropped.  The *)
(* in-memory backend takes the repositories with it.                         *)
Dies ==
    /\ phase' = "down"
    /\ copies' = NoCopies
    /\ stopped' = {}
    /\ call' = [c \in Threads |-> IdleCall]
    /\ results' = {}
    /\ shuttingDown' = FALSE
    /\ IF Backend = "memory"
       THEN /\ tasks' = [k \in Tasks |-> None]
            /\ proplets' = [p \in Proplets |-> None]
            /\ pins' = [k \in Tasks |-> None]
       ELSE UNCHANGED <<tasks, proplets, pins>>
    /\ UNCHANGED <<issued, calls, told, working, overlapped>>

Exit ==
    /\ phase = "closing"
    /\ Dies
    /\ UNCHANGED halts

Crash ==
    /\ phase # "down"
    /\ halts < MaxHalts
    /\ Dies
    /\ halts' = halts + 1

-----------------------------------------------------------------------------
(* What Dispatch does in each phase. *)

Serving == phase = "up" /\ Next

(* What a result handler calls for the other tasks of a workflow or job: it  *)
(* starts the ready ones, or stops the active ones of a failed job.          *)
HandlerCall(c, k) ==
    /\ tasks[k] # None
    /\ \/ tasks[k].state = "Pending" /\ StartTask(c, k)
       \/ IsActive(tasks[k].state) /\ StopTask(c, k)

(* Messages and the calls of their handlers, one at a time.  StartTask       *)
(* refuses once shuttingDown is raised.                                      *)
Handling ==
    /\ phase \in {"recover"} \cup ShutdownPhases
    /\ \/ AllIdle /\ NewMsg
       \/ AllIdle /\ \E c \in Callers, k \in Tasks : HandlerCall(c, k)
       \/ HandlerStep
       \/ \E c \in Callers : StartStep(c) \/ StopStep(c)
       \/ Environment

(* Nobody hears the proplets. *)
Unattended ==
    /\ phase = "down"
    /\ \/ \E k \in Tasks, p \in Proplets : PropletDrops(k, p)
       \/ \E p \in Proplets : TimePasses(p)

ShutdownStep ==
    \/ \E k \in Tasks : SignalStop(k) \/ Interrupt(k)
    \/ InterruptRunningTasks \/ ShutdownReturns \/ Exit

RecoverStep ==
    \/ Restart
    \/ \E k \in Tasks : RecoverStop(k) \/ RecoverFail(k)
    \/ RecoverDone

LifeNext ==
    \/ (Serving \/ Handling \/ Unattended) /\ UNCHANGED lifeVars
    \/ Shutdown \/ ShutdownStep \/ RecoverStep \/ Crash

LifeSpec == LifeInit /\ [][LifeNext]_allVars

(* main goes through Shutdown and RecoverInterruptedTasks without waiting    *)
(* for anyone (every wait has a timeout), and the manager is started again,  *)
(* by the supervisor after a crash, by an operator after a shutdown.         *)
FairLifeSpec == LifeSpec /\ WF_allVars(ShutdownStep) /\ WF_allVars(RecoverStep)

-----------------------------------------------------------------------------
(* No task is still Interrupted once the manager serves calls: whatever the  *)
(* crashes, shutdowns and late results before it, RecoverInterruptedTasks    *)
(* has settled every one, and no stale copy brings the state back.           *)
RecoveryComplete ==
    phase = "up" => \A k \in Tasks : tasks[k] # None => tasks[k].state # "Interrupted"

(* RecoverInterruptedTasks gives an interrupted task up only once no proplet *)
(* is under orders to run it, if stop commands get through.  Broadcast tasks *)
(* have no pin and are not stopped; a stop that overlapped another start or  *)
(* stop of the task may have left an order without a pin.                    *)
StoppedBeforeFailed ==
    \A k \in stopped \cap Orderly : copies[k] # None => told[k] = {}

(* An interrupted task does not stay so: some later manager process fails    *)
(* it, unless its result arrives first (Shutdown, RecoverInterruptedTasks).  *)
InterruptedSettles ==
    \A k \in Tasks :
        (tasks[k] # None /\ tasks[k].state = "Interrupted")
            ~> (tasks[k] = None \/ tasks[k].state # "Interrupted")

(* What shutdown_test.go says of Shutdown, "running and scheduled are        *)
(* interrupted": no task is active when Shutdown has returned.               *)
ActiveInterrupted ==
    phase = "closing" =>
        \A k \in Tasks : tasks[k] # None => ~IsActive(tasks[k].state)

(* The same test, "completed and pending unchanged": Shutdown does not       *)
(* interrupt a task that is Completed.                                       *)
CompletedUnchanged ==
    [][\A k \in Tasks :
         tasks[k] # None /\ tasks[k].state = "Completed" /\ tasks'[k] # None
             => tasks'[k].state # "Interrupted"]_allVars
=============================================================================
