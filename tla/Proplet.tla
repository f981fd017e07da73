------------------------------ MODULE Proplet -------------------------------
(***************************************************************************)
(* The proplet's command handling (proplet/src/service.rs) and the tables  *)
(* it shares with the Wasmtime runtime                                     *)
(* (proplet/src/runtime/wasmtime_runtime.rs).  Every MQTT message is       *)
(* handled by a tokio task of its own, so start, stop and invoke commands  *)
(* of one task interleave at every await; a guest runs in a further tokio  *)
(* task, whose handle is what a stop aborts.  A command is one this        *)
(* proplet can decode and that is addressed to it, all start requests of a *)
(* task agree on whether it is latent or a daemon, and an answer counts    *)
(* when it is handed to the MQTT client.  The metrics, and the ports of    *)
(* HTTP proxy components, are left out.                                    *)
(***************************************************************************)
EXTENDS Naturals, Sequences

CONSTANTS
    Tasks,
    Latent,        \* the tasks deployed for invocation
    Daemon,        \* the tasks whose start returns while the guest runs
    MaxCommands    \* bound: commands received

ASSUME CommandBound == MaxCommands \in Nat

VARIABLES
    running,       \* keys of running_tasks
    handles,       \* WasmtimeRuntime.tasks: key -> the command whose guest it is, or 0
    precompiled,   \* keys of WasmtimeRuntime.precompiled
    cmd            \* the commands received, each with the state of its tokio tasks
vars == <<running, handles, precompiled, cmd>>

(* A guest is registered under its task's id, an invocation's guest under a  *)
(* fresh id "{id}-inv-{uuid}".                                               *)
Keys == ({"inv"} \X (1..MaxCommands)) \cup ({"task"} \X Tasks)
Key(r) == IF cmd[r].kind = "invoke" THEN <<"inv", r>> ELSE <<"task", cmd[r].task>>

At(r, kind, pc) == cmd[r].kind = kind /\ cmd[r].pc = pc
Goto(r, pc) == cmd' = [cmd EXCEPT ![r].pc = pc]
Task(r) == cmd[r].task

-----------------------------------------------------------------------------
Init ==
    /\ running = {} /\ precompiled = {} /\ cmd = <<>>
    /\ handles = [k \in Keys |-> 0]

(* run: the loop hands the message to a new tokio task and goes on.          *)
Receive(kind, t) ==
    /\ Len(cmd) < MaxCommands
    /\ kind = "invoke" => t \in Latent
    /\ cmd' = Append(cmd, [kind |-> kind, task |-> t, pc |-> "received", guest |-> "none",
                           abort |-> FALSE, latent |-> FALSE, answers |-> 0])
    /\ UNCHANGED <<running, handles, precompiled>>

(* handle_start_command refuses a request it cannot validate, whose policy   *)
(* does not parse, that a plugin denies, or that needs a missing runtime:    *)
(* it publishes the error and the task was never entered in running_tasks.   *)
RefuseStart(r) ==
    /\ At(r, "start", "received")
    /\ Goto(r, "reply")
    /\ UNCHANGED <<running, handles, precompiled>>

(* The entry is vacant: the task is admitted.  Otherwise the start is a      *)
(* duplicate and ends without an answer.                                     *)
AdmitStart(r) ==
    /\ At(r, "start", "received")
    /\ IF Task(r) \in running
         THEN Goto(r, "done") /\ UNCHANGED running
         ELSE Goto(r, "fetch") /\ running' = running \cup {Task(r)}
    /\ UNCHANGED <<handles, precompiled>>

(* The binary is decoded from the request, downloaded or assembled.          *)
FetchBinary(r) ==
    /\ At(r, "start", "fetch")
    /\ Goto(r, IF Task(r) \in Latent THEN "precompile" ELSE "launch")
    /\ UNCHANGED <<running, handles, precompiled>>

(* No binary, or a latent task that does not compile: the entry is removed   *)
(* before the error is published.                                            *)
MutStartFails(r) ==
    /\ At(r, "start", "fetch") \/ At(r, "start", "precompile")
    /\ Goto(r, "reply")
    /\ UNCHANGED <<running, handles, precompiled>>
StartFails(r) ==
    /\ At(r, "start", "fetch") \/ At(r, "start", "precompile")
    /\ running' = running \ {Task(r)}
    /\ Goto(r, "reply")
    /\ UNCHANGED <<handles, precompiled>>

(* precompile: the component is cached; the entry in running_tasks stays.    *)
Precompile(r) ==
    /\ At(r, "start", "precompile")
    /\ precompiled' = precompiled \cup {Task(r)}
    /\ Goto(r, "done")
    /\ UNCHANGED <<running, handles>>

(* handle_invoke_command, WasmtimeRuntime::invoke: the cached component is   *)
(* cloned under the lock, and used after it.                                 *)
LookUp(r) ==
    /\ At(r, "invoke", "received")
    /\ Goto(r, IF Task(r) \in precompiled THEN "launch" ELSE "reply")
    /\ UNCHANGED <<running, handles, precompiled>>

(* start_app_core, run_component_command, run_component_export: spawn the    *)
(* guest, then register its handle under the lock.                           *)
Launch(r) ==
    /\ cmd[r].pc = "launch"
    /\ cmd' = [cmd EXCEPT ![r].pc = "register", ![r].guest = "live"]
    /\ UNCHANGED <<running, handles, precompiled>>

(* The module does not compile, link or get its policy, or the model         *)
(* registry of a training task is not configured.                            *)
LaunchFails(r) ==
    /\ cmd[r].pc = "launch"
    /\ Goto(r, IF cmd[r].kind = "start" THEN "answer" ELSE "reply")
    /\ UNCHANGED <<running, handles, precompiled>>

Register(r) ==
    /\ cmd[r].pc = "register"
    /\ handles' = [handles EXCEPT ![Key(r)] = r]
    /\ Goto(r, IF cmd[r].kind = "start" /\ Task(r) \in Daemon THEN "answer" ELSE "await")
    /\ UNCHANGED <<running, precompiled>>

-----------------------------------------------------------------------------
(* The guest returns, or traps. *)
GuestEnds(r) ==
    /\ cmd[r].guest = "live"
    /\ cmd' = [cmd EXCEPT ![r].guest = "ended"]
    /\ UNCHANGED <<running, handles, precompiled>>

(* The guest's tokio task removes its handle and sends the result.           *)
GuestReports(r) ==
    /\ cmd[r].guest = "ended"
    /\ handles' = [handles EXCEPT ![Key(r)] = 0]
    /\ cmd' = [cmd EXCEPT ![r].guest = "sent"]
    /\ UNCHANGED <<running, precompiled>>

(* An abort takes effect at the next await of the guest's tokio task, if it  *)
(* reaches one before its end; the sender of the result is dropped.          *)
GuestDies(r) ==
    /\ cmd[r].abort /\ cmd[r].guest \in {"live", "ended"}
    /\ cmd' = [cmd EXCEPT ![r].guest = "aborted"]
    /\ UNCHANGED <<running, handles, precompiled>>

(* result_rx.await returns the result, or an error once the sender is gone.  *)
MutAwaitResult(r) ==
    /\ cmd[r].pc = "await" /\ cmd[r].guest = "sent"
    /\ Goto(r, "unregister")
    /\ UNCHANGED <<running, handles, precompiled>>
AwaitResult(r) ==
    /\ cmd[r].pc = "await" /\ cmd[r].guest \in {"sent", "aborted"}
    /\ Goto(r, "unregister")
    /\ UNCHANGED <<running, handles, precompiled>>

(* The waiter removes the handle too: the guest may have ended before its    *)
(* handle was registered.                                                    *)
Unregister(r) ==
    /\ cmd[r].pc = "unregister"
    /\ handles' = [handles EXCEPT ![Key(r)] = 0]
    /\ Goto(r, IF cmd[r].kind = "start" THEN "answer" ELSE "reply")
    /\ UNCHANGED <<running, precompiled>>

(* An executed start publishes its result and then frees the entry; an       *)
(* invocation and a start that failed early only publish.                    *)
Answer(r) ==
    /\ cmd[r].pc \in {"answer", "reply"}
    /\ cmd' = [cmd EXCEPT ![r].pc = IF @ = "answer" THEN "free" ELSE "done", ![r].answers = @ + 1]
    /\ UNCHANGED <<running, handles, precompiled>>

FreeEntry(r) ==
    /\ cmd[r].pc = "free"
    /\ running' = running \ {Task(r)}
    /\ Goto(r, "done")
    /\ UNCHANGED <<handles, precompiled>>

-----------------------------------------------------------------------------
(* stop_app, first lock: forget the precompiled component.                   *)
StopLatent(r) ==
    /\ At(r, "stop", "received")
    /\ precompiled' = precompiled \ {Task(r)}
    /\ cmd' = [cmd EXCEPT ![r].pc = "abort", ![r].latent = Task(r) \in precompiled]
    /\ UNCHANGED <<running, handles>>

(* stop_app, lock of tasks: abort the registered guest of the task and, if   *)
(* it was latent, of its invocations.  With nothing to stop it is an error,  *)
(* and handle_stop_command returns.                                          *)
StopTasks(r) ==
    /\ At(r, "stop", "abort")
    /\ LET own == <<"task", Task(r)>>
           victims == {k \in Keys : /\ handles[k] # 0
                                    /\ \/ k = own
                                       \/ k[1] = "inv" /\ cmd[r].latent /\ Task(k[2]) = Task(r)}
       IN  /\ handles' = [k \in Keys |-> IF k \in victims THEN 0 ELSE handles[k]]
           /\ cmd' = [q \in DOMAIN cmd |->
                        IF q = r
                          THEN [cmd[q] EXCEPT !.pc = IF cmd[r].latent \/ own \in victims
                                                       THEN "release" ELSE "done"]
                          ELSE [cmd[q] EXCEPT !.abort = @ \/ \E k \in victims : handles[k] = q]]
    /\ UNCHANGED <<running, precompiled>>

Release(r) ==
    /\ At(r, "stop", "release")
    /\ running' = running \ {Task(r)}
    /\ Goto(r, "done")
    /\ UNCHANGED <<handles, precompiled>>

-----------------------------------------------------------------------------
(* What the tokio scheduler runs for command r, besides the guest's code.    *)
Step(r) ==
    \/ RefuseStart(r) \/ AdmitStart(r) \/ FetchBinary(r) \/ StartFails(r) \/ Precompile(r)
    \/ LookUp(r) \/ Launch(r) \/ LaunchFails(r) \/ Register(r)
    \/ AwaitResult(r) \/ Unregister(r) \/ Answer(r) \/ FreeEntry(r)
    \/ StopLatent(r) \/ StopTasks(r) \/ Release(r)

Next ==
    \/ \E kind \in {"start", "stop", "invoke"}, t \in Tasks : Receive(kind, t)
    \/ \E r \in DOMAIN cmd : Step(r) \/ GuestEnds(r) \/ GuestReports(r) \/ GuestDies(r)

Spec == Init /\ [][Next]_vars

-----------------------------------------------------------------------------
(* Command r is a start that was admitted and has not given its entry up.    *)
Occupies(r) ==
    cmd[r].kind = "start" /\ cmd[r].pc \in {"fetch", "precompile", "launch", "register", "await",
                                            "unregister", "answer", "free"}

(* An entry of running_tasks, which makes the proplet ignore every later     *)
(* start of the task, is never orphaned: a start in progress, a deployed     *)
(* component or a stop that has removed it stands behind it.                 *)
EntriesOwned ==
    \A t \in running :
        \/ t \in precompiled
        \/ \E r \in DOMAIN cmd :
              /\ Task(r) = t
              /\ Occupies(r) \/ cmd[r].pc = "release" \/ (cmd[r].pc = "abort" /\ cmd[r].latent)

(* A deployed component keeps its entry, so deploying it again is ignored.   *)
DeployedReserved == precompiled \subseteq running

(* No handle outlives its command: only a daemon's may stay registered when  *)
(* no one waits for the guest, however early the guest ended.                *)
HandlesOwned ==
    \A k \in Keys : handles[k] # 0 =>
        \/ Task(handles[k]) \in Daemon
        \/ cmd[handles[k]].pc \in {"await", "unregister"}

(* A stop of task t has been through. *)
Stopped(t) == \E s \in DOMAIN cmd : cmd[s].kind = "stop" /\ Task(s) = t /\ cmd[s].pc = "done"

(* Two starts of one task are in progress at once only if a stop of the task *)
(* reached the runtime: running_tasks excludes every other overlap.          *)
OneStart ==
    \A r, q \in DOMAIN cmd :
        Occupies(r) /\ Occupies(q) /\ r # q /\ Task(r) = Task(q) => Stopped(Task(r))

(* The proplet's tables describe what it executes.                           *)
ExecutionsTracked == EntriesOwned /\ DeployedReserved /\ HandlesOwned /\ OneStart

(* A command whose guest a stop aborted still publishes a result: the waiter *)
(* learns of the abort from the closed channel.                              *)
AbortedAnswers == []<>(\A r \in DOMAIN cmd : cmd[r].abort => cmd[r].answers = 1)

(* The tokio scheduler runs every task that can go on.  Nothing makes a      *)
(* guest return.                                                             *)
FairSpec ==
    Spec /\ \A r \in 1..MaxCommands :
        WF_vars(r \in DOMAIN cmd /\ (Step(r) \/ GuestReports(r) \/ GuestDies(r)))
=============================================================================
