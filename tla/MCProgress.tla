----------------------------- MODULE MCProgress -----------------------------
(***************************************************************************)
(* What the manager and a proplet eventually do, on small instances:       *)
(* settling the tasks a halt interrupted (Lifecycle), trying what is due   *)
(* (Cron), answering invocations of a broadcast and of a pinned task       *)
(* (Invoke, twice), and answering for what was stopped (Proplet).  They    *)
(* share no state: a behaviour runs one of them, fairly, and leaves the    *)
(* others as they were initially.                                          *)
(***************************************************************************)
EXTENDS Naturals, Sequences

CONSTANTS None, k1, p1, c1, mqtt

VARIABLES
    instance,
    tasks, proplets, pins, issued, shuttingDown, call, calls, told, working, results, overlapped,
    phase, copies, stopped, halts,
    now, db, pins2, working2, cron, api, handler2, updates, crashes, lastSlot, doubled, excused,
    last, call3, nextInv, pending, chan, invokes, results3, starts, handler, compiled, running,
    losses, dups, restarts, owner, calls3, executed,
    last4, call4, nextInv4, pending4, chan4, invokes4, results4, starts4, handler4, compiled4,
    running4, losses4, dups4, restarts4, owner4, calls4, executed4,
    running5, handles, precompiled, cmd

lifeVars ==
    <<tasks, proplets, pins, issued, shuttingDown, call, calls, told, working, results, overlapped,
      phase, copies, stopped, halts>>

cronVars ==
    <<now, db, pins2, working2, cron, api, handler2, updates, crashes, lastSlot, doubled, excused>>

fanVars ==
    <<last, call3, nextInv, pending, chan, invokes, results3, starts, handler, compiled, running,
      losses, dups, restarts, owner, calls3, executed>>

pinnedVars ==
    <<last4, call4, nextInv4, pending4, chan4, invokes4, results4, starts4, handler4, compiled4,
      running4, losses4, dups4, restarts4, owner4, calls4, executed4>>

propletVars == <<running5, handles, precompiled, cmd>>

vars == <<instance, lifeVars, cronVars, fanVars, pinnedVars, propletVars>>

Life == INSTANCE Lifecycle
    WITH Tasks <- {k1}, Proplets <- {p1}, Callers <- {c1}, MQTT <- mqtt, Backend <- "sqlite",
         BroadcastTasks <- {}, Ops <- {"CreateTask", "StartTask", "StopTask"},
         NewStates <- {"Pending"}, StartOutcomes <- {"ok"}, StopOutcomes <- {"ok", "lost"},
         Reports <- {"Completed"}, Serial <- TRUE, MaxCalls <- 3, MaxHalts <- 3

(* A recurring task of the default priority and one of a lower priority     *)
(* that enters through CreateWorkflow.                                      *)
Cron == INSTANCE Cron
    WITH Tasks <- {1, 2}, Priority <- <<0, 10>>, Recurring <- {1}, ViaBatch <- {2}, Period <- 2,
         ExclusivePins <- TRUE, StartMayFail <- TRUE, MaxTime <- 3, MaxUpdates <- 1,
         MaxCrashes <- 0, pins <- pins2, working <- working2, handler <- handler2

Fan == INSTANCE Invoke
    WITH Proplets <- {1, 2}, Callers <- {c1}, Broadcast <- TRUE, Pin <- 1,
         Listings <- {<<1, 2>>, <<2>>}, MaxInvocations <- 2, MaxLosses <- 1, MaxDups <- 1,
         MaxRestarts <- 0, call <- call3, results <- results3, calls <- calls3

Pinned == INSTANCE Invoke
    WITH Proplets <- {1, 2}, Callers <- {c1}, Broadcast <- FALSE, Pin <- 1,
         Listings <- {<<1, 2>>, <<2>>}, MaxInvocations <- 2, MaxLosses <- 1, MaxDups <- 1,
         MaxRestarts <- 1,
         last <- last4, call <- call4, nextInv <- nextInv4, pending <- pending4, chan <- chan4,
         invokes <- invokes4, results <- results4, starts <- starts4, handler <- handler4,
         compiled <- compiled4, running <- running4, losses <- losses4, dups <- dups4,
         restarts <- restarts4, owner <- owner4, calls <- calls4, executed <- executed4

Proplet == INSTANCE Proplet
    WITH Tasks <- {"p", "d", "l"}, Latent <- {"l"}, Daemon <- {"d"}, MaxCommands <- 3,
         running <- running5

(* Bound: the commands of a behaviour are about one task.  Entries, handles *)
(* and components of different tasks never meet.                            *)
OneTask == \A r \in DOMAIN cmd : cmd[r].task = cmd[1].task

Init ==
    /\ instance \in {"life", "cron", "fan", "pinned", "proplet"}
    /\ Life!LifeInit
    /\ Cron!Init
    /\ instance = "fan" \/ compiled = {}
    /\ Fan!Init
    /\ instance = "pinned" \/ compiled4 = {}
    /\ Pinned!Init
    /\ Proplet!Init

Next ==
    \/ /\ instance = "life" /\ Life!LifeNext
       /\ UNCHANGED <<instance, cronVars, fanVars, pinnedVars, propletVars>>
    \/ /\ instance = "cron" /\ Cron!Next
       /\ UNCHANGED <<instance, lifeVars, fanVars, pinnedVars, propletVars>>
    \/ /\ instance = "fan" /\ Fan!Next
       /\ UNCHANGED <<instance, lifeVars, cronVars, pinnedVars, propletVars>>
    \/ /\ instance = "pinned" /\ Pinned!Next
       /\ UNCHANGED <<instance, lifeVars, cronVars, fanVars, propletVars>>
    \/ /\ instance = "proplet" /\ Proplet!Next /\ OneTask'
       /\ UNCHANGED <<instance, lifeVars, cronVars, fanVars, pinnedVars>>

(* The fairness of each module, for the instance that runs: main's loops    *)
(* over the tasks, the scheduler and the API calls it races with, the       *)
(* goroutines and callbacks of invocations, the proplet's start, and the    *)
(* proplet's tokio tasks.                                                   *)
Fairness ==
    /\ WF_lifeVars(instance = "life" /\ Life!ShutdownStep)
    /\ WF_lifeVars(instance = "life" /\ Life!RecoverStep)
    /\ WF_cronVars(instance = "cron" /\ Cron!CronStep)
    /\ WF_cronVars(instance = "cron" /\ Cron!ApiStep)
    /\ WF_fanVars(instance = "fan" /\ Fan!CallStep(c1))
    /\ WF_fanVars(instance = "fan" /\ Fan!HandlerSend)
    /\ WF_fanVars(instance = "fan" /\ Fan!PropletStart)
    /\ WF_pinnedVars(instance = "pinned" /\ Pinned!CallStep(c1))
    /\ WF_pinnedVars(instance = "pinned" /\ Pinned!HandlerSend)
    /\ WF_pinnedVars(instance = "pinned" /\ Pinned!PropletStart)
    /\ \A r \in 1..3 :
          WF_propletVars(/\ instance = "proplet" /\ r \in DOMAIN cmd
                         /\ Proplet!Step(r) \/ Proplet!GuestReports(r) \/ Proplet!GuestDies(r))

Spec == Init /\ [][Next]_vars /\ Fairness

-----------------------------------------------------------------------------
(* A task that a shutdown or crash left interrupted does not stay so while  *)
(* the manager is up: recovery fails it.                                    *)
InterruptedSettles == instance = "life" => Life!InterruptedSettles

(* The scheduler reaches every due task, whatever happens to the tasks      *)
(* before it in the tick, unless it is rescheduled or deleted.              *)
DueIsTried == instance = "cron" => Cron!DueIsTried

(* Every InvokeTask returns and the MQTT callback never stays blocked on    *)
(* the channel of an invocation, whatever messages are lost.                *)
InvocationsEnd ==
    /\ instance = "fan" => Fan!CallReturns /\ Fan!HandlerReturns
    /\ instance = "pinned" => Pinned!CallReturns /\ Pinned!HandlerReturns

(* When every candidate of a broadcast call has lost the compiled task, the *)
(* redeployment brings it back, unless messages are lost.                   *)
RedeployRecovers == instance = "fan" => Fan!RedeployRecovers

(* A start or an invocation whose guest a stop aborted still answers.       *)
AbortedAnswers == instance = "proplet" => Proplet!AbortedAnswers
=============================================================================
