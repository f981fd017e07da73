------------------------------ MODULE MCFlows -------------------------------
(***************************************************************************)
(* Workflows and a job small enough for TLC.  The instances share no state: *)
(* a behaviour runs one of them and leaves the others as they were          *)
(* initially.                                                               *)
(*                                                                          *)
(*   order:   two roots that 3 joins, and 4, an error handler behind the    *)
(*            join; two callers, a shutdown, vetoes and lost starts         *)
(*            (Workflow, extended: its names without a prefix);             *)
(*   settle:  3 handles errors of 1, 4 waits for 2 and for the handler, 5   *)
(*            for 4; fair threads and proplets;                             *)
(*   job:     two roots, a join, and a task behind one root, started in any *)
(*            mode and stopped; fair threads and proplets.                  *)
(***************************************************************************)
EXTENDS Workflow, TLC

CONSTANT c1   \* the caller of the job

VARIABLES
    instance,
    state2, pinned2, stack2, shuttingDown2, calls2, working2, results2, orders2, settled2,
    stranding2, undone2,
    state3, pinned3, thread, starter, starts, stops, working3, told, results3, orders3, settled3,
    overtaken, failedAt

settleVars ==
    <<state2, pinned2, stack2, shuttingDown2, calls2, working2, results2, orders2, settled2,
      stranding2, undone2>>

jobVars ==
    <<state3, pinned3, thread, starter, starts, stops, working3, told, results3, orders3, settled3,
      overtaken, failedAt>>

allVars == <<instance, vars, settleVars, jobVars>>

OrderDependsOn == <<<<>>, <<>>, <<1, 2>>, <<3>>>>

OrderRunIf == <<"success", "success", "success", "failure">>

Settle == INSTANCE Workflow
    WITH Tasks <- 1..5, DependsOn <- <<<<>>, <<>>, <<1>>, <<2, 3>>, <<4>>>>,
         RunIf <- <<"success", "success", "failure", "success", "success">>,
         ClientTasks <- {1, 2}, Vetoes <- FALSE,
         Losses <- TRUE, MayShutDown <- FALSE, ExclusivePins <- TRUE, MaxCalls <- 1,
         state <- state2, pinned <- pinned2, stack <- stack2, shuttingDown <- shuttingDown2,
         calls <- calls2, working <- working2, results <- results2, orders <- orders2,
         settled <- settled2, stranding <- stranding2, undone <- undone2

Job == INSTANCE Jobs
    WITH Tasks <- 1..4, DependsOn <- <<<<>>, <<>>, <<1, 2>>, <<1>>>>, Callers <- {c1},
         Modes <- {"parallel", "sequential", "configurable"}, MaxStarts <- 1,
         MaxStops <- 1, Losses <- TRUE,
         state <- state3, pinned <- pinned3, working <- working3, results <- results3,
         orders <- orders3, settled <- settled3

FlowsInit ==
    /\ instance \in {"order", "settle", "job"}
    /\ Init /\ Settle!Init /\ Job!Init

FlowsNext ==
    \/ instance = "order" /\ Next /\ UNCHANGED <<instance, settleVars, jobVars>>
    \/ instance = "settle" /\ Settle!Next /\ UNCHANGED <<instance, vars, jobVars>>
    \/ instance = "job" /\ Job!Next /\ UNCHANGED <<instance, vars, settleVars>>

(* Workflow!Fairness and Jobs!Fairness of the instance that runs: threads    *)
(* go on, proplets finish, the client starts every root and the job.         *)
SettleFairness ==
    /\ \A c \in Threads : WF_settleVars(instance = "settle" /\ Settle!Step(c))
    /\ \A k \in 1..5 :
          /\ WF_settleVars(/\ instance = "settle"
                           /\ \E s \in {"Completed", "Failed"} : Settle!PropletReports(k, s))
          /\ WF_settleVars(/\ instance = "settle"
                           /\ \E s \in {"Completed", "Failed"} : Settle!UpdateResultsHandler(k, s))
    /\ \A k \in {1, 2} :
          WF_settleVars(/\ instance = "settle" /\ orders2[k] = 0
                        /\ \E c \in Callers : Settle!StartTask(c, k))

JobFairness ==
    /\ \A s \in Job!Starters : WF_jobVars(instance = "job" /\ Job!StartStep(s))
    /\ \A c \in {c1, MQTT} : WF_jobVars(instance = "job" /\ Job!ThreadStep(c))
    /\ \A k \in 1..4 :
          /\ WF_jobVars(/\ instance = "job"
                        /\ \E r \in {"Completed", "Failed"} : Job!PropletReports(k, r))
          /\ WF_jobVars(/\ instance = "job"
                        /\ \E r \in {"Completed", "Failed"} : Job!UpdateResultsHandler(k, r))
    /\ WF_jobVars(/\ instance = "job" /\ starts = 0
                  /\ \E mode \in {"parallel", "sequential", "configurable"} : Job!StartJob(c1, mode))

FlowsSpec == FlowsInit /\ [][FlowsNext]_allVars /\ SettleFairness /\ JobFairness

-----------------------------------------------------------------------------
(* StartJob in its three modes, with the result handler's fail-fast and      *)
(* StopJob beside it, implements Precedence.                                 *)
JobRefinesPrecedence == Job!RefinesPrecedence

(* Every task of a workflow whose roots were started settles, or waits       *)
(* behind one that settled without waking the coordinator; and a job that is *)
(* started and not stopped ends, unless a result was overtaken by            *)
(* markTaskRunning.                                                          *)
FlowsSettle ==
    /\ instance = "settle" => Settle!SettlesOrStranded
    /\ instance = "job" => Job!JobEnds
=============================================================================
