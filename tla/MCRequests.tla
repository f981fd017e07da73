----------------------------- MODULE MCRequests -----------------------------
(***************************************************************************)
(* Small instances of what the manager does with a request before, after   *)
(* and beside a start: storing what is submitted (Submission, DagSort),    *)
(* starting what is due (Cron), invoking what is deployed (Invoke, whose   *)
(* definitions this module extends), and stopping a job while another      *)
(* caller starts it (Jobs).  They share no state, so a behaviour runs one  *)
(* of them and leaves the others as they were initially.                   *)
(***************************************************************************)
EXTENDS Invoke

CONSTANT mqtt

VARIABLES
    instance,
    stored, jobs, submit, faults, deletes, committed, leaked, reused,
    tasks, st, result, outcome,
    now, db, pins, working, cron, api, message, updates, crashes, lastSlot, doubled, excused,
    state, pinned, thread, starter, begun, stops, busy, told, reported, orders, settled,
    overtaken, failedAt

submissionVars == <<stored, jobs, submit, faults, deletes, committed, leaked, reused>>

sortVars == <<tasks, st, result, outcome>>

cronVars ==
    <<now, db, pins, working, cron, api, message, updates, crashes, lastSlot, doubled, excused>>

jobVars ==
    <<state, pinned, thread, starter, begun, stops, busy, told, reported, orders, settled,
      overtaken, failedAt>>

allVars == <<instance, submissionVars, sortVars, cronVars, vars, jobVars>>

(* One list of alive proplets.                                              *)
OneListing == {<<1, 2>>}

T(x, d) == [id |-> x, deps |-> d]

(* A chain and its reverse, a three-task batch, a batch that names an id    *)
(* twice, and one with a cycle; two of them are jobs.                       *)
SomeBatches ==
    {[kind |-> "workflow", group |-> "w", tasks |-> <<T("a", <<"b">>), T("b", <<>>)>>],
     [kind |-> "workflow", group |-> "w", tasks |-> <<T("a", <<>>), T("b", <<"a">>)>>],
     [kind |-> "job", group |-> "j", tasks |-> <<T("b", <<>>), T("a", <<"b">>), T("c", <<"a">>)>>],
     [kind |-> "job", group |-> "j", tasks |-> <<T("c", <<>>)>>],
     [kind |-> "workflow", group |-> "w", tasks |-> <<T("a", <<>>), T("a", <<>>)>>],
     [kind |-> "workflow", group |-> "w", tasks |-> <<T("c", <<"a">>), T("a", <<"c">>)>>]}

(* CreateTask with and without dependencies, and with an id of its own that *)
(* is not the one it will be stored under.                                  *)
SomeSingles ==
    {[id |-> "", group |-> "", deps |-> <<>>],
     [id |-> "", group |-> "w", deps |-> <<"a", "b">>],
     [id |-> "a", group |-> "w", deps |-> <<"b">>]}

Submission == INSTANCE Submission
    WITH Callers <- {1, 2}, Batches <- SomeBatches, Singles <- SomeSingles, FreshIds <- {"n1"},
         Exclusive <- TRUE, MaxFaults <- 1, MaxDeletes <- 1, call <- submit

DagSort == INSTANCE DagSort WITH TaskIds <- {"a", "b", "c"}, MaxTasks <- 3, MaxDeps <- 2

(* One recurring task, in a backend whose pins are not exclusive.           *)
Cron == INSTANCE Cron
    WITH Tasks <- {1}, Priority <- <<0>>, Recurring <- {1}, ViaBatch <- {}, Period <- 2,
         ExclusivePins <- FALSE, StartMayFail <- TRUE, MaxTime <- 4, MaxUpdates <- 1,
         MaxCrashes <- 1, handler <- message

(* Two roots, a join, and a task behind one root.                           *)
Job == INSTANCE Jobs
    WITH Tasks <- 1..4, DependsOn <- <<<<>>, <<>>, <<1, 2>>, <<1>>>>, Callers <- Callers,
         MQTT <- mqtt, Modes <- {"parallel"}, MaxStarts <- 1, MaxStops <- 1, Losses <- FALSE,
         starts <- begun, working <- busy, results <- reported

RequestsInit ==
    /\ instance \in {"submission", "dag", "cron", "invoke", "job"}
    /\ Submission!Init
    /\ instance = "dag" \/ tasks = <<>>
    /\ DagSort!Init
    /\ Cron!Init
    /\ instance = "invoke" \/ compiled = {}
    /\ Init
    /\ Job!Init

RequestsNext ==
    \/ /\ instance = "submission" /\ Submission!Next
       /\ UNCHANGED <<instance, sortVars, cronVars, vars, jobVars>>
    \/ /\ instance = "dag" /\ DagSort!Next
       /\ UNCHANGED <<instance, submissionVars, cronVars, vars, jobVars>>
    \/ /\ instance = "cron" /\ Cron!Next
       /\ UNCHANGED <<instance, submissionVars, sortVars, vars, jobVars>>
    \/ /\ instance = "invoke" /\ Next
       /\ UNCHANGED <<instance, submissionVars, sortVars, cronVars, jobVars>>
    \/ /\ instance = "job" /\ Job!Next
       /\ UNCHANGED <<instance, submissionVars, sortVars, cronVars, vars>>

RequestsSpec == RequestsInit /\ [][RequestsNext]_allVars

-----------------------------------------------------------------------------
(* A submission is in the repository whole or not at all and its job record *)
(* has the tasks it was created with, unless a rollback failed or a delete  *)
(* took part of it.                                                         *)
SubmissionsAreAtomic ==
    instance = "submission" => Submission!AllOrNothing /\ Submission!JobRecordsBacked

(* Whatever concurrent submissions were accepted, the dependencies of a     *)
(* workflow's stored tasks form no cycle.                                   *)
CommittedAcyclic == instance = "submission" => Submission!CommittedAcyclic

(* ValidateDAG accepts exactly the lists without a cycle, and               *)
(* TopologicalSort emits every task of such a list after its dependencies.  *)
DagFunctionsExact ==
    instance = "dag" =>
        DagSort!ValidateDAGExact /\ DagSort!DependenciesFirst /\ DagSort!SortsValidated

(* Cron does not start a task twice for one scheduled time unless a stale   *)
(* write or a crash put that time back.                                     *)
SlotRunOnce == instance = "cron" => Cron!SlotRunOnce

(* Fail-fast with a StopJob at any moment: when the handler of a failure is *)
(* done, a task a proplet still works on was told to stop or was being      *)
(* started when the failure was listed.                                     *)
FailFast == instance = "job" => Job!FailFast
=============================================================================
