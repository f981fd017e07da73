----------------------------- MODULE Experiment -----------------------------
(***************************************************************************)
(* A federated experiment end to end: the manager configures the round at  *)
(* the coordinator and announces it on fl/rounds/start, its own handler of *)
(* that topic creates and starts one task per participant, the proplets    *)
(* run the tasks and post what they trained, and the coordinator (module   *)
(* Coordinator) collects, aggregates and stores.                           *)
(***************************************************************************)
EXTENDS Coordinator

CONSTANTS
    Participants,   \* sequence of proplets, as the experiment lists them
    MaxConfigures,  \* calls of ConfigureExperiment for one round
    MaxDown         \* participants that are not alive when the round starts

VARIABLES
    calls,          \* ConfigureExperiment calls that have yet to publish, by round
    configured,     \* how often each round was configured at the coordinator
    starts,         \* the fl/rounds/start messages on their way, by round
    launch,         \* processRoundStart goroutines: round and participants left
    tasks,          \* tasks created for a participant, in order
    dead            \* participants the manager takes for not alive

managerVars == <<calls, configured, starts, launch, tasks, dead>>
allVars == <<vars, managerVars>>

ExperimentInit ==
    /\ Init
    /\ calls = [r \in Rounds |-> 0]
    /\ configured = [r \in Rounds |-> 0]
    /\ starts = [r \in Rounds |-> 0]
    /\ launch = <<>>
    /\ tasks = <<>>
    /\ dead \in {S \in SUBSET Proplets : Cardinality(S) <= MaxDown}

-----------------------------------------------------------------------------
(* ConfigureExperiment up to the coordinator's answer.  A call that fails  *)
(* there returns an error and has changed nothing.                         *)
ConfigureExperiment(r, k) ==
    /\ configured[r] < MaxConfigures
    /\ Participants # <<>>
    /\ PostExperiment(r, k)
    /\ configured' = [configured EXCEPT ![r] = @ + 1]
    /\ calls' = [calls EXCEPT ![r] = @ + 1]
    /\ UNCHANGED <<starts, launch, tasks, dead>>

(* ConfigureExperiment from there on: the round start is published, or     *)
(* that fails and the failure is only logged.                              *)
PublishRoundStart(r) ==
    /\ calls[r] > 0
    /\ calls' = [calls EXCEPT ![r] = @ - 1]
    /\ starts' \in {starts, [starts EXCEPT ![r] = @ + 1]}
    /\ UNCHANGED <<vars, configured, launch, tasks, dead>>

(* handleRoundStart and processRoundStart up to the loop.                  *)
ProcessRoundStart(r) ==
    /\ starts[r] > 0
    /\ starts' = [starts EXCEPT ![r] = @ - 1]
    /\ launch' = Append(launch, [round |-> r, left |-> Participants])
    /\ UNCHANGED <<vars, calls, configured, tasks, dead>>

(* isPropletAvailable *)
Available(p) == p \notin dead

(* createRoundTask *)
RoundTask(r, p, s) == [round |-> r, proplet |-> p, state |-> s]

(* One turn of launchTasksForParticipants: an unavailable participant is   *)
(* skipped; CreateTask fails, or StartTask fails before it has published   *)
(* and leaves the task pending, or the participant is told to run it.      *)
MutLaunchNext(g) ==
    /\ launch[g].left # <<>>
    /\ Len(tasks) < MaxPosts * Len(Participants)
    /\ LET p == Head(launch[g].left) IN
       IF Available(p)
       THEN tasks' \in {tasks} \cup {Append(tasks, RoundTask(launch[g].round, p, s)) :
                                        s \in {"pending", "running"}}
       ELSE UNCHANGED tasks
    /\ launch' \in {launch, [launch EXCEPT ![g].left = Tail(@)]}
    /\ UNCHANGED <<vars, calls, configured, starts, dead>>

LaunchNext(g) ==
    /\ launch[g].left # <<>>
    /\ LET p == Head(launch[g].left) IN
       IF Available(p)
       THEN tasks' \in {tasks} \cup {Append(tasks, RoundTask(launch[g].round, p, s)) :
                                        s \in {"pending", "running"}}
       ELSE UNCHANGED tasks
    /\ launch' = [launch EXCEPT ![g].left = Tail(@)]
    /\ UNCHANGED <<vars, calls, configured, starts, dead>>

(* roundCtx ends (five minutes, or the manager's shutdown): the loop       *)
(* returns at its next turn.                                               *)
RoundContextEnds(g) ==
    /\ launch[g].left # <<>>
    /\ launch' = [launch EXCEPT ![g].left = <<>>]
    /\ UNCHANGED <<vars, calls, configured, starts, tasks, dead>>

(* The proplet has run the task: it posts the update to the coordinator,   *)
(* through the manager's PostFLUpdate or directly.                         *)
PostFLUpdate(c, i) ==
    /\ tasks[i].state = "running"
    /\ PostUpdate(c, tasks[i].proplet, tasks[i].round)
    /\ tasks' = [tasks EXCEPT ![i].state = "completed"]
    /\ UNCHANGED <<calls, configured, starts, launch, dead>>

(* The training fails, or the post does: the update goes to an MQTT topic  *)
(* that the coordinator does not read.                                     *)
UpdateLost(i) ==
    /\ tasks[i].state = "running"
    /\ tasks' = [tasks EXCEPT ![i].state = "failed"]
    /\ UNCHANGED <<vars, calls, configured, starts, launch, dead>>

(* GetFLTask: the request is passed on to the coordinator.                 *)
GetFLTask(c, r) == GetTask(c, r) /\ UNCHANGED managerVars

-----------------------------------------------------------------------------
CoordinatorStep ==
    /\ \/ \E c \in Callers : GetTaskCreate(c) \/ AppendUpdate(c)
       \/ \E o \in Objects : TimePasses(o) \/ CheckRound(o)
       \/ Tick
       \/ \E i \in DOMAIN agg : Advance(i)
       \/ Restart
    /\ UNCHANGED managerVars

ExperimentNext ==
    \/ \E r \in Rounds : \/ \E k \in Ks : ConfigureExperiment(r, k)
                         \/ PublishRoundStart(r)
                         \/ ProcessRoundStart(r)
    \/ \E g \in DOMAIN launch : LaunchNext(g) \/ RoundContextEnds(g)
    \/ \E i \in DOMAIN tasks : UpdateLost(i) \/ \E c \in Callers : PostFLUpdate(c, i)
    \/ \E c \in Callers, r \in Rounds : GetFLTask(c, r)
    \/ CoordinatorStep

ExperimentSpec == ExperimentInit /\ [][ExperimentNext]_allVars

(* As in Coordinator: its handlers and goroutines, its ticker and its      *)
(* clock run on.                                                           *)
ExperimentFairSpec ==
    /\ ExperimentSpec
    /\ \A c \in Callers : WF_allVars(AppendUpdate(c) /\ UNCHANGED managerVars)
    /\ \A o \in 1..MaxObjects :
          WF_allVars(o \in Objects /\ (TimePasses(o) \/ CheckRound(o)) /\ UNCHANGED managerVars)
    /\ WF_allVars(Tick /\ UNCHANGED managerVars)
    /\ \A i \in 1..MaxObjects : WF_allVars(Advance(i) /\ UNCHANGED managerVars)

-----------------------------------------------------------------------------
(* PROPERTIES *)

(* Every round that is configured ends (again and again, none is open),    *)
(* whatever becomes of its announcement, its participants and their        *)
(* updates: the coordinator's timeout ends a round nobody posted to.       *)
RoundEnds ==
    []<>(\A o \in Objects : heap[o].completed \/ rounds[heap[o].round] # o)

(* As long as a round is configured once, the updates an object collects   *)
(* come from distinct participants: the round start is announced once, the *)
(* loop launches each participant once, and a task posts once.             *)
DistinctParticipants ==
    \A o \in Objects : configured[heap[o].round] <= 1 =>
        Cardinality({u.proplet : u \in Updates(o)}) = Len(heap[o].updates)
=============================================================================
