------------------------------ MODULE MCRounds ------------------------------
(***************************************************************************)
(* What eventually happens around the manager, on small instances: the     *)
(* rounds of a federated experiment, from the manager through the          *)
(* coordinator (Experiment), the heartbeats of a proplet (PropletTables)   *)
(* and the delivery of an image (ImagePull).  They share no state: a       *)
(* behaviour runs one of them, fairly, and leaves the others as they were  *)
(* initially.                                                              *)
(***************************************************************************)
EXTENDS Naturals, Sequences

CONSTANT None

VARIABLES
    instance,
    heap, rounds, modelVersion, req, posted, toCheck, agg, registry, notified, faults, restarts,
    calls, configured, starts, launch, tasks, dead,
    backend, rows, phase, mqtt, api, last, deletes, turn,
    latest, requests, containerChan, fetching, activeFetches, fetches, dataChan, assembly, wait,
    pulled, lastSent, faults2

roundVars ==
    <<heap, rounds, modelVersion, req, posted, toCheck, agg, registry, notified, faults, restarts,
      calls, configured, starts, launch, tasks, dead>>

managerVars == <<calls, configured, starts, launch, tasks, dead>>

beatVars == <<backend, rows, phase, mqtt, api, last, deletes, turn>>

pullVars ==
    <<latest, requests, containerChan, fetching, activeFetches, fetches, dataChan, assembly, wait,
      pulled, lastSent, faults2>>

vars == <<instance, roundVars, beatVars, pullVars>>

(* One round with two participants, one of which may be down. *)
Rounds == INSTANCE Experiment
    WITH Rounds <- {"r1"}, Callers <- {"c1"}, Proplets <- {"p1", "p2"},
         Participants <- <<"p1", "p2">>, Ks <- {2}, DefaultKOfN <- 3, MaxPosts <- 2,
         MaxObjects <- 2, MaxFaults <- 4, MaxRestarts <- 1, MaxConfigures <- 1, MaxDown <- 1

Beats == INSTANCE PropletTables
    WITH N <- 1, Backends <- {"memory", "badger", "sqlite", "postgres"}, Timeout <- 1, MaxLag <- 1,
         HistoryLimit <- 1, PageSize <- 1, MaxTasks <- 1, MaxDeletes <- 1

(* Two proplets that need the same image, of three bytes in chunks of two. *)
Tasks == {"t1", "t2"}

Host == [t \in Tasks |-> IF t = "t1" THEN "p" ELSE "q"]

Image == [t \in Tasks |-> "a"]

Layers == <<<<1, 3>>>>

Pull == INSTANCE ImagePull
    WITH Apps <- {"a"}, Proplets <- {"p", "q"},
         ChunkSize <- 2, ChanSize <- 1, ChunkBuffer <- 2, MaxFetches <- 1, MaxPending <- 1,
         MaxFaults <- 1, faults <- faults2

Init ==
    /\ instance \in {"rounds", "beats", "pull"}
    /\ instance = "rounds" \/ dead = {}
    /\ Rounds!ExperimentInit
    /\ instance = "beats" \/ (backend = "memory" /\ phase = 0)
    /\ Beats!Init
    /\ Pull!Init

Next ==
    \/ instance = "rounds" /\ Rounds!ExperimentNext
       /\ UNCHANGED <<instance, beatVars, pullVars>>
    \/ instance = "beats" /\ Beats!Next
       /\ UNCHANGED <<instance, roundVars, pullVars>>
    \/ instance = "pull" /\ Pull!Next
       /\ UNCHANGED <<instance, roundVars, beatVars>>

(* The fairness of each module, for the instance that runs.  The            *)
(* coordinator's goroutines and its ticker run and time passes; handlers and *)
(* calls end and a proplet keeps beating; the proxy's workers run and a task *)
(* whose start failed is started again.                                     *)
RoundsFairness ==
    /\ WF_roundVars(instance = "rounds" /\ Rounds!AppendUpdate("c1") /\ UNCHANGED managerVars)
    /\ \A o \in 1..2 :
          /\ WF_roundVars(/\ instance = "rounds" /\ o \in Rounds!Objects
                          /\ Rounds!TimePasses(o) \/ Rounds!CheckRound(o)
                          /\ UNCHANGED managerVars)
          /\ WF_roundVars(instance = "rounds" /\ Rounds!Advance(o) /\ UNCHANGED managerVars)
    /\ WF_roundVars(instance = "rounds" /\ Rounds!Tick /\ UNCHANGED managerVars)

PullFairness ==
    /\ WF_pullVars(instance = "pull" /\ (Pull!Handle \/ Pull!HandleTimesOut))
    /\ WF_pullVars(instance = "pull" /\ Pull!StreamHTTP)
    /\ WF_pullVars(instance = "pull" /\ Pull!StreamMQTT)
    /\ WF_pullVars(instance = "pull" /\ (Pull!FetchFromReg("a") \/ Pull!SendChunk("a")))
    /\ \A t \in Tasks :
          /\ SF_pullVars(instance = "pull" /\ Pull!Request(t))
          /\ WF_pullVars(instance = "pull" /\ (Pull!Poll(t) \/ Pull!GiveUp(t)))

Fairness ==
    /\ RoundsFairness
    /\ WF_beatVars(instance = "beats" /\ Beats!Handler)
    /\ WF_beatVars(instance = "beats" /\ Beats!ApiStep)
    /\ SF_beatVars(instance = "beats" /\ Beats!Heartbeat(1))
    /\ PullFairness

Spec == Init /\ [][Next]_vars /\ Fairness

-----------------------------------------------------------------------------
(* The coordinator's state keeps its types and its retries their limit, a   *)
(* version announced to the proplets is one the registry has stored, and    *)
(* the updates of a round configured once come from distinct participants.  *)
RoundsSound ==
    instance = "rounds" =>
        Rounds!TypeOK /\ Rounds!NotifiedIsStored /\ Rounds!DistinctParticipants

(* Every round ends, by its updates or by its timeout, and every update     *)
(* taken in reaches a stored model, unless calls fail or the coordinator    *)
(* goes down.                                                               *)
RoundsSettle == instance = "rounds" => Rounds!RoundEnds /\ Rounds!UpdatesReachModels

(* A proplet that keeps beating is listed as alive again and again.         *)
BeatingIsListed == instance = "beats" => Beats!BeatingIsListed

(* Every task gets its image in the end, through lost chunks and requests.  *)
PullSucceeds == instance = "pull" => Pull!PullSucceeds
=============================================================================
