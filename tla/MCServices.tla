----------------------------- MODULE MCServices -----------------------------
(***************************************************************************)
(* Small instances of the services beside the manager: the federated       *)
(* learning coordinator's rounds (Coordinator), the averaging (FedAvg),    *)
(* the files behind the dataset store and behind the model registry        *)
(* (FileStore, twice), the image proxy with the proplets it serves         *)
(* (ImagePull, twice), and a proplet's commands (Proplet, extended: its    *)
(* names without a prefix).  They share no state: a behaviour runs one of  *)
(* them and leaves the others as they were initially.                      *)
(***************************************************************************)
EXTENDS Integers, Sequences, Proplet

CONSTANT None

VARIABLES
    instance,
    heap, rounds, modelVersion, req, posted, toCheck, agg, registry, notified, faults, restarts,
    updates, at, lib, demo,
    mem, file, tmp, post, get, served, posts, latest, crashes,
    mem2, file2, tmp2, post2, get2, served2, posts2, latest2, crashes2,
    pushed, requests, containerChan, fetching, activeFetches, fetches, dataChan, assembly, wait,
    pulled, lastSent, failures,
    pushed2, requests2, containerChan2, fetching2, activeFetches2, fetches2, dataChan2, assembly2,
    wait2, pulled2, lastSent2, failures2

roundVars ==
    <<heap, rounds, modelVersion, req, posted, toCheck, agg, registry, notified, faults, restarts>>

avgVars == <<updates, at, lib, demo>>

dataVars == <<mem, file, tmp, post, get, served, posts, latest, crashes>>

modelVars == <<mem2, file2, tmp2, post2, get2, served2, posts2, latest2, crashes2>>

orderVars ==
    <<pushed, requests, containerChan, fetching, activeFetches, fetches, dataChan, assembly, wait,
      pulled, lastSent, failures>>

limitVars ==
    <<pushed2, requests2, containerChan2, fetching2, activeFetches2, fetches2, dataChan2,
      assembly2, wait2, pulled2, lastSent2, failures2>>

allVars ==
    <<instance, roundVars, avgVars, dataVars, modelVars, orderVars, limitVars, vars>>

Rounds == INSTANCE Coordinator
    WITH Rounds <- {"r1", "r2"}, Callers <- {"c1", "c2"}, Proplets <- {"p1", "p2"},
         Ks <- {0, 1}, DefaultKOfN <- 2, MaxPosts <- 1, MaxObjects <- 2, MaxFaults <- 0,
         MaxRestarts <- 1

NaN == -99

(* No list of weights, lists of different lengths, and one whose first      *)
(* entry is no number.                                                      *)
Avg == INSTANCE FedAvg
    WITH Bits <- 3, Samples <- {-1, 0, 1, 2, 3},
         Weights <- {<<NaN>>, <<2>>, <<1, 3>>, <<NaN, 2>>}, Biases <- {NaN, 5},
         MaxUpdates <- 3

Data == INSTANCE FileStore
    WITH DataStore <- TRUE, Keys <- {"p1", "p2"}, Seeds <- {"p1"}, Writers <- {"w1"},
         Readers <- {"g1", "g2"}, MaxPosts <- 3, MaxCrashes <- 2

Models == INSTANCE FileStore
    WITH DataStore <- FALSE, Keys <- {"v0", "v1"}, Seeds <- {"v0"}, Writers <- {"w1"},
         Readers <- {"g1", "g2"}, MaxPosts <- 3, MaxCrashes <- 1,
         mem <- mem2, file <- file2, tmp <- tmp2, post <- post2, get <- get2,
         served <- served2, posts <- posts2, latest <- latest2, crashes <- crashes2

(* One image, needed by two tasks of one proplet; later versions of it have *)
(* no layer, or another number of chunks.                                   *)
PullOrder == INSTANCE ImagePull
    WITH Apps <- {"a"}, Tasks <- {"t1", "t2"}, Proplets <- {"p"},
         Host <- [t \in {"t1", "t2"} |-> "p"], Image <- [t \in {"t1", "t2"} |-> "a"],
         Layers <- <<<<1, 3>>, <<>>, <<1>>>>, ChunkSize <- 2, ChanSize <- 1, ChunkBuffer <- 2,
         MaxFetches <- 2, MaxPending <- 1, MaxFaults <- 1, latest <- pushed, faults <- failures

(* Two images and a proxy that fetches one at a time.                       *)
PullLimit == INSTANCE ImagePull
    WITH Apps <- {"a", "b"}, Tasks <- {"t1", "t2"}, Proplets <- {"p"},
         Host <- [t \in {"t1", "t2"} |-> "p"],
         Image <- [t \in {"t1", "t2"} |-> IF t = "t1" THEN "a" ELSE "b"],
         Layers <- <<<<1, 3>>>>, ChunkSize <- 2, ChanSize <- 1, ChunkBuffer <- 2,
         MaxFetches <- 1, MaxPending <- 1, MaxFaults <- 1,
         latest <- pushed2, requests <- requests2, containerChan <- containerChan2,
         fetching <- fetching2, activeFetches <- activeFetches2, fetches <- fetches2,
         dataChan <- dataChan2, assembly <- assembly2, wait <- wait2, pulled <- pulled2,
         lastSent <- lastSent2, faults <- failures2

(* Bound: the commands of a behaviour are about one task.  Entries, handles *)
(* and components of different tasks never meet.                            *)
OneTask == \A r \in DOMAIN cmd : cmd[r].task = cmd[1].task

ServicesInit ==
    /\ instance \in {"rounds", "avg", "data", "models", "pull order", "pull limit", "proplet"}
    /\ Rounds!Init
    /\ instance = "avg" \/ updates = <<[nil |-> TRUE]>>
    /\ Avg!Init
    /\ Data!Init
    /\ Models!Init
    /\ PullOrder!Init
    /\ PullLimit!Init
    /\ Init

ServicesNext ==
    \/ /\ instance = "rounds" /\ Rounds!Next
       /\ UNCHANGED <<instance, avgVars, dataVars, modelVars, orderVars, limitVars, vars>>
    \/ /\ instance = "avg" /\ Avg!Next
       /\ UNCHANGED <<instance, roundVars, dataVars, modelVars, orderVars, limitVars, vars>>
    \/ /\ instance = "data" /\ Data!Next
       /\ UNCHANGED <<instance, roundVars, avgVars, modelVars, orderVars, limitVars, vars>>
    \/ /\ instance = "models" /\ Models!Next
       /\ UNCHANGED <<instance, roundVars, avgVars, dataVars, orderVars, limitVars, vars>>
    \/ /\ instance = "pull order" /\ PullOrder!Next
       /\ UNCHANGED <<instance, roundVars, avgVars, dataVars, modelVars, limitVars, vars>>
    \/ /\ instance = "pull limit" /\ PullLimit!Next
       /\ UNCHANGED <<instance, roundVars, avgVars, dataVars, modelVars, orderVars, vars>>
    \/ /\ instance = "proplet" /\ Next /\ OneTask'
       /\ UNCHANGED <<instance, roundVars, avgVars, dataVars, modelVars, orderVars, limitVars>>

ServicesSpec == ServicesInit /\ [][ServicesNext]_allVars

-----------------------------------------------------------------------------
(* An update is averaged into at most one model, although the k-th update,  *)
(* later updates and the ticker race to end the same round.                 *)
AveragedOnce == instance = "rounds" => Rounds!AveragedOnce

(* While the coordinator stays up a stored model is never replaced: rounds  *)
(* that end together get versions of their own.                             *)
ModelsAreImmutable == Rounds!ModelsAreImmutable

(* FedAvgAggregator returns the sums of the weighted average over all       *)
(* updates, reports an overflow exactly when a number of samples is         *)
(* negative or their total does not fit the word, and the demo's aggregator *)
(* computes the same on every input the library accepts.                    *)
FedAvgExact ==
    instance = "avg" => Avg!AggregateIsWeightedSum /\ Avg!OverflowReported /\ Avg!ServiceAgrees

(* The file stores behave like registers whatever crashes: a dataset's file *)
(* holds a value that no completed POST has superseded, a GET answers one   *)
(* that was not superseded when it began or was posted while it ran, and a  *)
(* model file is torn only while memory has the version, or after a crash.  *)
StoresAreRegular ==
    /\ instance = "data" => Data!FileIsLatest /\ Data!GetIsRegular
    /\ instance = "models" => Models!TornIsCovered

(* The proxy publishes the chunks of one fetch of an image after another,   *)
(* and what a proplet assembles is an image that was pushed, when versions  *)
(* differ in their number of chunks.                                        *)
PulledWasPushed ==
    instance = "pull order" => PullOrder!ChunksInOrder /\ PullOrder!PulledWasPushed

(* activeFetches and the names under way are those of the fetches that run, *)
(* however each of them ends.                                               *)
FetchesCounted == instance = "pull limit" => PullLimit!FetchesCounted
=============================================================================
