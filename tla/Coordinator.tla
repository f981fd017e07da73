---------------------------- MODULE Coordinator ----------------------------
(***************************************************************************)
(* The coordinator of federated rounds, examples/fl-demo/coordinator-http: *)
(* a map from round ids to RoundState objects behind roundsMu, one mutex   *)
(* per object, the HTTP handlers, a ticker that ends the rounds that ran   *)
(* out of time, and one goroutine per ended round that has its updates     *)
(* aggregated and stores the result in the model registry.                 *)
(*                                                                         *)
(* heap[o] is a RoundState; rounds[r] is the object the map holds for r,   *)
(* 0 when it holds none.  An object a handler replaced in the map stays in *)
(* heap: handlers and goroutines may still hold its pointer.               *)
(***************************************************************************)
EXTENDS Naturals, Sequences, FiniteSets

CONSTANTS
    Rounds,        \* round ids
    Callers,       \* goroutines of the HTTP server that serve a request
    Proplets,      \* who trains and posts updates
    Ks,            \* the values of k_of_n an experiment may be configured with
    DefaultKOfN,   \* 3 in the code
    MaxPosts,      \* updates a proplet posts, over all rounds
    MaxObjects,    \* RoundState objects ever allocated
    MaxFaults,     \* failed calls of the aggregator and the registry
    MaxRestarts    \* restarts of the coordinator

VARIABLES
    heap, rounds, modelVersion,
    req,           \* the request each caller is in the middle of
    posted,        \* how many updates each proplet has posted
    toCheck,       \* the objects the ticker's current pass still has to look at
    agg,           \* the aggregateAndAdvance goroutines, in the order they started
    registry,      \* what the model registry has stored: version -> updates averaged
    notified,      \* versions announced on fl/rounds/next
    faults, restarts

serverVars == <<heap, rounds, modelVersion, req, toCheck, agg>>
vars == <<serverVars, posted, registry, notified, faults, restarts>>

MaxRetries == 3
Objects == DOMAIN heap
Idle == [pc |-> "idle"]
Versions == DOMAIN registry
Updates(o) == {heap[o].updates[i] : i \in DOMAIN heap[o].updates}

Update == [round : Rounds, proplet : Proplets, nr : 1..MaxPosts]

TypeOK ==
    /\ \A o \in Objects : /\ heap[o].round \in Rounds
                          /\ heap[o].kOfN \in Ks \cup {DefaultKOfN}
                          /\ Updates(o) \subseteq Update
                          /\ heap[o].completed \in BOOLEAN
                          /\ heap[o].expired \in BOOLEAN
    /\ rounds \in [Rounds -> 0..Len(heap)]
    /\ \A c \in Callers : req[c].pc \in {"idle", "create", "append"}
    /\ toCheck \subseteq Objects
    /\ \A i \in DOMAIN agg : /\ agg[i].pc \in {"aggregate", "store", "publish", "done", "failed"}
                             /\ agg[i].tries \in 0..MaxRetries
    /\ 0 \in Versions
    /\ notified \subseteq Nat

Init ==
    /\ heap = <<>>
    /\ rounds = [r \in Rounds |-> 0]
    /\ modelVersion = 0
    /\ req = [c \in Callers |-> Idle]
    /\ posted = [p \in Proplets |-> 0]
    /\ toCheck = {}
    /\ agg = <<>>
    /\ registry = [v \in {0} |-> {}]
    /\ notified = {}
    /\ faults = 0
    /\ restarts = 0

-----------------------------------------------------------------------------
(* RoundState literals: a new round has no updates and is not completed.   *)
NewRound(r, k) ==
    [round |-> r, kOfN |-> k, updates |-> <<>>, completed |-> FALSE, expired |-> FALSE]

(* rounds[r] = &RoundState{...}, whatever the map held for r.              *)
Install(r, k) ==
    /\ Len(heap) < MaxObjects
    /\ heap' = Append(heap, NewRound(r, k))
    /\ rounds' = [rounds EXCEPT ![r] = Len(heap) + 1]

(* postExperimentHandler: defaults, a look at the registry whose outcome   *)
(* is only logged, and the new round, which replaces the one of that id.   *)
PostExperiment(r, k) ==
    /\ Install(r, IF k = 0 THEN DefaultKOfN ELSE k)
    /\ UNCHANGED <<modelVersion, req, toCheck, agg, posted, registry, notified, faults, restarts>>

(* getTaskHandler up to the release of the read lock: it answers with the  *)
(* round found, or goes on to make one.                                    *)
GetTask(c, r) ==
    /\ req[c] = Idle
    /\ rounds[r] = 0
    /\ req' = [req EXCEPT ![c] = [pc |-> "create", round |-> r]]
    /\ UNCHANGED <<heap, rounds, modelVersion, toCheck, agg, posted, registry, notified,
                   faults, restarts>>

(* getTaskHandler under the write lock: it does not look again.            *)
GetTaskCreate(c) ==
    /\ req[c].pc = "create"
    /\ Install(req[c].round, DefaultKOfN)
    /\ req' = [req EXCEPT ![c] = Idle]
    /\ UNCHANGED <<modelVersion, toCheck, agg, posted, registry, notified, faults, restarts>>

(* processUpdate under roundsMu: find the round, or make one.              *)
PostUpdate(c, p, r) ==
    /\ req[c] = Idle
    /\ posted[p] < MaxPosts
    /\ posted' = [posted EXCEPT ![p] = @ + 1]
    /\ IF rounds[r] = 0 THEN Install(r, DefaultKOfN) ELSE UNCHANGED <<heap, rounds>>
    /\ req' = [req EXCEPT ![c] = [pc |-> "append", obj |-> rounds'[r],
                                  update |-> [round |-> r, proplet |-> p, nr |-> posted'[p]]]]
    /\ UNCHANGED <<modelVersion, toCheck, agg, registry, notified, faults, restarts>>

(* go aggregateAndAdvance(round) *)
Goroutine(o) == [obj |-> o, pc |-> "aggregate", tries |-> 0, version |-> 0]

(* processUpdate under the round's mutex: a completed round ignores the    *)
(* update, which is answered "accepted" all the same; the k-th one ends it.*)
MutAppendUpdate(c) ==
    /\ req[c].pc = "append"
    /\ LET o == req[c].obj
           ups == Append(heap[o].updates, req[c].update)
           full == Len(ups) >= heap[o].kOfN IN
         /\ heap' = [heap EXCEPT ![o].updates = ups, ![o].completed = @ \/ full]
         /\ agg' = IF full THEN Append(agg, Goroutine(o)) ELSE agg
    /\ req' = [req EXCEPT ![c] = Idle]
    /\ UNCHANGED <<rounds, modelVersion, toCheck, posted, registry, notified, faults, restarts>>

AppendUpdate(c) ==
    /\ req[c].pc = "append"
    /\ LET o == req[c].obj
           ups == Append(heap[o].updates, req[c].update)
           full == Len(ups) >= heap[o].kOfN IN
         IF heap[o].completed
         THEN UNCHANGED <<heap, agg>>
         ELSE /\ heap' = [heap EXCEPT ![o].updates = ups, ![o].completed = full]
              /\ agg' = IF full THEN Append(agg, Goroutine(o)) ELSE agg
    /\ req' = [req EXCEPT ![c] = Idle]
    /\ UNCHANGED <<rounds, modelVersion, toCheck, posted, registry, notified, faults, restarts>>

-----------------------------------------------------------------------------
(* TimeoutS seconds have passed since the object's StartTime.              *)
TimePasses(o) ==
    /\ ~heap[o].expired
    /\ heap' = [heap EXCEPT ![o].expired = TRUE]
    /\ UNCHANGED <<rounds, modelVersion, req, toCheck, agg, posted, registry, notified,
                   faults, restarts>>

(* checkRoundTimeouts, one tick: now is taken and the objects of the map   *)
(* are collected under the read lock.  An object that had not run out of   *)
(* time at the tick is passed over by the comparison with now.             *)
Tick ==
    /\ toCheck = {}
    /\ toCheck' = {o \in {rounds[r] : r \in Rounds} \ {0} : heap[o].expired /\ ~heap[o].completed}
    /\ toCheck' # {}
    /\ UNCHANGED <<heap, rounds, modelVersion, req, agg, posted, registry, notified,
                   faults, restarts>>

(* checkRoundTimeouts, one object, under its mutex.                        *)
MutCheckRound(o) ==
    /\ o \in toCheck
    /\ toCheck' = toCheck \ {o}
    /\ heap' = [heap EXCEPT ![o].completed = TRUE]
    /\ agg' = IF ~heap[o].completed /\ Len(heap[o].updates) > 1
              THEN Append(agg, Goroutine(o)) ELSE agg
    /\ UNCHANGED <<rounds, modelVersion, req, posted, registry, notified, faults, restarts>>

CheckRound(o) ==
    /\ o \in toCheck
    /\ toCheck' = toCheck \ {o}
    /\ heap' = [heap EXCEPT ![o].completed = TRUE]
    /\ agg' = IF ~heap[o].completed /\ heap[o].updates # <<>>
              THEN Append(agg, Goroutine(o)) ELSE agg
    /\ UNCHANGED <<rounds, modelVersion, req, posted, registry, notified, faults, restarts>>

-----------------------------------------------------------------------------
(* aggregateAndAdvance.  retryWithBackoff makes MaxRetries attempts; the   *)
(* next stage starts with its own count.                                   *)
Running(i, pc) == i \in DOMAIN agg /\ agg[i].pc = pc

(* A failed attempt of stage pc, the last of which ends the goroutine.     *)
AttemptFails(i, pc) ==
    /\ Running(i, pc)
    /\ faults < MaxFaults
    /\ faults' = faults + 1
    /\ agg' = [agg EXCEPT ![i].tries = @ + 1,
                          ![i].pc = IF agg[i].tries + 1 = MaxRetries THEN "failed" ELSE pc]

(* The aggregator answers: modelVersion++ under modelMu gives the version. *)
MutAggregate(i) ==
    /\ Running(i, "aggregate")
    /\ modelVersion' = modelVersion + 1
    /\ agg' = [agg EXCEPT ![i].pc = "store", ![i].tries = 0, ![i].version = modelVersion]
    /\ UNCHANGED <<heap, rounds, req, toCheck, posted, registry, notified, faults, restarts>>

Aggregate(i) ==
    /\ Running(i, "aggregate")
    /\ modelVersion' = modelVersion + 1
    /\ agg' = [agg EXCEPT ![i].pc = "store", ![i].tries = 0, ![i].version = modelVersion']
    /\ UNCHANGED <<heap, rounds, req, toCheck, posted, registry, notified, faults, restarts>>

AggregateFails(i) ==
    /\ AttemptFails(i, "aggregate")
    /\ UNCHANGED <<heap, rounds, modelVersion, req, toCheck, posted, registry, notified, restarts>>

(* postModelHandler of the registry: the version is written, or rewritten. *)
Stored(i) ==
    [v \in Versions \cup {agg[i].version} |->
        IF v = agg[i].version THEN Updates(agg[i].obj) ELSE registry[v]]

Store(i) ==
    /\ Running(i, "store")
    /\ registry' = Stored(i)
    /\ agg' = [agg EXCEPT ![i].pc = "publish"]
    /\ UNCHANGED <<heap, rounds, modelVersion, req, toCheck, posted, notified, faults, restarts>>

(* The registry does not get the request, or its answer does not get back. *)
StoreFails(i) ==
    /\ AttemptFails(i, "store")
    /\ registry' \in {registry, Stored(i)}
    /\ UNCHANGED <<heap, rounds, modelVersion, req, toCheck, posted, notified, restarts>>

(* The notification, which is skipped when MQTT is not connected.          *)
Publish(i) ==
    /\ Running(i, "publish")
    /\ agg' = [agg EXCEPT ![i].pc = "done"]
    /\ notified' \in {notified, notified \cup {agg[i].version}}
    /\ UNCHANGED <<heap, rounds, modelVersion, req, toCheck, posted, registry, faults, restarts>>

(* The process ends and is started again: all of its state is in memory.   *)
Restart ==
    /\ restarts < MaxRestarts
    /\ restarts' = restarts + 1
    /\ rounds' = [r \in Rounds |-> 0]
    /\ modelVersion' = 0
    /\ req' = [c \in Callers |-> Idle]
    /\ toCheck' = {}
    /\ agg' = <<>>
    /\ UNCHANGED <<heap, posted, registry, notified, faults>>

Advance(i) == Aggregate(i) \/ AggregateFails(i) \/ Store(i) \/ StoreFails(i) \/ Publish(i)

Next ==
    \/ \E r \in Rounds, k \in Ks : PostExperiment(r, k)
    \/ \E c \in Callers : \/ \E r \in Rounds : GetTask(c, r)
                          \/ GetTaskCreate(c)
                          \/ \E p \in Proplets, r \in Rounds : PostUpdate(c, p, r)
                          \/ AppendUpdate(c)
    \/ \E o \in Objects : TimePasses(o) \/ CheckRound(o)
    \/ Tick
    \/ \E i \in DOMAIN agg : Advance(i)
    \/ Restart

Spec == Init /\ [][Next]_vars

(* The handlers and goroutines run on, the ticker ticks and time passes.   *)
FairSpec ==
    /\ Spec
    /\ \A c \in Callers : WF_vars(AppendUpdate(c))
    /\ \A o \in 1..MaxObjects : WF_vars(o \in Objects /\ (TimePasses(o) \/ CheckRound(o)))
    /\ WF_vars(Tick)
    /\ \A i \in 1..MaxObjects : WF_vars(Advance(i))

-----------------------------------------------------------------------------
(* PROPERTIES *)

(* An update is averaged into at most one model: the k-th update of a      *)
(* round, updates that arrive after it, and the ticker's pass race to end  *)
(* the same RoundState, and only one of them may have it aggregated.       *)
AveragedOnce ==
    \A v, w \in Versions : v # w => registry[v] \cap registry[w] = {}

(* While the coordinator stays up, a stored model is never replaced by     *)
(* another: rounds that end together get versions of their own, although   *)
(* modelVersion is raised long before the model is stored.                 *)
ModelsAreImmutable ==
    [][restarts = 0 => \A v \in Versions : registry'[v] = registry[v]]_vars

(* A version announced on fl/rounds/next can be fetched from the registry: *)
(* aggregateAndAdvance returns before the notification when storing fails. *)
NotifiedIsStored == notified \subseteq Versions

(* Where an update that a round took in may end instead of in a model.     *)
Excused(o) ==
    \/ restarts > 0
    \/ o \in Objects /\ rounds[heap[o].round] # o /\ ~heap[o].completed
    \/ \E i \in DOMAIN agg : agg[i].obj = o /\ agg[i].pc = "failed"

(* Every update that a round took in ends in a stored model, whether the   *)
(* k-th update or the timeout ends the round (again and again, nothing is  *)
(* left to do), unless three attempts to aggregate or to store failed, the *)
(* coordinator went down, or a handler had replaced the round in the map   *)
(* before it ended.                                                        *)
UpdatesReachModels ==
    []<>(\A o \in Objects :
           Updates(o) \subseteq UNION {registry[v] : v \in Versions} \/ Excused(o))
=============================================================================
