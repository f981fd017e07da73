--------------------------- MODULE PropletTables ---------------------------
(***************************************************************************)
(* The proplet repositories and what keeps them up to date: the manager's  *)
(* discovery and liveness handlers, which append heartbeats, and the calls *)
(* that list the proplets that are alive, pick one with the round robin    *)
(* and write the picked copy back with another task count.                 *)
(*                                                                         *)
(* Time is kept as ages, in half seconds: `history` holds the age of each  *)
(* heartbeat and `phase` the half of the second the clock is in, which is  *)
(* all that sqlite's comparison of whole seconds depends on.  An age stops *)
(* growing at MaxAge, beyond every age a comparison tells apart.           *)
(***************************************************************************)
EXTENDS Naturals, Sequences, SequencesExt, FiniteSets

CONSTANTS
    N,            \* proplets are 1..N, in the order of their ids
    None,         \* no record
    Backends,     \* MANAGER_STORAGE_TYPE, any of these
    Timeout,      \* AliveTimeout, in half seconds
    MaxLag,       \* bound: how long a listing takes, in half seconds
    HistoryLimit, \* aliveHistoryLimit
    PageSize,     \* pageSize of listAllActiveProplets
    MaxTasks,     \* bound: TaskCount
    MaxDeletes    \* bound: DeleteProplet calls

Proplets == 1..N

MaxAge == Timeout + MaxLag + 2

VARIABLES
    backend,   \* the storage the manager was started with
    rows,      \* proplet -> its stored record
    phase,     \* 0 or 1: the half of the current second
    mqtt,      \* the message handler running, one message at a time
    api,       \* the API call running
    last,      \* roundRobin.LastProplet
    deletes,   \* DeleteProplet calls so far
    turn       \* history: the picks since the candidates last changed

vars == <<backend, rows, phase, mqtt, api, last, deletes, turn>>

(* Proplet: TaskCount, the Alive flag as last written, and AliveHistory,    *)
(* whose absence (nil) is the empty sequence.                               *)
Row == [count : 0..MaxTasks, alive : BOOLEAN, history : UNION {[1..n -> 0..MaxAge] : n \in 0..HistoryLimit}]

Stored == {p \in Proplets : rows[p] # None}

NoCall == [pc |-> "idle", p |-> None, copy |-> None, since |-> None, all |-> <<>>]

-----------------------------------------------------------------------------
(* propletRepo: Create fails on a record that exists, but badger overwrites *)
(* it; Update of a missing record fails or does nothing, but badger inserts.*)

Created(p, row) == IF rows[p] # None /\ backend # "badger" THEN rows ELSE [rows EXCEPT ![p] = row]

Updated(p, row) == IF rows[p] = None /\ backend # "badger" THEN rows ELSE [rows EXCEPT ![p] = row]

(* SetAlive *)
SetAlive(row) == [row EXCEPT !.alive = row.history # <<>> /\ Last(row.history) <= Timeout]

(* The liveness tests of ListByAlive, against a moment `since` half seconds *)
(* ago: exact in memory, badger and postgres, in whole seconds in sqlite.   *)
MemoryAlive(row, since) == row.history # <<>> /\ Last(row.history) <= since

BadgerAlive(row, since) == row.history # <<>> /\ Last(row.history) <= since

Second(age) == (phase + 2 * MaxAge - age) \div 2

SqliteAlive(row, since) == row.history # <<>> /\ Second(Last(row.history)) >= Second(since)

(* The other WHERE clause, for the inactive ones. *)
SqliteInactive(row, since) == row.history = <<>> \/ Second(Last(row.history)) < Second(since)

PostgresAlive(row, since) == row.history # <<>> /\ Last(row.history) <= since

PostgresInactive(row, since) == row.history = <<>> \/ Last(row.history) > since

(* A nil history is stored as the JSON value null, which is not the SQL     *)
(* NULL the clauses test for, and jsonb_array_length fails on it: the whole *)
(* query fails.                                                             *)
ListErr == backend = "postgres" /\ \E p \in Stored : rows[p].history = <<>>

Selected(alive, since) ==
    {p \in Stored :
        CASE backend = "memory" -> MemoryAlive(rows[p], since) = alive
          [] backend = "badger" -> BadgerAlive(rows[p], since) = alive
          [] backend = "sqlite" ->
                IF alive THEN SqliteAlive(rows[p], since) ELSE SqliteInactive(rows[p], since)
          [] backend = "postgres" ->
                IF alive THEN PostgresAlive(rows[p], since) ELSE PostgresInactive(rows[p], since)}

(* The orders a listing may have: by id in memory and badger, as the SQL    *)
(* engine returns the rows otherwise.                                       *)
Orders(S) ==
    IF backend \in {"memory", "badger"}
    THEN {SetToSortSeq(S, LAMBDA a, b : a < b)}
    ELSE SetToSeqs(S)

-----------------------------------------------------------------------------
Init ==
    /\ backend \in Backends
    /\ rows = [p \in Proplets |-> None]
    /\ phase \in {0, 1}
    /\ mqtt = NoCall
    /\ api = NoCall
    /\ last = 0
    /\ deletes = 0
    /\ turn = [ids |-> <<>>, picks |-> <<>>]

Older(age) == IF age < MaxAge THEN age + 1 ELSE age

Aged(row) ==
    IF row = None THEN None ELSE [row EXCEPT !.history = [i \in DOMAIN @ |-> Older(@[i])]]

(* Half a second passes. *)
TimePasses ==
    /\ api.since # None => api.since < Timeout + MaxLag
    /\ phase' = 1 - phase
    /\ rows' = [p \in Proplets |-> Aged(rows[p])]
    /\ mqtt' = [mqtt EXCEPT !.copy = Aged(@)]
    /\ api' = [api EXCEPT !.copy = Aged(@),
                          !.since = IF @ = None THEN None ELSE @ + 1,
                          !.all = [i \in DOMAIN @ |-> [p |-> @[i].p, row |-> Aged(@[i].row)]]]
    /\ UNCHANGED <<backend, last, deletes, turn>>

(* updateLivenessHandler: GetProplet; a proplet not known goes to           *)
(* createPropletHandler, which looks again.                                 *)
Heartbeat(p) ==
    /\ mqtt = NoCall
    /\ mqtt' = [NoCall EXCEPT !.pc = IF rows[p] = None THEN "discover" ELSE "beat",
                              !.p = p,
                              !.copy = IF rows[p] = None THEN None ELSE SetAlive(rows[p])]
    /\ UNCHANGED <<backend, rows, phase, api, last, deletes, turn>>

(* Mutant: the limit keeps the oldest heartbeats. *)
MutBeat(row) ==
    LET h == Append(row.history, 0)
    IN  [row EXCEPT !.alive = TRUE,
                    !.history = IF Len(h) > HistoryLimit THEN SubSeq(h, 1, HistoryLimit) ELSE h]

(* The heartbeat appended, and the history cut to its limit. *)
Beat(row) ==
    LET h == Append(row.history, 0)
    IN  [row EXCEPT !.alive = TRUE,
                    !.history = IF Len(h) > HistoryLimit
                                THEN SubSeq(h, Len(h) - HistoryLimit + 1, Len(h)) ELSE h]

HeartbeatWrite ==
    /\ mqtt.pc = "beat"
    /\ rows' = Updated(mqtt.p, Beat(mqtt.copy))
    /\ mqtt' = NoCall
    /\ UNCHANGED <<backend, phase, api, last, deletes, turn>>

(* A discovery message starts createPropletHandler. *)
Discovery(p) ==
    /\ mqtt = NoCall
    /\ mqtt' = [NoCall EXCEPT !.pc = "discover", !.p = p]
    /\ UNCHANGED <<backend, rows, phase, api, last, deletes, turn>>

(* createPropletHandler: GetProplet, which decides between refreshing the   *)
(* metadata of the copy and creating the record.                            *)
DiscoverGet ==
    /\ mqtt.pc = "discover"
    /\ mqtt' = IF rows[mqtt.p] = None
               THEN [mqtt EXCEPT !.pc = "create"]
               ELSE [mqtt EXCEPT !.pc = "refresh", !.copy = SetAlive(rows[mqtt.p])]
    /\ UNCHANGED <<backend, rows, phase, api, last, deletes, turn>>

DiscoverWrite ==
    /\ mqtt.pc \in {"create", "refresh"}
    /\ rows' = IF mqtt.pc = "create"
               THEN Created(mqtt.p, [count |-> 0, alive |-> FALSE, history |-> <<>>])
               ELSE Updated(mqtt.p, mqtt.copy)
    /\ mqtt' = NoCall
    /\ UNCHANGED <<backend, phase, api, last, deletes, turn>>

-----------------------------------------------------------------------------
(* StartTask of a task that names no proplet: listAllActiveProplets takes   *)
(* its moment.                                                              *)
StartTask ==
    /\ api = NoCall
    /\ api' = [NoCall EXCEPT !.pc = "list", !.since = Timeout]
    /\ UNCHANGED <<backend, rows, phase, mqtt, last, deletes, turn>>

(* Mutant: the copies of a page keep the stored flag. *)
MutListed(p) == [p |-> p, row |-> rows[p]]

(* A copy of the page, with its flag set by SetAlive. *)
Listed(p) == [p |-> p, row |-> SetAlive(rows[p])]

(* One page of the loop, until the offset reaches the total or a page is    *)
(* empty; a query that fails ends the call.                                 *)
ListPage ==
    /\ api.pc = "list"
    /\ IF ListErr
       THEN api' = NoCall
       ELSE \E order \in Orders(Selected(TRUE, api.since)) :
              LET from == Len(api.all)
                  upto == IF from + PageSize < Len(order) THEN from + PageSize ELSE Len(order)
                  page == [i \in 1..(IF from < upto THEN upto - from ELSE 0) |-> Listed(order[from + i])]
              IN  api' = [api EXCEPT !.all = @ \o page,
                                     !.pc = IF from + Len(page) >= Len(order) \/ page = <<>>
                                            THEN "select" ELSE "list"]
    /\ UNCHANGED <<backend, rows, phase, mqtt, last, deletes, turn>>

(* roundRobin.SelectProplet: from the place after the last pick, the first  *)
(* candidate alive; 0 when there is none.                                   *)
RoundRobin(candidates) ==
    LET n     == Len(candidates)
        alive == {k \in 1..n : candidates[((last + k) % n) + 1].row.alive}
    IN  IF alive = {} THEN 0
        ELSE ((last + (CHOOSE k \in alive : \A j \in alive : k <= j)) % n) + 1

(* LastProplet, which counts from zero. *)
Place(i) == i - 1

(* The history: picks of the current run over the same candidates, all      *)
(* alive, at most one round of them.                                        *)
Turn(candidates, i) ==
    LET ids  == [j \in DOMAIN candidates |-> candidates[j].p]
        same == turn.ids = ids /\ Len(turn.picks) < Len(ids)
                /\ \A j \in DOMAIN candidates : candidates[j].row.alive
    IN  [ids |-> ids, picks |-> (IF same THEN turn.picks ELSE <<>>) \o <<ids[i]>>]

Select ==
    /\ api.pc = "select"
    /\ LET i == RoundRobin(api.all) IN
       IF i = 0
       THEN api' = NoCall /\ UNCHANGED <<last, turn>>
       ELSE /\ api' = [api EXCEPT !.pc = "picked", !.p = api.all[i].p, !.copy = api.all[i].row, !.all = <<>>]
            /\ last' = Place(i)
            /\ turn' = Turn(api.all, i)
    /\ UNCHANGED <<backend, rows, phase, mqtt, deletes>>

(* StartTask of a task that names its proplet: GetProplet and its flag. *)
StartPinned(p) ==
    /\ api = NoCall
    /\ rows[p] # None
    /\ SetAlive(rows[p]).alive
    /\ api' = [NoCall EXCEPT !.pc = "picked", !.p = p, !.copy = SetAlive(rows[p]), !.since = Timeout]
    /\ UNCHANGED <<backend, rows, phase, mqtt, last, deletes, turn>>

(* bumpPropletTaskCount(+1) with the copy that was picked; the count stops  *)
(* at its bound.                                                            *)
Bump ==
    /\ api.pc = "picked"
    /\ rows' = Updated(api.p, [api.copy EXCEPT !.count = IF @ < MaxTasks THEN @ + 1 ELSE @])
    /\ api' = NoCall
    /\ UNCHANGED <<backend, phase, mqtt, last, deletes, turn>>

(* StopTask: GetProplet, then bumpPropletTaskCount(-1) with that copy. *)
StopTask(p) ==
    /\ api = NoCall
    /\ rows[p] # None
    /\ api' = [NoCall EXCEPT !.pc = "stop", !.p = p, !.copy = SetAlive(rows[p])]
    /\ UNCHANGED <<backend, rows, phase, mqtt, last, deletes, turn>>

Release ==
    /\ api.pc = "stop"
    /\ rows' = Updated(api.p, [api.copy EXCEPT !.count = IF @ > 0 THEN @ - 1 ELSE 0])
    /\ api' = NoCall
    /\ UNCHANGED <<backend, phase, mqtt, last, deletes, turn>>

(* DeleteProplet: GetProplet and its task count, then the delete. *)
DeleteProplet(p) ==
    /\ api = NoCall
    /\ deletes < MaxDeletes
    /\ rows[p] # None
    /\ rows[p].count = 0
    /\ api' = [NoCall EXCEPT !.pc = "delete", !.p = p]
    /\ deletes' = deletes + 1
    /\ UNCHANGED <<backend, rows, phase, mqtt, last, turn>>

Delete ==
    /\ api.pc = "delete"
    /\ rows' = [rows EXCEPT ![api.p] = None]
    /\ api' = NoCall
    /\ UNCHANGED <<backend, phase, mqtt, last, deletes, turn>>

Handler == HeartbeatWrite \/ DiscoverGet \/ DiscoverWrite

ApiStep == ListPage \/ Select \/ Bump \/ Release \/ Delete

Next ==
    \/ TimePasses
    \/ \E p \in Proplets :
         Heartbeat(p) \/ Discovery(p) \/ StartPinned(p) \/ StopTask(p) \/ DeleteProplet(p)
    \/ StartTask
    \/ Handler
    \/ ApiStep

Spec == Init /\ [][Next]_vars

(* The handlers and the calls run on, and every proplet keeps publishing    *)
(* heartbeats that reach the manager.                                       *)
FairSpec ==
    /\ Spec
    /\ WF_vars(Handler)
    /\ WF_vars(ApiStep)
    /\ \A p \in Proplets : SF_vars(Heartbeat(p))

-----------------------------------------------------------------------------
(* The records, the histories within aliveHistoryLimit (service.go:1463),   *)
(* and the round robin's place (roundrobin.go:39).                          *)
TypeOK ==
    /\ rows \in [Proplets -> Row \cup {None}]
    /\ last \in 0..(2 * N)
    /\ deletes \in 0..MaxDeletes

(* A task is only given to a proplet that beat within AliveTimeout before   *)
(* the call began, although the stored alive flag is as old as the last     *)
(* write, sqlite compares whole seconds (sqlite/proplets.go:138) and time   *)
(* passes between the pages (service.go:2419).                              *)
PickedIsAlive == api.pc = "picked" => Last(api.copy.history) <= api.since

(* At any one moment the listing of active proplets and the listing of      *)
(* inactive ones (service.go:167) split the stored proplets between them,   *)
(* in every backend, and the active one has every proplet that SetAlive     *)
(* would call alive and none that is more than a second older.              *)
ListingsPartition ==
    ~ListErr =>
        /\ Selected(TRUE, Timeout) \cap Selected(FALSE, Timeout) = {}
        /\ Selected(TRUE, Timeout) \cup Selected(FALSE, Timeout) = Stored
        /\ \A p \in Stored : SetAlive(rows[p]).alive => p \in Selected(TRUE, Timeout)
        /\ \A p \in Selected(TRUE, Timeout) : Last(rows[p].history) <= Timeout + 1

(* One round of consecutive selections over the same candidates, all alive, *)
(* picks no proplet twice (roundrobin.go:38), whatever the pages held.      *)
RoundRobinTurns ==
    Cardinality(ToSet(turn.ids)) = Len(turn.ids) =>
        Cardinality(ToSet(turn.picks)) = Len(turn.picks)

(* A proplet that keeps beating is, again and again, among the ones listed  *)
(* as active, although calls write back copies of its record that are older *)
(* than its last heartbeat (service.go:769) and it may be deleted meanwhile.*)
BeatingIsListed == \A p \in Proplets : []<>(~ListErr /\ p \in Selected(TRUE, Timeout))
=============================================================================
