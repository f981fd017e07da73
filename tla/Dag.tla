-------------------------------- MODULE Dag ---------------------------------
(***************************************************************************)
(* The dependency graph of a workflow or job (pkg/dag/validator.go).  A    *)
(* list of tasks is a sequence of records with an id and the sequence of   *)
(* ids it depends on; ids may repeat and dependencies may be missing, as   *)
(* in what a client submits.                                               *)
(***************************************************************************)
EXTENDS Integers, Sequences, FiniteSets, SequencesExt

Ids(tasks) == {tasks[i].id : i \in DOMAIN tasks}

(* The map the validators build: the last task with an id wins. *)
TaskMap(tasks) ==
    [x \in Ids(tasks) |-> tasks[CHOOSE i \in DOMAIN tasks :
                                  tasks[i].id = x /\ \A j \in DOMAIN tasks : j > i => tasks[j].id # x]]

ValidateDependenciesExist(tasks) ==
    \A i \in DOMAIN tasks : ToSet(tasks[i].deps) \subseteq Ids(tasks)

(* The depth-first search: visited, recStack and whether a cycle was found,  *)
(* which ends the search.  A missing task is never taken off recStack.       *)
RECURSIVE Dfs(_, _, _)
Dfs(map, x, st) ==
    LET entered == [st EXCEPT !.visited = @ \cup {x}, !.recStack = @ \cup {x}]
        Visit(s, d) ==
            CASE s.cycle           -> s
              [] d \notin s.visited -> Dfs(map, d, s)
              [] d \in s.recStack   -> [s EXCEPT !.cycle = TRUE]
              [] OTHER              -> s
        left == FoldLeft(Visit, entered, map[x].deps)
    IN  IF x \notin DOMAIN map THEN entered
        ELSE IF left.cycle THEN left
        ELSE [left EXCEPT !.recStack = @ \ {x}]

(* Mutant: only a task that depends on itself is refused. *)
MutValidateDAG(tasks) == \A i \in DOMAIN tasks : tasks[i].id \notin ToSet(tasks[i].deps)

(* TRUE when the code returns no error. *)
ValidateDAG(tasks) ==
    LET map == TaskMap(tasks)
        Search(s, t) == IF s.cycle \/ t.id \in s.visited THEN s ELSE Dfs(map, t.id, s)
    IN  /\ \A i \in DOMAIN tasks : tasks[i].id \notin ToSet(tasks[i].deps)
        /\ ~FoldLeft(Search, [visited |-> {}, recStack |-> {}, cycle |-> FALSE], tasks).cycle

-----------------------------------------------------------------------------
(* TopologicalSort: the maps it starts from and the effect of one round of   *)
(* its loop (the loop itself is DagSort).                                    *)

InDegree(tasks) == [x \in Ids(tasks) |-> Len(TaskMap(tasks)[x].deps)]

(* dependents[x]: a task appears once for every entry of DependsOn. *)
Dependents(tasks, x) ==
    LET Add(acc, t) == acc \o [j \in DOMAIN SelectSeq(t.deps, LAMBDA d : d = x) |-> t.id]
    IN  FoldLeft(Add, <<>>, tasks)

(* x has been emitted: its dependents' degrees fall, and those that reach    *)
(* exactly zero are queued.                                                  *)
Release(tasks, st, x) ==
    LET Decrement(s, y) ==
            [s EXCEPT !.degree[y] = @ - 1,
                      !.queue = IF s.degree[y] = 1 THEN Append(@, y) ELSE @]
    IN  FoldLeft(Decrement, st, Dependents(tasks, x))

-----------------------------------------------------------------------------
(* Reference definition: a task reaches itself along DependsOn. *)
RECURSIVE Reach(_, _)
Reach(map, S) ==
    LET more == S \cup UNION {ToSet(map[x].deps) : x \in S \cap DOMAIN map}
    IN  IF more = S THEN S ELSE Reach(map, more)

Acyclic(tasks) ==
    LET map == TaskMap(tasks) IN
    \A x \in Ids(tasks) : x \notin Reach(map, ToSet(map[x].deps))
=============================================================================
