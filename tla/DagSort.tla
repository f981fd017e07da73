------------------------------ MODULE DagSort -------------------------------
(***************************************************************************)
(* TopologicalSort (pkg/dag/validator.go) on every list of at most         *)
(* MaxTasks tasks with at most MaxDeps dependencies each.  The queue starts *)
(* with the tasks of in-degree zero in the order of a Go map: any order.   *)
(***************************************************************************)
EXTENDS Dag

CONSTANTS
    TaskIds,     \* ids a task or a dependency may have
    MaxTasks,    \* bound: tasks in a list
    MaxDeps      \* bound: entries of DependsOn

VARIABLES
    tasks,     \* the argument
    st,        \* inDegree and queue
    result,    \* the ids emitted, in order
    outcome    \* "running", "sorted" or the error returned
vars == <<tasks, st, result, outcome>>

TaskLists ==
    LET rec == [id : TaskIds, deps : UNION {[1..n -> TaskIds] : n \in 0..MaxDeps}]
    IN  UNION {[1..n -> rec] : n \in 0..MaxTasks}

(* The two validations, then the maps and the first queue. *)
Init ==
    /\ tasks \in TaskLists
    /\ result = <<>>
    /\ LET degree == InDegree(tasks) IN
       \/ /\ ~ValidateDependenciesExist(tasks)
          /\ outcome = "missing"
          /\ st = [degree |-> degree, queue |-> <<>>]
       \/ /\ ValidateDependenciesExist(tasks)
          /\ ~ValidateDAG(tasks)
          /\ outcome = "circular"
          /\ st = [degree |-> degree, queue |-> <<>>]
       \/ /\ ValidateDependenciesExist(tasks)
          /\ ValidateDAG(tasks)
          /\ outcome = "running"
          /\ \E q \in SetToSeqs({x \in Ids(tasks) : degree[x] = 0}) :
                st = [degree |-> degree, queue |-> q]

(* A round of the loop; an id that was already emitted is skipped. *)
Emit ==
    /\ outcome = "running"
    /\ st.queue # <<>>
    /\ LET x == Head(st.queue)
           rest == [st EXCEPT !.queue = Tail(@)]
       IN  IF x \in ToSet(result)
           THEN st' = rest /\ result' = result
           ELSE st' = Release(tasks, rest, x) /\ result' = Append(result, x)
    /\ UNCHANGED <<tasks, outcome>>

Finish ==
    /\ outcome = "running"
    /\ st.queue = <<>>
    /\ outcome' = IF Len(result) = Len(tasks) THEN "sorted" ELSE "incomplete"
    /\ UNCHANGED <<tasks, st, result>>

Next == Emit \/ Finish
Spec == Init /\ [][Next]_vars

-----------------------------------------------------------------------------
(* ValidateDAG, run after ValidateDependenciesExist as every caller does,    *)
(* refuses exactly the lists whose graph has a cycle, or that hold a task    *)
(* naming itself (even one that a later task of the same id replaces).       *)
ValidateDAGExact ==
    ValidateDependenciesExist(tasks) =>
        ((outcome # "circular")
            <=> (Acyclic(tasks) /\ \A i \in DOMAIN tasks : tasks[i].id \notin ToSet(tasks[i].deps)))

Distinct == Cardinality(Ids(tasks)) = Len(tasks)

(* In a list of distinct ids TopologicalSort never emits a task before one   *)
(* it depends on, whatever the order of the first queue and however often a  *)
(* dependency is repeated.                                                   *)
DependenciesFirst ==
    Distinct => \A i \in DOMAIN result :
        ToSet(TaskMap(tasks)[result[i]].deps) \subseteq {result[j] : j \in 1..(i - 1)}

(* The final length check fires for repeated ids only: a validated list of   *)
(* distinct ids is always sorted, so startJobConfigurable cannot fail there. *)
SortsValidated ==
    outcome = "incomplete" => ~Distinct
=============================================================================
