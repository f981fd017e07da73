----------------------------- MODULE Precedence -----------------------------
(***************************************************************************)
(* What the manager promises about the tasks of a workflow, whoever        *)
(* drives it: a task is ordered to start at most once, and neither ordered *)
(* nor settled before everything it depends on has settled.                *)
(***************************************************************************)
EXTENDS Naturals, Sequences

CONSTANTS
    Tasks,      \* the tasks of the workflow
    DependsOn   \* task -> sequence of the tasks it depends on

VARIABLES
    orders,     \* task -> number of start commands published for it
    settled     \* tasks that have completed, failed or been skipped

DepsOf(k) == {DependsOn[k][i] : i \in 1..Len(DependsOn[k])}

Init ==
    /\ orders = [k \in Tasks |-> 0]
    /\ settled = {}

Order(k) ==
    /\ orders[k] = 0
    /\ DepsOf(k) \subseteq settled
    /\ orders' = [orders EXCEPT ![k] = 1]
    /\ UNCHANGED settled

(* By a result, by being skipped, or because its start command was refused. *)
Settle(k) ==
    /\ DepsOf(k) \subseteq settled
    /\ settled' = settled \cup {k}
    /\ UNCHANGED orders

Next == \E k \in Tasks : Order(k) \/ Settle(k)

Spec == Init /\ [][Next]_<<orders, settled>>
=============================================================================
