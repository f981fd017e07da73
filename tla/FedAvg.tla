------------------------------- MODULE FedAvg -------------------------------
(***************************************************************************)
(* Federated averaging: FedAvgAggregator of pkg/fl and aggregateHandler of *)
(* the demo's aggregator service, on the same updates.  Real numbers are   *)
(* replaced by integers and a model by its sums before the division by     *)
(* totalSamples, which is exact.  int64 is replaced by a signed word of    *)
(* Bits bits.                                                              *)
(*                                                                         *)
(* An update is Nil when its "update" object is missing; w is NoWeights    *)
(* when there is no list of weights, and a weight is NaN when it is no     *)
(* number.                                                                 *)
(***************************************************************************)
EXTENDS Integers, Sequences, SequencesExt, FiniteSetsExt

CONSTANTS
    Bits,        \* width of the word that counts samples
    Samples,     \* values of num_samples
    Weights,     \* weight lists an update may carry
    Biases,      \* biases an update may carry
    MaxUpdates   \* updates in one call

Nil == [nil |-> TRUE]
NaN == -99

MaxInt == 2^(Bits - 1) - 1
(* Addition on a signed word. *)
WrapAdd(a, b) == ((a + b + MaxInt + 1) % 2^Bits) - MaxInt - 1

Update == {Nil} \cup [nil : {FALSE}, n : Samples, w : Weights, b : Biases]

NoWeights == <<NaN>>
HasWeights(u) == ~u.nil /\ u.w # NoWeights

VARIABLES
    updates,   \* the input
    at,        \* updates the loops have gone through
    lib,       \* FedAvgAggregator.Aggregate: weights, bias, totalSamples, error
    demo       \* aggregateHandler: weights, bias, totalSamples

vars == <<updates, at, lib, demo>>

(* initializeAggregatedWeights: as many as the first update has, or nil.   *)
InitializeAggregatedWeights(us) ==
    IF us # <<>> /\ HasWeights(us[1]) THEN [i \in DOMAIN us[1].w |-> 0] ELSE NoWeights

(* validateAndProcessUpdate: the new total, or an error.                   *)
Valid(u, total) == u.n >= 0 /\ total <= MaxInt - u.n

ValidateAndProcessUpdate(u, total) ==
    IF u.nil THEN [weight |-> 0, total |-> total, err |-> FALSE]
    ELSE IF ~Valid(u, total) THEN [weight |-> 0, total |-> total, err |-> TRUE]
    ELSE [weight |-> u.n, total |-> WrapAdd(total, u.n), err |-> FALSE]

(* aggregateWeights: weights beyond the result's length, and weights that  *)
(* are no numbers, are left out.                                           *)
AggregateWeights(agg, u, weight) ==
    IF ~HasWeights(u) \/ agg = NoWeights THEN agg
    ELSE [i \in DOMAIN agg |->
            IF i \in DOMAIN u.w /\ u.w[i] # NaN THEN agg[i] + u.w[i] * weight ELSE agg[i]]

(* aggregateBias *)
AggregateBias(agg, u, weight) == IF u.b # NaN THEN agg + u.b * weight ELSE agg

Init ==
    /\ updates \in UNION {[1..n -> Update] : n \in 1..MaxUpdates}
    /\ at = 0
    /\ lib = [w |-> InitializeAggregatedWeights(updates), b |-> 0, total |-> 0, err |-> FALSE]
    /\ demo = [w |-> InitializeAggregatedWeights(updates), b |-> 0, total |-> 0]

(* One turn of the loop of Aggregate: an update of weight 0 is skipped.    *)
MutLibTurn(s, u) ==
    LET v == ValidateAndProcessUpdate(u, s.total) IN
    IF s.err \/ v.err THEN [s EXCEPT !.err = TRUE]
    ELSE IF v.weight = 0 THEN s
    ELSE [s EXCEPT !.w = AggregateWeights(s.w, u, v.total),
                   !.b = AggregateBias(s.b, u, v.weight),
                   !.total = v.total]

LibTurn(s, u) ==
    LET v == ValidateAndProcessUpdate(u, s.total) IN
    IF s.err \/ v.err THEN [s EXCEPT !.err = TRUE]
    ELSE IF v.weight = 0 THEN s
    ELSE [s EXCEPT !.w = AggregateWeights(s.w, u, v.weight),
                   !.b = AggregateBias(s.b, u, v.weight),
                   !.total = v.total]

(* One turn of the loop of aggregateHandler: nothing is validated.         *)
DemoTurn(s, u) ==
    IF u.nil THEN s
    ELSE [w |-> AggregateWeights(s.w, u, u.n),
          b |-> AggregateBias(s.b, u, u.n),
          total |-> WrapAdd(s.total, u.n)]

Next ==
    /\ at < Len(updates)
    /\ at' = at + 1
    /\ lib' = LibTurn(lib, updates[at'])
    /\ demo' = DemoTurn(demo, updates[at'])
    /\ UNCHANGED updates

Spec == Init /\ [][Next]_vars

-----------------------------------------------------------------------------
(* REFERENCE *)

Seen == {i \in 1..at : ~updates[i].nil}
SumOver(S, f(_)) == FoldSet(LAMBDA i, acc : acc + f(i), 0, S)
TrueTotal == SumOver(Seen, LAMBDA i : updates[i].n)
(* The sums of n * w[j] and of n * b over the updates that have them.      *)
TrueWeight(j) ==
    SumOver({i \in Seen : HasWeights(updates[i]) /\ j \in DOMAIN updates[i].w /\ updates[i].w[j] # NaN},
            LAMBDA i : updates[i].n * updates[i].w[j])
TrueBias == SumOver({i \in Seen : updates[i].b # NaN}, LAMBDA i : updates[i].n * updates[i].b)

-----------------------------------------------------------------------------
(* PROPERTIES *)

(* Without an error, Aggregate's sums are those of the weighted average    *)
(* over all the updates given, for every position that the first update    *)
(* has a weight at.                                                        *)
AggregateIsWeightedSum ==
    ~lib.err => /\ lib.b = TrueBias
                /\ lib.w # NoWeights => \A j \in DOMAIN lib.w : lib.w[j] = TrueWeight(j)

(* Aggregate reports ErrOverflow exactly when a number of samples is       *)
(* negative or the total does not fit the word, and otherwise the total it *)
(* divides by is the number of samples of all updates.                     *)
OverflowReported ==
    /\ lib.err <=> \E k \in 1..at :
                      \/ ~updates[k].nil /\ updates[k].n < 0
                      \/ SumOver({i \in Seen : i <= k}, LAMBDA i : updates[i].n) > MaxInt
    /\ ~lib.err => lib.total = TrueTotal

(* The aggregator service of the demo, which validates nothing, computes   *)
(* what the library computes on every input the library accepts.           *)
ServiceAgrees == ~lib.err => <<demo.w, demo.b, demo.total>> = <<lib.w, lib.b, lib.total>>
=============================================================================
