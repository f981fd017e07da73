------------------------------- MODULE Invoke -------------------------------
(***************************************************************************)
(* On-demand invocation of a latent task (manager/service.go: InvokeTask,  *)
(* invokeBroadcast, invokeOnProplet, updateInvokeResultsHandler; the       *)
(* proplet's side is proplet/src/service.rs).  A call registers a channel  *)
(* of capacity 1 under a fresh invocation id, publishes the invocation and *)
(* waits for an answer, the timeout or the end of the client's request.    *)
(* MQTT may lose messages and repeat answers (proplets subscribe their     *)
(* commands with QoS 2), and a proplet may restart and lose what it had    *)
(* compiled.  There is one latent task.                                    *)
(***************************************************************************)
EXTENDS Integers, Sequences, FiniteSets, Functions

CONSTANTS
    Proplets,
    Callers,       \* concurrent InvokeTask calls
    Broadcast,     \* the task is a broadcast task; otherwise it is pinned
    Pin,           \* the proplet it is pinned to
    Listings,      \* the lists of alive proplets that a call may get
    MaxInvocations,\* bound: calls, and invocation ids
    MaxLosses, MaxDups, MaxRestarts

ASSUME InvokeAssumption ==
    /\ Listings \subseteq Seq(Proplets)
    /\ Pin \in Proplets
    /\ MaxInvocations \in Nat

VARIABLES
    last,        \* roundRobin.LastProplet
    call,        \* caller -> the call it is in
    nextInv,     \* the next invocation id
    pending,     \* keys of pendingInvokes
    chan,        \* invocation id -> the buffered results (at most one)
    invokes,     \* invocations in flight
    results,     \* answers in flight
    starts,      \* proplets with a redeployment in flight
    handler,     \* the MQTT callback: the answer whose channel it has looked up
    compiled,    \* proplets that hold the precompiled task
    running,     \* proplets with the task in running_tasks
    losses, dups, restarts,
    owner,       \* ghost: invocation id -> [call, proplet]
    calls,       \* ghost: calls so far
    executed     \* ghost: call -> number of executions
vars == <<last, call, nextInv, pending, chan, invokes, results, starts, handler, compiled, running,
          losses, dups, restarts, owner, calls, executed>>
net == <<invokes, results, starts, handler, compiled, running, losses, dups, restarts, executed>>

Invs == 1..MaxInvocations
NoAnswer == [inv |-> 0, proplet |-> 0, what |-> ""]
GaveUp == [inv |-> 0, proplet |-> 0, what |-> "error"]
NoCall == [pc |-> "idle", id |-> 0, inv |-> 0, cands |-> <<>>, i |-> 0, answer |-> NoAnswer]

(* SelectProplet of the round robin over a listing of alive proplets: the    *)
(* new value of LastProplet (an index from 0).                               *)
SelectProplet(listing) == (last + 1) % Len(listing)

(* orderedProplets: the listing rotated so that first comes first. *)
OrderedProplets(listing, first) ==
    SubSeq(listing, first + 1, Len(listing)) \o SubSeq(listing, 1, first)

-----------------------------------------------------------------------------
Init ==
    /\ last = 0 /\ nextInv = 1 /\ calls = 0
    /\ call = [c \in Callers |-> NoCall]
    /\ pending = {} /\ chan = [v \in Invs |-> <<>>]
    /\ invokes = {} /\ results = {} /\ starts = {} /\ handler = NoAnswer
    /\ compiled \in SUBSET Proplets /\ running = compiled
    /\ losses = 0 /\ dups = 0 /\ restarts = 0
    /\ owner = [v \in Invs |-> [call |-> 0, proplet |-> 0]]
    /\ executed = [v \in Invs |-> 0]

(* InvokeTask: a pinned task goes to its proplet, a broadcast task to the    *)
(* alive ones in turn.                                                       *)
InvokeTask(c) ==
    /\ call[c].pc = "idle"
    /\ nextInv \in Invs /\ calls < MaxInvocations
    /\ calls' = calls + 1
    /\ IF Broadcast
       THEN \E listing \in Listings \ {<<>>} :
              LET first == SelectProplet(listing)
              IN  /\ last' = first
                  /\ call' = [call EXCEPT ![c] = [NoCall EXCEPT !.pc = "register", !.id = calls + 1, !.i = 1,
                                                    !.cands = OrderedProplets(listing, first)]]
       ELSE /\ call' = [call EXCEPT ![c] = [NoCall EXCEPT !.pc = "register", !.id = calls + 1, !.i = 1, !.cands = <<Pin>>]]
            /\ UNCHANGED last
    /\ UNCHANGED <<nextInv, pending, chan, owner, net>>

(* Mutant: a broadcast call keeps one invocation id for all its candidates. *)
MutRegister(c) ==
    /\ call[c].pc = "register"
    /\ nextInv \in Invs
    /\ LET v == IF call[c].inv = 0 THEN nextInv ELSE call[c].inv IN
        /\ pending' = pending \cup {v}
        /\ owner' = [owner EXCEPT ![v] = [call |-> call[c].id, proplet |-> call[c].cands[call[c].i]]]
        /\ call' = [call EXCEPT ![c].pc = "publish", ![c].inv = v]
    /\ nextInv' = nextInv + 1
    /\ UNCHANGED <<last, chan, calls, net>>

(* invokeOnProplet: the channel is registered under a fresh id ...           *)
Register(c) ==
    /\ call[c].pc = "register"
    /\ nextInv \in Invs
    /\ pending' = pending \cup {nextInv}
    /\ owner' = [owner EXCEPT ![nextInv] = [call |-> call[c].id, proplet |-> call[c].cands[call[c].i]]]
    /\ call' = [call EXCEPT ![c].pc = "publish", ![c].inv = nextInv]
    /\ nextInv' = nextInv + 1
    /\ UNCHANGED <<last, chan, calls, net>>

(* ... and the invocation published.  A failed publish is the call's error,  *)
(* although one that only timed out may still be delivered.                  *)
PublishInvoke(c) ==
    /\ call[c].pc = "publish"
    /\ LET sent == invokes \cup {[inv |-> call[c].inv, proplet |-> call[c].cands[call[c].i]]} IN
        \/ /\ invokes' = sent
           /\ call' = [call EXCEPT ![c].pc = "wait"]
           /\ UNCHANGED losses
        \/ /\ losses < MaxLosses
           /\ losses' = losses + 1
           /\ invokes' \in {invokes, sent}
           /\ call' = [call EXCEPT ![c].pc = "leave", ![c].answer = GaveUp]
    /\ UNCHANGED <<last, nextInv, pending, chan, calls, owner, results, starts, handler, compiled, running, dups, restarts, executed>>

(* The select: an answer, or the timer or the client's context. *)
Receive(c) ==
    /\ call[c].pc = "wait"
    /\ chan[call[c].inv] # <<>>
    /\ call' = [call EXCEPT ![c].pc = "leave", ![c].answer = chan[call[c].inv][1]]
    /\ chan' = [chan EXCEPT ![call[c].inv] = <<>>]
    /\ UNCHANGED <<last, nextInv, pending, calls, owner, net>>

(* Mutant: the wait has no timer and no context. *)
MutGiveUp(c) ==
    /\ call[c].pc = "wait"
    /\ FALSE
    /\ UNCHANGED vars

GiveUp(c) ==
    /\ call[c].pc = "wait"
    /\ call' = [call EXCEPT ![c].pc = "leave", ![c].answer = GaveUp]
    /\ UNCHANGED <<last, nextInv, pending, chan, calls, owner, net>>

(* Mutant: a broadcast call tries the next proplet after any error. *)
MutTriesNext(a) == a.what # "ok"

(* isNotPrecompiledError: the only error that moves a broadcast call on. *)
TriesNext(a) == a.what = "not precompiled"

(* Mutant: the entry of pendingInvokes stays. *)
MutUnregister(c) == pending

Unregister(c) == pending \ {call[c].inv}

(* Mutant: only the proplet that was asked last gets the task again. *)
MutRedeployed(c) == {call[c].cands[Len(call[c].cands)]}

(* recoverLatentDeployment: the candidates that are sent a start. *)
Redeployed(c) == Range(call[c].cands)

(* The deferred delete of the entry.  A broadcast call that met a proplet    *)
(* without the compiled task tries the next one; after the last it has the   *)
(* task redeployed on every candidate, each failed publish being logged.     *)
Leave(c) ==
    /\ call[c].pc = "leave"
    /\ pending' = Unregister(c)
    /\ IF Broadcast /\ TriesNext(call[c].answer)
       THEN IF call[c].i < Len(call[c].cands)
            THEN /\ call' = [call EXCEPT ![c].pc = "register", ![c].i = @ + 1]
                 /\ UNCHANGED <<starts, losses>>
            ELSE /\ call' = [call EXCEPT ![c] = NoCall]
                 /\ \E lost \in SUBSET Redeployed(c) :
                      /\ losses + Cardinality(lost) <= MaxLosses
                      /\ losses' = losses + Cardinality(lost)
                      /\ starts' = starts \cup (Redeployed(c) \ lost)
       ELSE /\ call' = [call EXCEPT ![c] = NoCall]
            /\ UNCHANGED <<starts, losses>>
    /\ UNCHANGED <<last, nextInv, chan, calls, owner, invokes, results, handler, compiled, running, dups, restarts, executed>>

-----------------------------------------------------------------------------
(* updateInvokeResultsHandler.                                              *)

(* The look-up under the lock; nobody waiting ends the handler. *)
HandleResult ==
    /\ handler = NoAnswer
    /\ \E r \in results :
        /\ handler' = IF r.inv \in pending THEN r ELSE NoAnswer
        /\ \/ results' = results \ {r} /\ UNCHANGED dups
           \/ dups < MaxDups /\ dups' = dups + 1 /\ UNCHANGED results
    /\ UNCHANGED <<last, call, nextInv, pending, chan, invokes, starts, compiled, running, losses, restarts, owner, calls, executed>>

(* The send after the unlock, dropped when the channel is full. *)
HandlerSend ==
    /\ handler # NoAnswer
    /\ chan' = IF chan[handler.inv] = <<>> THEN [chan EXCEPT ![handler.inv] = <<handler>>] ELSE chan
    /\ handler' = NoAnswer
    /\ UNCHANGED <<last, call, nextInv, pending, invokes, results, starts, compiled, running, losses, dups, restarts, owner, calls, executed>>

-----------------------------------------------------------------------------
(* The proplet (handle_invoke_command, handle_start_command).               *)

(* It runs the task if it holds it compiled, and publishes the outcome. *)
PropletInvoke ==
    /\ \E m \in invokes, what \in {"ok", "failed", "not precompiled"} :
        /\ (what = "not precompiled") <=> (m.proplet \notin compiled)
        /\ executed' = IF what = "not precompiled" THEN executed ELSE [executed EXCEPT ![owner[m.inv].call] = @ + 1]
        /\ results' = results \cup {[inv |-> m.inv, proplet |-> m.proplet, what |-> what]}
        /\ invokes' = invokes \ {m}
    /\ UNCHANGED <<last, call, nextInv, pending, chan, starts, handler, compiled, running, losses, dups, restarts, owner, calls>>

(* A start of the latent task compiles it, unless it counts as running. *)
PropletStart ==
    /\ \E p \in starts :
        /\ starts' = starts \ {p}
        /\ running' = running \cup {p}
        /\ compiled' = IF p \in running THEN compiled ELSE compiled \cup {p}
    /\ UNCHANGED <<last, call, nextInv, pending, chan, invokes, results, handler, losses, dups, restarts, owner, calls, executed>>

(* A restart forgets both, and what was on the way is gone. *)
PropletRestart(p) ==
    /\ restarts < MaxRestarts
    /\ restarts' = restarts + 1
    /\ compiled' = compiled \ {p} /\ running' = running \ {p}
    /\ invokes' = {m \in invokes : m.proplet # p}
    /\ UNCHANGED <<last, call, nextInv, pending, chan, results, starts, handler, losses, dups, owner, calls, executed>>

(* MQTT loses a message. *)
Lose ==
    /\ losses < MaxLosses
    /\ losses' = losses + 1
    /\ \/ \E m \in invokes : invokes' = invokes \ {m} /\ UNCHANGED <<results, starts>>
       \/ \E r \in results : results' = results \ {r} /\ UNCHANGED <<invokes, starts>>
       \/ \E p \in starts : starts' = starts \ {p} /\ UNCHANGED <<invokes, results>>
    /\ UNCHANGED <<last, call, nextInv, pending, chan, handler, compiled, running, dups, restarts, owner, calls, executed>>

CallStep(c) == Register(c) \/ PublishInvoke(c) \/ Receive(c) \/ GiveUp(c) \/ Leave(c)

Next ==
    \/ \E c \in Callers : InvokeTask(c) \/ CallStep(c)
    \/ HandleResult \/ HandlerSend \/ PropletInvoke \/ PropletStart \/ Lose
    \/ \E p \in Proplets : PropletRestart(p)

Spec == Init /\ [][Next]_vars

(* Goroutines and MQTT callbacks that can go on do; the timer runs out; a    *)
(* proplet gets to the start commands it received.                           *)
FairSpec == Spec /\ (\A c \in Callers : WF_vars(CallStep(c))) /\ WF_vars(HandlerSend) /\ WF_vars(PropletStart)

-----------------------------------------------------------------------------
(* The answer a call returns was given to this call, by the proplet it is    *)
(* currently asking: a late or repeated answer to an earlier candidate, or   *)
(* to another call, never counts.                                            *)
OwnAnswer ==
    \A c \in Callers :
        call[c].pc = "leave" /\ call[c].answer # GaveUp =>
            /\ owner[call[c].answer.inv].call = call[c].id
            /\ call[c].answer.proplet = call[c].cands[call[c].i]

(* One InvokeTask runs the function at most once, however many proplets it   *)
(* falls through: the next one is asked only after an answer that says the   *)
(* function did not run.                                                     *)
ExecutedOnce == \A v \in Invs : executed[v] <= 1

(* pendingInvokes holds the channels of waiting calls and nothing else, so   *)
(* it does not grow with timeouts, failed publishes or client disconnects.   *)
PendingExact ==
    pending = {call[c].inv : c \in {d \in Callers : call[d].pc \in {"publish", "wait", "leave"}}}

(* Every call returns, whatever is lost: the answer or the timer ends each   *)
(* wait and the candidates run out.                                          *)
CallReturns ==
    \A c \in Callers : call[c].pc = "wait" ~> call[c].pc \in {"idle", "register"}

(* The MQTT callback is never stuck on a channel nobody reads: a blocked     *)
(* callback would hold up every other message of the manager.                *)
HandlerReturns == handler # NoAnswer ~> handler = NoAnswer

(* When every candidate of a broadcast call has lost the compiled task, the  *)
(* redeployment brings it back, unless messages are lost or proplets restart *)
(* again.                                                                    *)
RedeployRecovers ==
    \A p \in Proplets :
        (\E c \in Callers :
            /\ call[c].pc = "leave" /\ TriesNext(call[c].answer)
            /\ call[c].i = Len(call[c].cands) /\ p \in Range(call[c].cands))
        ~> (p \in compiled \/ losses > 0 \/ restarts > 0)
=============================================================================
