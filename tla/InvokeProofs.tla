---------------------------- MODULE InvokeProofs ----------------------------
(***************************************************************************)
(* For any proplets, any callers and any number of calls: an InvokeTask    *)
(* returns the answer to its own invocation, runs the function at most     *)
(* once, and leaves nothing behind in pendingInvokes.                      *)
(***************************************************************************)
EXTENDS Invoke, TLAPS

Outcomes == {"ok", "failed", "not precompiled"}

Invocation == [inv : Invs, proplet : Proplets]

Reply == [inv : Invs, proplet : Proplets, what : Outcomes]

Call ==
    [pc : {"idle", "register", "publish", "wait", "leave"}, id : Nat, inv : Nat, cands : Seq(Proplets),
     i : Nat, answer : Reply \cup {NoAnswer, GaveUp}]

Types ==
    /\ last \in Nat /\ calls \in Nat /\ nextInv \in Nat /\ calls <= MaxInvocations
    /\ call \in [Callers -> Call]
    /\ \A c \in Callers : call[c].pc # "idle" => call[c].i \in 1..Len(call[c].cands)
    /\ chan \in [Invs -> {<<>>} \cup {<<r>> : r \in Reply}]
    /\ invokes \subseteq Invocation
    /\ results \subseteq Reply
    /\ handler \in Reply \cup {NoAnswer}
    /\ owner \in [Invs -> [call : Nat, proplet : Proplets \cup {0}]]
    /\ executed \in [Invs -> Nat]

(* The callers whose current invocation is registered. *)
Asking == {c \in Callers : call[c].pc \in {"publish", "wait", "leave"}}

(* The answers that were given and are still somewhere: on the way, in the   *)
(* handler, in a channel, or with the call that took them.                   *)
Given ==
    {r \in Reply : \/ r \in results \/ r = handler
                   \/ \E v \in Invs : chan[v] = <<r>>
                   \/ \E c \in Callers : call[c].pc = "leave" /\ call[c].answer = r}

(* The calls and their invocations: the ids of calls are their own, an       *)
(* invocation belongs to the call that registered it and is about the        *)
(* candidate that call is at.                                                *)
CallsInv ==
    /\ \A c \in Callers : call[c].pc # "idle" => call[c].id \in 1..calls
    /\ \A c, d \in Callers : call[c].pc # "idle" /\ call[d].pc # "idle" /\ call[c].id = call[d].id => c = d
    /\ \A c \in Asking :
         /\ call[c].inv \in Invs /\ call[c].inv < nextInv
         /\ owner[call[c].inv] = [call |-> call[c].id, proplet |-> call[c].cands[call[c].i]]
    /\ \A v \in Invs : owner[v].call <= calls

(* A message is about an invocation that was registered and names the        *)
(* proplet it was for; a channel holds the answer to its own invocation.     *)
MessagesInv ==
    /\ \A m \in invokes \cup Given : m.inv < nextInv /\ m.proplet = owner[m.inv].proplet
    /\ \A v \in Invs, r \in Reply : chan[v] = <<r>> => r.inv = v
    /\ \A c \in Callers : call[c].pc = "leave" /\ call[c].answer # GaveUp =>
         call[c].answer \in Reply /\ call[c].answer.inv = call[c].inv

OwnInv == Types /\ CallsInv /\ MessagesInv /\ PendingExact

(* The call an invocation message belongs to. *)
Of(m) == owner[m.inv].call

(* A call's function has not run, and no message in flight will run it. *)
Fresh(id) == executed[id] = 0 /\ \A m \in invokes : Of(m) # id

(* Before the publish, and after an answer that says "not precompiled", the  *)
(* call is fresh; afterwards only the invocation it waits for may be in      *)
(* flight, and a new invocation has no answer yet.                           *)
Steady(c) ==
    /\ call[c].pc \in {"register", "publish"} => Fresh(call[c].id)
    /\ call[c].pc \in {"wait", "leave"} => \A m \in invokes : Of(m) = call[c].id => m.inv = call[c].inv
    /\ call[c].pc = "publish" => \A r \in Given : r.inv # call[c].inv
    /\ c \in Asking => \A r \in Given : r.inv = call[c].inv /\ TriesNext(r) => Fresh(call[c].id)

(* Of each call at most one invocation is in flight, and it has not run.     *)
OnceInv ==
    /\ \A v \in Invs : executed[v] <= 1
    /\ \A v \in Invs : v > calls => executed[v] = 0
    /\ \A m \in invokes : Of(m) \in Invs /\ executed[Of(m)] = 0
    /\ \A m, n \in invokes : Of(m) = Of(n) => m = n
    /\ \A c \in Callers : Steady(c)

-----------------------------------------------------------------------------
(* The candidates of a broadcast call are a list of proplets. *)
LEMMA Candidates ==
    ASSUME NEW s \in Listings \ {<<>>}, last \in Nat
    PROVE  /\ SelectProplet(s) \in Nat
           /\ OrderedProplets(s, SelectProplet(s)) \in Seq(Proplets)
           /\ 1 \in 1..Len(OrderedProplets(s, SelectProplet(s)))
<1> DEFINE f == SelectProplet(s)
           a == SubSeq(s, f + 1, Len(s))
           b == SubSeq(s, 1, f)
<1>1. s \in Seq(Proplets) /\ Len(s) \in Nat \ {0}
  BY InvokeAssumption
<1>2. f \in 0..Len(s) - 1
  <2> DEFINE n == Len(s)
             k == last + 1
  <2>1. n \in Nat \ {0} /\ k \in Nat
    BY <1>1
  <2> HIDE DEF n, k
  <2>2. k % n \in 0..n - 1
    BY <2>1
  <2> QED  BY <2>2 DEF SelectProplet, n, k
<1> HIDE DEF f
<1>3. /\ f + 1 \in 1..Len(s) + 1 /\ Len(s) \in f + 1 - 1..Len(s)
      /\ 1 \in 1..Len(s) + 1 /\ f \in 1 - 1..Len(s)
  BY <1>1, <1>2
<1>4. a \in Seq(Proplets) /\ b \in Seq(Proplets)
  BY <1>1, <1>2, <1>3
<1>5. Len(a) >= 1
  BY <1>1, <1>2, <1>3
<1> HIDE DEF a, b
<1>6. a \o b \in Seq(Proplets) /\ Len(a \o b) >= 1
  BY <1>4, <1>5
<1>7. OrderedProplets(s, f) = a \o b
  BY DEF OrderedProplets, a, b
<1> QED  BY <1>2, <1>6, <1>7 DEF f

(* What each step of a call makes of it.  The beginning. *)
LEMMA InvokeCall ==
    ASSUME Types, NEW c \in Callers, InvokeTask(c)
    PROVE  /\ last' \in Nat
           /\ \E n \in Call : /\ call' = [call EXCEPT ![c] = n]
                              /\ n.pc = "register" /\ n.id = calls + 1 /\ 1 \in 1..Len(n.cands) /\ n.i = 1
<1>1. last \in Nat /\ calls + 1 \in Nat
  BY DEF Types
<1>2. ASSUME NEW s \in Seq(Proplets), 1 \in 1..Len(s)
      PROVE  LET n == [NoCall EXCEPT !.pc = "register", !.id = calls + 1, !.i = 1, !.cands = s] IN
             n \in Call /\ n.pc = "register" /\ n.id = calls + 1 /\ 1 \in 1..Len(n.cands) /\ n.i = 1
  BY ZenonT(30), <1>1, <1>2 DEF NoCall, Call
<1>3. CASE Broadcast
  <2>1. PICK s \in Listings \ {<<>>} :
          /\ last' = SelectProplet(s)
          /\ call' = [call EXCEPT ![c] = [NoCall EXCEPT !.pc = "register", !.id = calls + 1, !.i = 1,
                                            !.cands = OrderedProplets(s, SelectProplet(s))]]
    BY Zenon, <1>3 DEF InvokeTask
  <2>2. /\ SelectProplet(s) \in Nat /\ OrderedProplets(s, SelectProplet(s)) \in Seq(Proplets)
        /\ 1 \in 1..Len(OrderedProplets(s, SelectProplet(s)))
    BY <1>1, Candidates
  <2> QED  BY Zenon, <1>2, <2>1, <2>2
<1>4. CASE ~ Broadcast
  <2>1. /\ call' = [call EXCEPT ![c] = [NoCall EXCEPT !.pc = "register", !.id = calls + 1, !.i = 1, !.cands = <<Pin>>]]
        /\ last' = last
    BY <1>4 DEF InvokeTask
  <2>2. <<Pin>> \in Seq(Proplets) /\ 1 \in 1..Len(<<Pin>>)
    BY InvokeAssumption
  <2> QED  BY Zenon, <1>1, <1>2, <2>1, <2>2
<1> QED  BY <1>3, <1>4

(* A fresh invocation id. *)
LEMMA RegisterCall ==
    ASSUME Types, NEW c \in Callers, Register(c)
    PROVE  \E n \in Call : /\ call' = [call EXCEPT ![c] = n]
                           /\ n.pc = "publish" /\ n.inv = nextInv
                           /\ n.id = call[c].id /\ n.cands = call[c].cands /\ n.i = call[c].i
<1>1. call[c] \in Call /\ nextInv \in Nat
  BY DEF Types
<1> DEFINE n == [call[c] EXCEPT !.pc = "publish", !.inv = nextInv]
<1>2. call' = [call EXCEPT ![c] = n]
  BY Zenon DEF Register, Types
<1>3. /\ n \in Call /\ n.pc = "publish" /\ n.inv = nextInv
      /\ n.id = call[c].id /\ n.cands = call[c].cands /\ n.i = call[c].i
  BY Zenon, <1>1 DEF Call
<1> HIDE DEF n
<1> QED  BY Zenon, <1>2, <1>3

(* The publish of an invocation; after its error the call leaves. *)
LEMMA PublishCall ==
    ASSUME Types, NEW c \in Callers, PublishInvoke(c)
    PROVE  /\ \E n \in Call : /\ call' = [call EXCEPT ![c] = n]
                              /\ n.pc = "wait" \/ (n.pc = "leave" /\ n.answer = GaveUp)
                              /\ n.id = call[c].id /\ n.inv = call[c].inv
                              /\ n.cands = call[c].cands /\ n.i = call[c].i
           /\ \/ invokes' = invokes
              \/ invokes' = invokes \cup {[inv |-> call[c].inv, proplet |-> call[c].cands[call[c].i]]}
<1>1. call[c] \in Call
  BY DEF Types
<1> DEFINE w == [call[c] EXCEPT !.pc = "wait"]
           l == [call[c] EXCEPT !.pc = "leave", !.answer = GaveUp]
<1>2. /\ call' = [call EXCEPT ![c] = w] \/ call' = [call EXCEPT ![c] = l]
      /\ \/ invokes' = invokes
         \/ invokes' = invokes \cup {[inv |-> call[c].inv, proplet |-> call[c].cands[call[c].i]]}
  BY Zenon DEF PublishInvoke, Types
<1>3. /\ w \in Call /\ w.pc = "wait" /\ w.id = call[c].id /\ w.inv = call[c].inv
      /\ w.cands = call[c].cands /\ w.i = call[c].i
  BY <1>1 DEF Call
<1>4. /\ l \in Call /\ l.pc = "leave" /\ l.answer = GaveUp /\ l.id = call[c].id /\ l.inv = call[c].inv
      /\ l.cands = call[c].cands /\ l.i = call[c].i
  BY Zenon, <1>1 DEF Call
<1> HIDE DEF w, l
<1> QED  BY <1>2, <1>3, <1>4

(* The answer taken from the channel. *)
LEMMA ReceiveCall ==
    ASSUME Types, NEW c \in Callers, Receive(c), call[c].inv \in Invs
    PROVE  \E n \in Call, r \in Reply :
              /\ call' = [call EXCEPT ![c] = n] /\ chan' = [chan EXCEPT ![call[c].inv] = <<>>]
              /\ chan[call[c].inv] = <<r>> /\ n.pc = "leave" /\ n.answer = r
              /\ n.id = call[c].id /\ n.inv = call[c].inv
              /\ n.cands = call[c].cands /\ n.i = call[c].i
<1>1. call[c] \in Call
  BY DEF Types
<1>2. PICK r \in Reply : chan[call[c].inv] = <<r>>
  BY DEF Types, Receive
<1>3. chan[call[c].inv][1] = r
  BY <1>2
<1> DEFINE n == [call[c] EXCEPT !.pc = "leave", !.answer = r]
<1>4. call' = [call EXCEPT ![c] = n]
  BY Zenon, <1>3 DEF Receive, Types
<1>5. chan' = [chan EXCEPT ![call[c].inv] = <<>>]
  BY DEF Receive
<1>6. /\ n \in Call /\ n.pc = "leave" /\ n.answer = r /\ n.id = call[c].id /\ n.inv = call[c].inv
      /\ n.cands = call[c].cands /\ n.i = call[c].i
  BY Zenon, <1>1 DEF Call
<1> HIDE DEF n
<1> QED  BY Zenon, <1>2, <1>4, <1>5, <1>6

(* The timer, or the client's context. *)
LEMMA GiveUpCall ==
    ASSUME Types, NEW c \in Callers, GiveUp(c)
    PROVE  \E n \in Call : /\ call' = [call EXCEPT ![c] = n] /\ n.pc = "leave" /\ n.answer = GaveUp
                           /\ n.id = call[c].id /\ n.inv = call[c].inv
                           /\ n.cands = call[c].cands /\ n.i = call[c].i
<1>1. call[c] \in Call
  BY DEF Types
<1> DEFINE n == [call[c] EXCEPT !.pc = "leave", !.answer = GaveUp]
<1>2. call' = [call EXCEPT ![c] = n]
  BY Zenon DEF GiveUp, Types
<1>3. /\ n \in Call /\ n.pc = "leave" /\ n.answer = GaveUp /\ n.id = call[c].id /\ n.inv = call[c].inv
      /\ n.cands = call[c].cands /\ n.i = call[c].i
  BY Zenon, <1>1 DEF Call
<1> HIDE DEF n
<1> QED  BY Zenon, <1>2, <1>3

(* The next candidate, or the end of the call. *)
LEMMA LeaveCall ==
    ASSUME Types, NEW c \in Callers, Leave(c)
    PROVE  \E n \in Call :
              /\ call' = [call EXCEPT ![c] = n]
              /\ \/ n.pc = "idle"
                 \/ /\ n.pc = "register" /\ TriesNext(call[c].answer) /\ n.id = call[c].id
                    /\ n.i \in 1..Len(n.cands)
<1>1. call[c] \in Call /\ call[c].i \in 1..Len(call[c].cands)
  BY DEF Types, Leave
<1>2. NoCall \in Call /\ NoCall.pc = "idle"
  BY DEF NoCall, Call
<1>3. \/ call' = [call EXCEPT ![c] = NoCall]
      \/ /\ TriesNext(call[c].answer) /\ call[c].i < Len(call[c].cands)
         /\ call' = [call EXCEPT ![c] = [call[c] EXCEPT !.pc = "register", !.i = call[c].i + 1]]
  BY Zenon DEF Leave, Types
<1>4. call[c].cands \in Seq(Proplets) /\ Len(call[c].cands) \in Nat
  BY <1>1 DEF Call
<1>5. CASE /\ TriesNext(call[c].answer) /\ call[c].i < Len(call[c].cands)
           /\ call' = [call EXCEPT ![c] = [call[c] EXCEPT !.pc = "register", !.i = call[c].i + 1]]
  <2>1. call[c].i + 1 \in 1..Len(call[c].cands) /\ call[c].i + 1 \in Nat
    BY <1>1, <1>4, <1>5
  <2> DEFINE n == [call[c] EXCEPT !.pc = "register", !.i = call[c].i + 1]
  <2>2. n \in Call /\ n.pc = "register" /\ n.id = call[c].id /\ n.i \in 1..Len(n.cands)
    BY Zenon, <1>1, <2>1 DEF Call
  <2>3. call' = [call EXCEPT ![c] = n]
    BY <1>5
  <2> HIDE DEF n
  <2> QED  BY Zenon, <1>5, <2>2, <2>3
<1> QED  BY <1>2, <1>3, <1>5

-----------------------------------------------------------------------------
(* Neither the absence of an answer nor the caller's own error is an answer. *)
LEMMA NotReply == NoAnswer \notin Reply /\ GaveUp \notin Reply
BY DEF NoAnswer, GaveUp, Reply, Invs

(* One caller's record changes. *)
LEMMA CallEdit ==
    ASSUME Types, NEW c \in Callers, NEW n \in Call, call' = [call EXCEPT ![c] = n],
           n.pc # "idle" => n.i \in 1..Len(n.cands)
    PROVE  /\ call' \in [Callers -> Call] /\ call'[c] = n
           /\ \A d \in Callers : d # c => call'[d] = call[d]
           /\ \A d \in Callers : call'[d].pc # "idle" => call'[d].i \in 1..Len(call'[d].cands)
BY DEF Types

(* InvokeTask gives the call an id of its own. *)
LEMMA OwnInvoke ==
    ASSUME OwnInv, NEW c \in Callers, InvokeTask(c)
    PROVE  OwnInv' /\ Given' \subseteq Given
<1>1. Types /\ CallsInv /\ MessagesInv /\ PendingExact
  BY DEF OwnInv
<1>2. PICK n \in Call : /\ call' = [call EXCEPT ![c] = n]
                        /\ n.pc = "register" /\ n.id = calls + 1 /\ 1 \in 1..Len(n.cands) /\ n.i = 1
  BY <1>1, InvokeCall
<1>3. /\ call' \in [Callers -> Call] /\ call'[c] = n
      /\ \A d \in Callers : d # c => call'[d] = call[d]
      /\ \A d \in Callers : call'[d].pc # "idle" => call'[d].i \in 1..Len(call'[d].cands)
  BY Zenon, <1>1, <1>2, CallEdit
<1>4. /\ calls' = calls + 1 /\ calls < MaxInvocations /\ call[c].pc = "idle" /\ last' \in Nat
      /\ UNCHANGED <<nextInv, pending, chan, owner, invokes, results, handler, executed>>
  BY Zenon, <1>1, InvokeCall DEF InvokeTask, net
<1>5. Types'
  BY <1>1, <1>3, <1>4, InvokeAssumption DEF Types
<1>6. Asking' = Asking /\ c \notin Asking
  BY <1>2, <1>3, <1>4 DEF Asking
<1>7. Given' \subseteq Given
  BY <1>2, <1>3, <1>4 DEF Given
<1>8. CallsInv'
  <2>1. calls \in Nat /\ calls' = calls + 1
    BY <1>1, <1>4 DEF Types
  <2>2. \A d \in Callers : call'[d].pc # "idle" => call'[d].id \in 1..calls'
    BY <1>1, <1>2, <1>3, <2>1 DEF CallsInv
  <2>3. \A d, e \in Callers : call'[d].pc # "idle" /\ call'[e].pc # "idle" /\ call'[d].id = call'[e].id => d = e
    BY <1>1, <1>2, <1>3, <2>1 DEF CallsInv
  <2>4. \A d \in Asking' :
         /\ call'[d].inv \in Invs /\ call'[d].inv < nextInv'
         /\ owner'[call'[d].inv] = [call |-> call'[d].id, proplet |-> call'[d].cands[call'[d].i]]
    <3>1. \A d \in Asking' : d \in Asking /\ d \in Callers /\ d # c
      BY <1>6 DEF Asking
    <3> QED  BY <1>1, <1>3, <1>4, <3>1 DEF CallsInv
  <2>5. \A v \in Invs : owner'[v].call <= calls'
    BY <1>1, <1>4, <2>1 DEF CallsInv, Types
  <2> QED  BY <2>2, <2>3, <2>4, <2>5 DEF CallsInv, Invs
<1>9. MessagesInv'
  <2>1. \A d \in Callers : call'[d].pc = "leave" => d # c
    BY <1>2, <1>3
  <2>2. \A m \in invokes' \cup Given' : m.inv < nextInv' /\ m.proplet = owner'[m.inv].proplet
    BY <1>1, <1>4, <1>7 DEF MessagesInv
  <2>3. \A v \in Invs, r \in Reply : chan'[v] = <<r>> => r.inv = v
    BY <1>1, <1>4 DEF MessagesInv
  <2>4. \A d \in Callers : call'[d].pc = "leave" /\ call'[d].answer # GaveUp =>
          call'[d].answer \in Reply /\ call'[d].answer.inv = call'[d].inv
    BY <1>1, <1>3, <2>1 DEF MessagesInv
  <2> QED  BY <2>2, <2>3, <2>4 DEF MessagesInv, Invs, Reply, GaveUp
<1>10. PendingExact'
  <2>1. \A d \in Asking : call'[d].inv = call[d].inv
    BY <1>3, <1>6 DEF Asking
  <2>2. pending = {call[d].inv : d \in Asking}
    BY <1>1 DEF PendingExact, Asking
  <2>3. pending' = {call'[d].inv : d \in Asking'}
    BY <1>4, <1>6, <2>1, <2>2
  <2> QED  BY <2>3 DEF PendingExact, Asking
<1> QED  BY <1>5, <1>7, <1>8, <1>9, <1>10 DEF OwnInv

(* A registered invocation is nobody else's. *)
LEMMA OwnRegister ==
    ASSUME OwnInv, NEW c \in Callers, Register(c)
    PROVE  OwnInv' /\ Given' \subseteq Given
<1>1. Types /\ CallsInv /\ MessagesInv /\ PendingExact
  BY DEF OwnInv
<1>2. PICK n \in Call : /\ call' = [call EXCEPT ![c] = n] /\ n.pc = "publish" /\ n.inv = nextInv
                        /\ n.id = call[c].id /\ n.cands = call[c].cands /\ n.i = call[c].i
  BY <1>1, RegisterCall
<1>3. call[c].pc = "register" /\ call[c] \in Call /\ call[c].i \in 1..Len(call[c].cands)
  BY <1>1 DEF Register, Types
<1>4. /\ call' \in [Callers -> Call] /\ call'[c] = n
      /\ \A d \in Callers : d # c => call'[d] = call[d]
      /\ \A d \in Callers : call'[d].pc # "idle" => call'[d].i \in 1..Len(call'[d].cands)
  BY Zenon, <1>1, <1>2, <1>3, CallEdit
<1>5. /\ nextInv \in Invs /\ nextInv' = nextInv + 1 /\ pending' = pending \cup {nextInv}
      /\ owner' = [owner EXCEPT ![nextInv] = [call |-> call[c].id, proplet |-> call[c].cands[call[c].i]]]
      /\ UNCHANGED <<last, calls, chan, invokes, results, handler, executed>>
  BY DEF Register, net
<1>6. call[c].id \in Nat /\ call[c].cands[call[c].i] \in Proplets
  BY <1>3 DEF Call
<1>7. /\ owner' \in [Invs -> [call : Nat, proplet : Proplets \cup {0}]]
      /\ owner'[nextInv] = [call |-> call[c].id, proplet |-> call[c].cands[call[c].i]]
      /\ \A v \in Invs : v # nextInv => owner'[v] = owner[v]
  BY <1>1, <1>5, <1>6 DEF Types
<1>8. Types'
  BY <1>1, <1>4, <1>5, <1>7 DEF Types
<1>9. c \notin Asking /\ Asking' = Asking \cup {c}
  BY <1>2, <1>3, <1>4 DEF Asking
<1>10. Given' \subseteq Given
  BY <1>2, <1>4, <1>5 DEF Given
<1>11. CallsInv'
  <2>1. \A d \in Callers : call'[d].pc # "idle" => call[d].pc # "idle" /\ call'[d].id = call[d].id
    BY <1>2, <1>3, <1>4
  <2>2. \A d \in Callers : call'[d].pc # "idle" => call'[d].id \in 1..calls'
    BY <1>1, <1>5, <2>1 DEF CallsInv
  <2>3. \A d, e \in Callers : call'[d].pc # "idle" /\ call'[e].pc # "idle" /\ call'[d].id = call'[e].id => d = e
    BY <1>1, <2>1 DEF CallsInv
  <2>4. ASSUME NEW d \in Asking'
        PROVE  /\ call'[d].inv \in Invs /\ call'[d].inv < nextInv'
               /\ owner'[call'[d].inv] = [call |-> call'[d].id, proplet |-> call'[d].cands[call'[d].i]]
    <3>1. nextInv \in Nat
      BY <1>1 DEF Types
    <3>2. CASE d = c
      BY <1>2, <1>4, <1>5, <1>7, <3>1, <3>2
    <3>3. CASE d # c
      <4>1. d \in Asking /\ call'[d] = call[d]
        BY <1>4, <1>9, <2>4, <3>3 DEF Asking
      <4>2. /\ call[d].inv \in Invs /\ call[d].inv < nextInv /\ call[d].inv \in Nat
            /\ owner[call[d].inv] = [call |-> call[d].id, proplet |-> call[d].cands[call[d].i]]
        BY <1>1, <4>1 DEF CallsInv, Invs
      <4> QED  BY <1>5, <1>7, <3>1, <4>1, <4>2
    <3> QED  BY <3>2, <3>3
  <2>5. \A v \in Invs : owner'[v].call <= calls'
    <3>1. call[c].id \in 1..calls
      BY <1>1, <1>3 DEF CallsInv
    <3>2. owner'[nextInv].call <= calls
      BY <1>1, <1>7, <3>1 DEF Types
    <3> QED  BY <1>1, <1>5, <1>7, <3>2 DEF CallsInv
  <2> QED  BY <2>2, <2>3, <2>4, <2>5 DEF CallsInv, Invs
<1>12. MessagesInv'
  <2>1. \A d \in Callers : call'[d].pc = "leave" => d # c
    BY <1>2, <1>4
  <2>2. ASSUME NEW m \in invokes' \cup Given'
        PROVE  m.inv < nextInv' /\ m.proplet = owner'[m.inv].proplet
    <3>1. m \in invokes \cup Given
      BY <1>5, <1>10, <2>2
    <3>2. m.inv \in Invs /\ m.inv < nextInv /\ m.proplet = owner[m.inv].proplet
      BY <1>1, <3>1 DEF MessagesInv, Types, Invocation, Given, Reply
    <3> QED  BY <1>1, <1>5, <1>7, <3>2 DEF Types, Invs
  <2>3. \A v \in Invs, r \in Reply : chan'[v] = <<r>> => r.inv = v
    BY <1>1, <1>5 DEF MessagesInv
  <2>4. \A d \in Callers : call'[d].pc = "leave" /\ call'[d].answer # GaveUp =>
          call'[d].answer \in Reply /\ call'[d].answer.inv = call'[d].inv
    BY <1>1, <1>4, <2>1 DEF MessagesInv
  <2> QED  BY <2>2, <2>3, <2>4 DEF MessagesInv, Invs, Reply, GaveUp
<1>13. PendingExact'
  <2>1. \A d \in Asking : call'[d].inv = call[d].inv
    BY <1>4, <1>9 DEF Asking
  <2>2. pending = {call[d].inv : d \in Asking}
    BY <1>1 DEF PendingExact, Asking
  <2>3. pending' = {call'[d].inv : d \in Asking'}
    BY <1>2, <1>4, <1>5, <1>9, <2>1, <2>2
  <2> QED  BY <2>3 DEF PendingExact, Asking
<1> QED  BY <1>8, <1>10, <1>11, <1>12, <1>13 DEF OwnInv

(* A call that goes on with its invocation. *)
LEMMA OwnStay ==
    ASSUME OwnInv, NEW c \in Asking, NEW n \in Call, call' = [call EXCEPT ![c] = n],
           n.pc \in {"wait", "leave"}, n.id = call[c].id, n.inv = call[c].inv,
           n.cands = call[c].cands, n.i = call[c].i,
           n.pc = "leave" /\ n.answer # GaveUp => n.answer \in Reply /\ n.answer.inv = call[c].inv,
           UNCHANGED <<last, nextInv, pending, owner, calls, results, handler, executed>>,
           chan' \in [Invs -> {<<>>} \cup {<<r>> : r \in Reply}],
           \A v \in Invs : chan'[v] = chan[v] \/ chan'[v] = <<>>,
           \A m \in invokes' : m \in invokes \/ m = [inv |-> call[c].inv, proplet |-> call[c].cands[call[c].i]],
           Given' \subseteq Given
    PROVE  OwnInv'
<1>1. Types /\ CallsInv /\ MessagesInv /\ PendingExact /\ c \in Callers
  BY DEF OwnInv, Asking
<1>2. call[c] \in Call /\ call[c].i \in 1..Len(call[c].cands) /\ call[c].pc # "idle"
  BY <1>1 DEF Asking, Types
<1>3. /\ call' \in [Callers -> Call] /\ call'[c] = n
      /\ \A d \in Callers : d # c => call'[d] = call[d]
      /\ \A d \in Callers : call'[d].pc # "idle" => call'[d].i \in 1..Len(call'[d].cands)
  BY Zenon, <1>1, <1>2, CallEdit
<1>4. /\ call[c].inv \in Invs /\ call[c].inv < nextInv
      /\ owner[call[c].inv] = [call |-> call[c].id, proplet |-> call[c].cands[call[c].i]]
  BY <1>1 DEF CallsInv
<1>5. call[c].cands[call[c].i] \in Proplets
  BY <1>2 DEF Call
<1>6. Types'
  <2>1. invokes' \subseteq Invocation
    BY <1>1, <1>4, <1>5 DEF Types, Invocation
  <2> QED  BY <1>1, <1>3, <2>1 DEF Types
<1>7. Asking' = Asking
  BY <1>1, <1>3 DEF Asking
<1>8. CallsInv'
  <2>1. \A d \in Callers : call'[d].pc # "idle" => call[d].pc # "idle" /\ call'[d].id = call[d].id
    BY <1>2, <1>3
  <2>2. \A d \in Callers : call'[d].pc # "idle" => call'[d].id \in 1..calls'
    BY <1>1, <2>1 DEF CallsInv
  <2>3. \A d, e \in Callers : call'[d].pc # "idle" /\ call'[e].pc # "idle" /\ call'[d].id = call'[e].id => d = e
    BY <1>1, <2>1 DEF CallsInv
  <2>4. \A d \in Asking : call'[d].inv = call[d].inv /\ call'[d].id = call[d].id
                          /\ call'[d].cands = call[d].cands /\ call'[d].i = call[d].i
    BY <1>3 DEF Asking
  <2>5. \A d \in Asking' :
         /\ call'[d].inv \in Invs /\ call'[d].inv < nextInv'
         /\ owner'[call'[d].inv] = [call |-> call'[d].id, proplet |-> call'[d].cands[call'[d].i]]
    BY <1>1, <1>7, <2>4 DEF CallsInv
  <2>6. \A v \in Invs : owner'[v].call <= calls'
    BY <1>1 DEF CallsInv
  <2> QED  BY <2>2, <2>3, <2>5, <2>6 DEF CallsInv, Invs
<1>9. MessagesInv'
  <2>1. \A m \in invokes' \cup Given' : m.inv < nextInv' /\ m.proplet = owner'[m.inv].proplet
    BY <1>1, <1>4 DEF MessagesInv
  <2>2. \A v \in Invs, r \in Reply : chan'[v] = <<r>> => r.inv = v
    BY <1>1 DEF MessagesInv
  <2>3. \A d \in Callers : call'[d].pc = "leave" /\ call'[d].answer # GaveUp =>
          call'[d].answer \in Reply /\ call'[d].answer.inv = call'[d].inv
    BY <1>1, <1>3 DEF MessagesInv
  <2> QED  BY <2>1, <2>2, <2>3 DEF MessagesInv, Invs, Reply, GaveUp
<1>10. PendingExact'
  <2>1. \A d \in Asking : call'[d].inv = call[d].inv
    BY <1>3 DEF Asking
  <2>2. pending = {call[d].inv : d \in Asking}
    BY <1>1 DEF PendingExact, Asking
  <2>3. pending' = {call'[d].inv : d \in Asking'}
    BY <1>7, <2>1, <2>2
  <2> QED  BY <2>3 DEF PendingExact, Asking
<1> QED  BY <1>6, <1>8, <1>9, <1>10 DEF OwnInv

(* The publish. *)
LEMMA OwnPublish ==
    ASSUME OwnInv, NEW c \in Callers, PublishInvoke(c)
    PROVE  OwnInv' /\ Given' \subseteq Given
<1>1. Types /\ c \in Asking
  BY DEF OwnInv, PublishInvoke, Asking
<1>2. PICK n \in Call : /\ call' = [call EXCEPT ![c] = n]
                        /\ n.pc = "wait" \/ (n.pc = "leave" /\ n.answer = GaveUp)
                        /\ n.id = call[c].id /\ n.inv = call[c].inv
                        /\ n.cands = call[c].cands /\ n.i = call[c].i
  BY <1>1, PublishCall
<1>3. UNCHANGED <<last, nextInv, pending, owner, calls, results, handler, executed, chan>>
  BY DEF PublishInvoke
<1>4. call'[c] = n /\ \A d \in Callers : d # c => call'[d] = call[d]
  BY <1>1, <1>2 DEF Types
<1>5. Given' \subseteq Given
  BY <1>2, <1>3, <1>4, NotReply DEF Given
<1>6. chan' \in [Invs -> {<<>>} \cup {<<r>> : r \in Reply}] /\ \A v \in Invs : chan'[v] = chan[v] \/ chan'[v] = <<>>
  BY <1>1, <1>3 DEF Types
<1>7. \A m \in invokes' : m \in invokes \/ m = [inv |-> call[c].inv, proplet |-> call[c].cands[call[c].i]]
  BY <1>1, PublishCall
<1> QED  BY Zenon, <1>1, <1>2, <1>3, <1>5, <1>6, <1>7, OwnStay

(* The answer. *)
LEMMA OwnReceive ==
    ASSUME OwnInv, NEW c \in Callers, Receive(c)
    PROVE  OwnInv' /\ Given' \subseteq Given
<1>1. Types /\ MessagesInv /\ c \in Asking
  BY DEF OwnInv, Receive, Asking
<1>2. call[c].inv \in Invs
  BY Zenon, <1>1 DEF OwnInv, CallsInv
<1>3. PICK n \in Call, r \in Reply :
              /\ call' = [call EXCEPT ![c] = n] /\ chan' = [chan EXCEPT ![call[c].inv] = <<>>]
              /\ chan[call[c].inv] = <<r>> /\ n.pc = "leave" /\ n.answer = r
              /\ n.id = call[c].id /\ n.inv = call[c].inv
              /\ n.cands = call[c].cands /\ n.i = call[c].i
  BY Zenon, <1>1, <1>2, ReceiveCall
<1>4. UNCHANGED <<last, nextInv, pending, owner, calls, results, handler, executed, invokes>>
  BY DEF Receive, net
<1>5. call'[c] = n /\ \A d \in Callers : d # c => call'[d] = call[d]
  BY <1>1, <1>3 DEF Types
<1>6. r.inv = call[c].inv
  BY <1>1, <1>2, <1>3 DEF MessagesInv
<1>7. /\ chan' \in [Invs -> {<<>>} \cup {<<q>> : q \in Reply}]
      /\ \A v \in Invs : chan'[v] = chan[v] \/ chan'[v] = <<>>
  BY <1>1, <1>2, <1>3 DEF Types
<1>8. Given' \subseteq Given
  <2> SUFFICES ASSUME NEW q \in Given' PROVE q \in Given
    OBVIOUS
  <2>1. q \in Reply
    BY DEF Given
  <2>2. CASE q \in results' \/ q = handler'
    BY <1>4, <2>1, <2>2 DEF Given
  <2>3. CASE \E v \in Invs : chan'[v] = <<q>>
    BY <1>7, <2>1, <2>3 DEF Given
  <2>4. CASE \E d \in Callers : call'[d].pc = "leave" /\ call'[d].answer = q
    <3>1. PICK d \in Callers : call'[d].pc = "leave" /\ call'[d].answer = q
      BY <2>4
    <3>2. CASE d = c
      BY <1>2, <1>3, <1>5, <2>1, <3>1, <3>2 DEF Given
    <3>3. CASE d # c
      BY <1>5, <2>1, <3>1, <3>3 DEF Given
    <3> QED  BY <3>2, <3>3
  <2> QED  BY <2>2, <2>3, <2>4 DEF Given, Reply, Invs
<1> QED  BY Zenon, <1>1, <1>3, <1>4, <1>6, <1>7, <1>8, OwnStay

(* The timer. *)
LEMMA OwnGiveUp ==
    ASSUME OwnInv, NEW c \in Callers, GiveUp(c)
    PROVE  OwnInv' /\ Given' \subseteq Given
<1>1. Types /\ c \in Asking
  BY DEF OwnInv, GiveUp, Asking
<1>2. PICK n \in Call : /\ call' = [call EXCEPT ![c] = n] /\ n.pc = "leave" /\ n.answer = GaveUp
                        /\ n.id = call[c].id /\ n.inv = call[c].inv
                        /\ n.cands = call[c].cands /\ n.i = call[c].i
  BY <1>1, GiveUpCall
<1>3. UNCHANGED <<last, nextInv, pending, owner, calls, results, handler, executed, chan, invokes>>
  BY DEF GiveUp, net
<1>4. call'[c] = n /\ \A d \in Callers : d # c => call'[d] = call[d]
  BY <1>1, <1>2 DEF Types
<1>5. Given' \subseteq Given
  BY <1>2, <1>3, <1>4, NotReply DEF Given
<1>6. chan' \in [Invs -> {<<>>} \cup {<<r>> : r \in Reply}] /\ \A v \in Invs : chan'[v] = chan[v] \/ chan'[v] = <<>>
  BY <1>1, <1>3 DEF Types
<1> QED  BY Zenon, <1>1, <1>2, <1>3, <1>5, <1>6, OwnStay

(* The deferred delete takes out this call's entry and no other. *)
LEMMA OwnLeave ==
    ASSUME OwnInv, NEW c \in Callers, Leave(c)
    PROVE  OwnInv' /\ Given' \subseteq Given
<1>1. Types /\ CallsInv /\ MessagesInv /\ PendingExact /\ c \in Asking /\ call[c].pc = "leave"
  BY DEF OwnInv, Leave, Asking
<1>2. PICK n \in Call :
              /\ call' = [call EXCEPT ![c] = n]
              /\ \/ n.pc = "idle"
                 \/ /\ n.pc = "register" /\ TriesNext(call[c].answer) /\ n.id = call[c].id
                    /\ n.i \in 1..Len(n.cands)
  BY <1>1, LeaveCall
<1>3. /\ call' \in [Callers -> Call] /\ call'[c] = n
      /\ \A d \in Callers : d # c => call'[d] = call[d]
      /\ \A d \in Callers : call'[d].pc # "idle" => call'[d].i \in 1..Len(call'[d].cands)
  BY Zenon, <1>1, <1>2, CallEdit
<1>4. /\ pending' = pending \ {call[c].inv}
      /\ UNCHANGED <<last, nextInv, chan, calls, owner, invokes, results, handler, executed>>
  BY DEF Leave, Unregister
<1>5. Types'
  BY <1>1, <1>3, <1>4 DEF Types
<1>6. Asking' = Asking \ {c} /\ \A d \in Asking' : call'[d] = call[d]
  BY <1>2, <1>3 DEF Asking
<1>7. Given' \subseteq Given
  BY <1>2, <1>3, <1>4 DEF Given
<1>8. CallsInv'
  <2>1. \A d \in Callers : call'[d].pc # "idle" => call[d].pc # "idle" /\ call'[d].id = call[d].id
    BY <1>1, <1>2, <1>3
  <2>2. \A d \in Callers : call'[d].pc # "idle" => call'[d].id \in 1..calls'
    BY <1>1, <1>4, <2>1 DEF CallsInv
  <2>3. \A d, e \in Callers : call'[d].pc # "idle" /\ call'[e].pc # "idle" /\ call'[d].id = call'[e].id => d = e
    BY <1>1, <2>1 DEF CallsInv
  <2>4. \A d \in Asking' :
         /\ call'[d].inv \in Invs /\ call'[d].inv < nextInv'
         /\ owner'[call'[d].inv] = [call |-> call'[d].id, proplet |-> call'[d].cands[call'[d].i]]
    BY ZenonT(30), <1>1, <1>4, <1>6 DEF CallsInv
  <2>5. \A v \in Invs : owner'[v].call <= calls'
    BY ZenonT(30), <1>1, <1>4 DEF CallsInv
  <2> QED  BY <2>2, <2>3, <2>4, <2>5 DEF CallsInv, Invs
<1>9. MessagesInv'
  <2>1. \A m \in invokes' \cup Given' : m.inv < nextInv' /\ m.proplet = owner'[m.inv].proplet
    BY Zenon, <1>1, <1>4, <1>7 DEF MessagesInv
  <2>2. \A v \in Invs, r \in Reply : chan'[v] = <<r>> => r.inv = v
    BY <1>1, <1>4 DEF MessagesInv
  <2>3. \A d \in Callers : call'[d].pc = "leave" /\ call'[d].answer # GaveUp =>
          call'[d].answer \in Reply /\ call'[d].answer.inv = call'[d].inv
    BY <1>1, <1>2, <1>3 DEF MessagesInv
  <2> QED  BY <2>1, <2>2, <2>3 DEF MessagesInv, Invs, Reply, GaveUp
<1>10. PendingExact'
  <2>1. \A d \in Asking \ {c} : call[d].inv # call[c].inv
    <3> SUFFICES ASSUME NEW d \in Asking \ {c}, call[d].inv = call[c].inv PROVE FALSE
      OBVIOUS
    <3>1. /\ owner[call[d].inv] = [call |-> call[d].id, proplet |-> call[d].cands[call[d].i]]
          /\ owner[call[c].inv] = [call |-> call[c].id, proplet |-> call[c].cands[call[c].i]]
      BY <1>1 DEF CallsInv
    <3>2. owner[call[d].inv].call = call[d].id /\ owner[call[c].inv].call = call[c].id
      BY <3>1
    <3> QED  BY <1>1, <3>2 DEF CallsInv, Asking
  <2>2. pending = {call[d].inv : d \in Asking}
    BY <1>1 DEF PendingExact, Asking
  <2>3. pending' = {call'[d].inv : d \in Asking'}
    BY <1>4, <1>6, <2>1, <2>2
  <2> QED  BY <2>3 DEF PendingExact, Asking
<1> QED  BY <1>5, <1>7, <1>8, <1>9, <1>10 DEF OwnInv

(* The calls do not move, and what moves in the network names registered     *)
(* invocations.                                                              *)
LEMMA OwnFrame ==
    ASSUME OwnInv, Types', UNCHANGED <<call, nextInv, pending, owner, calls>>,
           \A m \in invokes' \cup Given' : m.inv < nextInv /\ m.proplet = owner[m.inv].proplet,
           \A v \in Invs, r \in Reply : chan'[v] = <<r>> => r.inv = v
    PROVE  OwnInv'
<1>1. CallsInv /\ MessagesInv /\ PendingExact
  BY DEF OwnInv
<1>2. CallsInv'
  BY <1>1 DEF CallsInv, Asking, Invs
<1>3. MessagesInv'
  BY <1>1 DEF MessagesInv, Invs, Reply, GaveUp
<1>4. PendingExact'
  BY <1>1 DEF PendingExact
<1> QED  BY <1>2, <1>3, <1>4 DEF OwnInv

(* The handler, the proplets and the losses. *)
LEMMA OwnHandle ==
    ASSUME OwnInv, HandleResult
    PROVE  OwnInv' /\ Given' \subseteq Given
<1>1. Types /\ MessagesInv
  BY DEF OwnInv
<1>2. UNCHANGED <<last, call, nextInv, pending, chan, invokes, owner, calls, executed>>
  BY DEF HandleResult
<1>3. PICK r \in results : handler' \in {r, NoAnswer} /\ results' \subseteq results
  BY DEF HandleResult
<1>4. Types'
  BY <1>1, <1>2, <1>3 DEF Types
<1>5. Given' \subseteq Given
  BY <1>1, <1>2, <1>3, NotReply DEF Given
<1>6. /\ \A m \in invokes' \cup Given' : m.inv < nextInv /\ m.proplet = owner[m.inv].proplet
      /\ \A v \in Invs, q \in Reply : chan'[v] = <<q>> => q.inv = v
  BY <1>1, <1>2, <1>5 DEF MessagesInv
<1> QED  BY <1>2, <1>4, <1>5, <1>6, OwnFrame

LEMMA OwnSend ==
    ASSUME OwnInv, HandlerSend
    PROVE  OwnInv' /\ Given' \subseteq Given
<1>1. Types /\ MessagesInv
  BY DEF OwnInv
<1>2. UNCHANGED <<last, call, nextInv, pending, invokes, results, owner, calls, executed>> /\ handler' = NoAnswer
  BY DEF HandlerSend
<1>3. handler \in Reply /\ handler.inv \in Invs
  BY <1>1 DEF HandlerSend, Types, Reply
<1>4. /\ chan' \in [Invs -> {<<>>} \cup {<<q>> : q \in Reply}]
      /\ \A v \in Invs : chan'[v] = chan[v] \/ (v = handler.inv /\ chan'[v] = <<handler>>)
  BY <1>1, <1>3 DEF HandlerSend, Types
<1>5. Types'
  BY <1>1, <1>2, <1>4 DEF Types
<1>6. Given' \subseteq Given
  <2> SUFFICES ASSUME NEW q \in Given' PROVE q \in Given
    OBVIOUS
  <2>1. q \in Reply /\ q # handler'
    BY <1>2, NotReply DEF Given
  <2>2. ASSUME NEW v \in Invs, chan'[v] = <<q>> PROVE q \in Given
    BY <1>4, <2>1, <2>2 DEF Given
  <2> QED  BY <1>2, <2>1, <2>2 DEF Given, Invs, Reply
<1>7. \A v \in Invs, q \in Reply : chan'[v] = <<q>> => q.inv = v
  BY <1>1, <1>4 DEF MessagesInv
<1>8. \A m \in invokes' \cup Given' : m.inv < nextInv /\ m.proplet = owner[m.inv].proplet
  BY <1>1, <1>2, <1>6 DEF MessagesInv
<1> QED  BY <1>2, <1>5, <1>6, <1>7, <1>8, OwnFrame

(* A proplet answers an invocation it was sent. *)
LEMMA OwnProplet ==
    ASSUME OwnInv, PropletInvoke
    PROVE  /\ OwnInv'
           /\ \E m \in invokes, what \in Outcomes :
                /\ executed' = IF what = "not precompiled" THEN executed
                               ELSE [executed EXCEPT ![owner[m.inv].call] = @ + 1]
                /\ invokes' = invokes \ {m}
                /\ Given' \subseteq Given \cup {[inv |-> m.inv, proplet |-> m.proplet, what |-> what]}
<1>1. Types /\ MessagesInv /\ CallsInv
  BY DEF OwnInv
<1>2. UNCHANGED <<last, call, nextInv, pending, chan, handler, owner, calls>>
  BY Zenon DEF PropletInvoke
<1>3. PICK m \in invokes, what \in Outcomes :
         /\ executed' = IF what = "not precompiled" THEN executed
                        ELSE [executed EXCEPT ![owner[m.inv].call] = @ + 1]
         /\ results' = results \cup {[inv |-> m.inv, proplet |-> m.proplet, what |-> what]}
         /\ invokes' = invokes \ {m}
  BY Zenon DEF PropletInvoke, Outcomes
<1>4. m \in Invocation /\ m.inv \in Invs /\ m.proplet \in Proplets
  BY <1>1 DEF Types, Invocation
<1> DEFINE q == [inv |-> m.inv, proplet |-> m.proplet, what |-> what]
<1>5. q \in Reply /\ q.inv = m.inv /\ q.proplet = m.proplet
  BY <1>4 DEF Reply
<1>6. results' = results \cup {q}
  BY Zenon, <1>3
<1>7. Types'
  <2>1. executed' \in [Invs -> Nat]
    <3>1. ASSUME NEW k PROVE [executed EXCEPT ![k] = @ + 1] \in [Invs -> Nat]
      <4>1. executed \in [Invs -> Nat]
        BY <1>1 DEF Types
      <4>2. \A v \in Invs : [executed EXCEPT ![k] = @ + 1][v] \in Nat
        BY <4>1
      <4> QED  BY Zenon, <4>1, <4>2
    <3> QED  BY Zenon, <1>1, <1>3, <3>1 DEF Types
  <2>2. results' \subseteq Reply
    BY <1>1, <1>5, <1>6 DEF Types
  <2> QED  BY Zenon, <1>1, <1>2, <1>3, <2>1, <2>2 DEF Types
<1>8. Given' \subseteq Given \cup {q}
  BY <1>2, <1>6 DEF Given
<1>9. \A n \in invokes' \cup Given' : n.inv < nextInv /\ n.proplet = owner[n.inv].proplet
  BY ZenonT(30), <1>1, <1>3, <1>5, <1>8 DEF MessagesInv
<1>10. \A v \in Invs, r \in Reply : chan'[v] = <<r>> => r.inv = v
  BY <1>1, <1>2 DEF MessagesInv
<1>11. OwnInv'
  BY <1>2, <1>7, <1>9, <1>10, OwnFrame
<1> QED  BY Zenon, <1>3, <1>8, <1>11

(* Starts, restarts, losses, and steps of something else. *)
LEMMA OwnShrink ==
    ASSUME OwnInv, \/ PropletStart \/ Lose \/ UNCHANGED vars
                   \/ \E p \in Proplets : PropletRestart(p)
    PROVE  /\ OwnInv' /\ Given' \subseteq Given
           /\ UNCHANGED <<call, owner, calls, executed>> /\ invokes' \subseteq invokes
<1>1. Types /\ MessagesInv
  BY DEF OwnInv
<1>2. /\ UNCHANGED <<last, call, nextInv, pending, chan, handler, owner, calls, executed>>
      /\ invokes' \subseteq invokes /\ results' \subseteq results
  BY DEF PropletStart, Lose, PropletRestart, vars
<1>3. Types'
  BY <1>1, <1>2 DEF Types
<1>4. Given' \subseteq Given
  BY <1>2 DEF Given
<1>5. /\ \A m \in invokes' \cup Given' : m.inv < nextInv /\ m.proplet = owner[m.inv].proplet
      /\ \A v \in Invs, q \in Reply : chan'[v] = <<q>> => q.inv = v
  BY <1>1, <1>2, <1>4 DEF MessagesInv
<1> QED  BY <1>2, <1>3, <1>4, <1>5, OwnFrame

(* At the start there are no calls and no messages. *)
LEMMA OwnInit ==
    ASSUME Init
    PROVE  OwnInv /\ Given = {}
<1>1. Types
  <2>1. NoCall \in Call
    BY DEF NoCall, Call
  <2> QED  BY <2>1, InvokeAssumption DEF Init, Types, NoCall, Invs
<1>2. Given = {}
  BY NotReply DEF Init, Given, NoCall
<1>3. CallsInv
  BY DEF Init, CallsInv, Asking, NoCall
<1>4. MessagesInv
  BY <1>2 DEF Init, MessagesInv, NoCall
<1>5. PendingExact
  BY DEF Init, PendingExact, NoCall
<1> QED  BY <1>1, <1>2, <1>3, <1>4, <1>5 DEF OwnInv

LEMMA OwnNext ==
    ASSUME OwnInv, [Next]_vars
    PROVE  OwnInv'
BY Zenon, OwnInvoke, OwnRegister, OwnPublish, OwnReceive, OwnGiveUp,
   OwnLeave, OwnHandle, OwnSend, OwnProplet, OwnShrink
   DEF Next, CallStep

(* The answer a call returns was given to this call, by the proplet it is    *)
(* asking (invokeOnProplet, updateInvokeResultsHandler), whatever MQTT loses *)
(* or repeats and whichever calls run beside it.                             *)
THEOREM ReturnsOwnAnswer == Spec => []OwnAnswer
<1>1. ASSUME OwnInv PROVE OwnAnswer
  <2> SUFFICES ASSUME NEW c \in Callers, call[c].pc = "leave", call[c].answer # GaveUp
               PROVE  /\ owner[call[c].answer.inv].call = call[c].id
                      /\ call[c].answer.proplet = call[c].cands[call[c].i]
    BY DEF OwnAnswer
  <2>1. c \in Asking
    BY DEF Asking
  <2>2. call[c].answer \in Reply /\ call[c].answer.inv = call[c].inv
    BY <1>1 DEF OwnInv, MessagesInv
  <2>3. call[c].answer \in Given
    BY <2>2 DEF Given
  <2>4. call[c].answer.proplet = owner[call[c].inv].proplet
    BY <1>1, <2>2, <2>3 DEF OwnInv, MessagesInv
  <2>5. owner[call[c].inv] = [call |-> call[c].id, proplet |-> call[c].cands[call[c].i]]
    BY <1>1, <2>1 DEF OwnInv, CallsInv
  <2> QED  BY <2>2, <2>4, <2>5
<1> QED  BY <1>1, OwnInit, OwnNext, PTL DEF Spec

(* pendingInvokes holds the channels of the calls that wait and nothing      *)
(* else: every way out of invokeOnProplet takes its entry out.               *)
THEOREM PendingIsExact == Spec => []PendingExact
<1>1. OwnInv => PendingExact
  BY DEF OwnInv
<1> QED  BY <1>1, OwnInit, OwnNext, PTL DEF Spec

-----------------------------------------------------------------------------
(* Messages keep their calls: an invocation that was registered is not       *)
(* registered again.                                                         *)
LEMMA OfStays ==
    ASSUME OwnInv, \A v \in Invs : v < nextInv => owner'[v] = owner[v]
    PROVE  \A m \in invokes : owner'[m.inv].call = Of(m)
BY DEF OwnInv, MessagesInv, Types, Invocation, Of

(* No new call. *)
LEMMA CallsStay ==
    ASSUME Types, calls' = calls
    PROVE  calls' \in Nat /\ calls <= calls'
<1>1. calls \in Nat
  BY Zenon DEF Types
<1> QED  BY <1>1

(* Nothing runs and nothing is published; the callers that move are steady   *)
(* where they come to.                                                       *)
LEMMA OnceQuiet ==
    ASSUME OwnInv, OnceInv, executed' = executed, invokes' \subseteq invokes, calls' \in Nat, calls <= calls',
           Given' \subseteq Given, \A v \in Invs : v < nextInv => owner'[v] = owner[v],
           \A d \in Callers : call'[d] = call[d] \/ Steady(d)'
    PROVE  OnceInv'
<1>1. \A m \in invokes' : m \in invokes /\ owner'[m.inv].call = Of(m)
  BY OfStays
<1>2. calls \in Nat
  BY DEF OwnInv, Types
<1>3. ASSUME NEW d \in Callers, call'[d] = call[d]
      PROVE  Steady(d)'
  <2>1. Steady(d)
    BY DEF OnceInv
  <2>2. Fresh(call[d].id) => Fresh(call[d].id)'
    BY <1>1, <1>3 DEF Fresh, Of
  <2> QED  BY Zenon, <1>1, <1>3, <2>1, <2>2 DEF Steady, Of, Asking, TriesNext
<1>4. \A d \in Callers : Steady(d)'
  BY <1>3
<1>5. \A v \in Invs : executed'[v] <= 1 /\ (v > calls' => executed'[v] = 0)
  BY <1>2 DEF OnceInv, Invs
<1>6. \A m \in invokes' : owner'[m.inv].call \in Invs /\ executed'[owner'[m.inv].call] = 0
  BY <1>1 DEF OnceInv
<1>7. \A m, n \in invokes' : owner'[m.inv].call = owner'[n.inv].call => m = n
  BY <1>1 DEF OnceInv
<1> QED  BY <1>4, <1>5, <1>6, <1>7 DEF OnceInv, Invs, Of

(* A call begins fresh. *)
LEMMA OnceInvoke ==
    ASSUME OwnInv, OnceInv, NEW c \in Callers, InvokeTask(c)
    PROVE  OnceInv'
<1>1. Types /\ Given' \subseteq Given /\ OwnInv'
  BY OwnInvoke DEF OwnInv
<1>2. PICK n \in Call : call' = [call EXCEPT ![c] = n] /\ n.pc = "register" /\ n.id = calls + 1
  BY <1>1, InvokeCall
<1>3. call'[c] = n /\ \A d \in Callers : d # c => call'[d] = call[d]
  BY <1>1, <1>2 DEF Types
<1>4. calls' = calls + 1 /\ calls < MaxInvocations /\ UNCHANGED <<owner, invokes, executed>>
  BY Zenon DEF InvokeTask, net
<1>5. calls \in Nat /\ calls + 1 \in Invs /\ calls + 1 > calls
  BY <1>1, <1>4, InvokeAssumption DEF Types, Invs
<1>6. executed[calls + 1] = 0
  BY <1>5 DEF OnceInv
<1>7. ASSUME NEW m \in invokes PROVE owner[m.inv].call # calls + 1
  <2>1. m.inv \in Invs
    BY <1>1 DEF Types, Invocation
  <2>2. owner[m.inv].call <= calls /\ owner[m.inv].call \in Nat
    BY ZenonT(30), <1>1, <2>1 DEF OwnInv, CallsInv, Types
  <2> QED  BY <1>5, <2>2
<1>8. Steady(c)'
  BY ZenonT(30), <1>2, <1>3, <1>4, <1>6, <1>7 DEF Steady, Fresh, Of, Asking
<1> QED  BY <1>1, <1>3, <1>4, <1>5, <1>8, OnceQuiet

(* A new invocation has no answer yet. *)
LEMMA OnceRegister ==
    ASSUME OwnInv, OnceInv, NEW c \in Callers, Register(c)
    PROVE  OnceInv'
<1>1. Types /\ Given' \subseteq Given /\ OwnInv' /\ call[c].pc = "register"
  BY Zenon, OwnRegister DEF OwnInv, Register
<1>2. PICK n \in Call : /\ call' = [call EXCEPT ![c] = n] /\ n.pc = "publish" /\ n.inv = nextInv
                        /\ n.id = call[c].id
  BY <1>1, RegisterCall
<1>3. call'[c] = n /\ \A d \in Callers : d # c => call'[d] = call[d]
  BY Zenon, <1>1, <1>2 DEF Types
<1>4. /\ nextInv \in Invs /\ UNCHANGED <<calls, invokes, executed>>
      /\ owner' = [owner EXCEPT ![nextInv] = [call |-> call[c].id, proplet |-> call[c].cands[call[c].i]]]
  BY DEF Register, net
<1>5. \A v \in Invs : v < nextInv => owner'[v] = owner[v]
  <2>1. owner \in [Invs -> [call : Nat, proplet : Proplets \cup {0}]] /\ nextInv \in Nat
    BY Zenon, <1>1 DEF Types
  <2>2. \A v \in Invs : v < nextInv => v # nextInv
    BY <2>1 DEF Invs
  <2> QED  BY Zenon, <1>4, <2>1, <2>2
<1>6. \A m \in invokes : owner'[m.inv].call = Of(m)
  BY <1>5, OfStays
<1>7. executed[call[c].id] = 0 /\ \A m \in invokes : Of(m) # call[c].id
  BY Zenon, <1>1 DEF OnceInv, Steady, Fresh
<1>8. ASSUME NEW r \in Given' PROVE r.inv # nextInv
  <2>1. r \in Given /\ r.inv \in Invs /\ nextInv \in Nat
    BY Zenon, <1>1 DEF Given, Reply, Types
  <2>2. r.inv < nextInv
    BY <2>1 DEF OwnInv, MessagesInv
  <2> QED  BY <2>1, <2>2 DEF Invs
<1>9. Steady(c)'
  BY Zenon, <1>2, <1>3, <1>4, <1>6, <1>7, <1>8 DEF Steady, Fresh, Of, Asking
<1>10. calls' \in Nat /\ calls <= calls'
  BY Zenon, <1>1, <1>4, CallsStay
<1> QED  BY Zenon, <1>1, <1>3, <1>4, <1>5, <1>9, <1>10, OnceQuiet

(* A call that goes on with its invocation and sends nothing. *)
LEMMA OnceStop ==
    ASSUME OwnInv, OnceInv, NEW c \in Callers, NEW n \in Call, call' = [call EXCEPT ![c] = n],
           call[c].pc \in {"publish", "wait"}, n.pc \in {"wait", "leave"}, n.id = call[c].id, n.inv = call[c].inv,
           UNCHANGED <<calls, invokes, executed, owner>>, Given' \subseteq Given
    PROVE  OnceInv'
<1>1. Types /\ c \in Asking /\ Steady(c)
  BY DEF OwnInv, OnceInv, Asking
<1>2. call'[c] = n /\ \A d \in Callers : d # c => call'[d] = call[d]
  BY <1>1 DEF Types
<1>3. \A m \in invokes : Of(m) = call[c].id => m.inv = call[c].inv
  BY <1>1 DEF Steady, Fresh
<1>4. \A r \in Given : r.inv = call[c].inv /\ TriesNext(r) => Fresh(call[c].id)
  BY <1>1 DEF Steady
<1>5. Steady(c)'
  <2>1. Fresh(call[c].id) => Fresh(call[c].id)'
    BY <1>2 DEF Fresh, Of
  <2>2. \A r \in Given' : r.inv = call'[c].inv /\ TriesNext(r) => Fresh(call[c].id)'
    BY <1>2, <1>4, <2>1
  <2>3. \A m \in invokes' : owner'[m.inv].call = call'[c].id => m.inv = call'[c].inv
    BY <1>2, <1>3 DEF Of
  <2> QED  BY ZenonT(30), <1>2, <2>2, <2>3 DEF Steady, Of, TriesNext
<1>6. calls' \in Nat /\ calls <= calls'
  BY Zenon, <1>1, CallsStay
<1> QED  BY <1>2, <1>5, <1>6, OnceQuiet

(* The publish: the call's only invocation in flight. *)
LEMMA OncePublish ==
    ASSUME OwnInv, OnceInv, NEW c \in Callers, PublishInvoke(c)
    PROVE  OnceInv'
<1>1. Types /\ CallsInv /\ Given' \subseteq Given /\ call[c].pc = "publish" /\ c \in Asking /\ Steady(c)
  BY OwnPublish DEF OwnInv, OnceInv, PublishInvoke, Asking
<1>2. PICK n \in Call : /\ call' = [call EXCEPT ![c] = n]
                        /\ n.pc = "wait" \/ (n.pc = "leave" /\ n.answer = GaveUp)
                        /\ n.id = call[c].id /\ n.inv = call[c].inv
  BY <1>1, PublishCall
<1>3. UNCHANGED <<owner, calls, executed>>
  BY DEF PublishInvoke
<1>4. CASE invokes' = invokes
  BY Zenon, <1>1, <1>2, <1>3, <1>4, OnceStop
<1>5. CASE invokes' = invokes \cup {[inv |-> call[c].inv, proplet |-> call[c].cands[call[c].i]]}
  <2> DEFINE m0 == [inv |-> call[c].inv, proplet |-> call[c].cands[call[c].i]]
             id == call[c].id
  <2>1. PICK m : m.inv = call[c].inv /\ invokes' = invokes \cup {m}
    <3>1. m0.inv = call[c].inv
      OBVIOUS
    <3> QED  BY Zenon, <1>5, <3>1
  <2>2. call'[c] = n /\ \A d \in Callers : d # c => call'[d] = call[d]
    BY Zenon, <1>1, <1>2 DEF Types
  <2>3. Of(m) = id /\ id \in 1..calls /\ id \in Invs
    <3>1. owner[m.inv] = [call |-> id, proplet |-> call[c].cands[call[c].i]]
      BY <1>1, <2>1 DEF CallsInv
    <3>2. id \in 1..calls /\ calls \in Nat /\ calls <= MaxInvocations
      BY <1>1 DEF CallsInv, Types
    <3>3. id \in Invs
      BY <3>2, InvokeAssumption DEF Invs
    <3> QED  BY <3>1, <3>2, <3>3 DEF Of
  <2>4. executed[id] = 0 /\ \A k \in invokes : Of(k) # id
    BY <1>1 DEF Steady, Fresh
  <2>5. ASSUME NEW d \in Callers, d # c PROVE Steady(d)'
    <3>1. Steady(d)
      BY DEF OnceInv
    <3>2. call[d].pc # "idle" => call[d].id # id
      BY <1>1, <2>5 DEF CallsInv
    <3>3. call[d].pc # "idle" /\ Fresh(call[d].id) => Fresh(call[d].id)'
      BY ZenonT(30), <1>3, <2>1, <2>2, <2>3, <2>5, <3>2 DEF Fresh, Of
    <3> QED  BY ZenonT(30), <1>1, <1>3, <2>1, <2>2, <2>3, <2>5, <3>1, <3>2, <3>3 DEF Steady, Of, Asking, TriesNext
  <2>6. Steady(c)'
    <3>1. \A k \in invokes' : owner'[k.inv].call = id => k.inv = call[c].inv
      BY <1>3, <2>1, <2>4 DEF Of
    <3>2. \A r \in Given' : r.inv # call[c].inv
      BY <1>1 DEF Steady
    <3> QED  BY Zenon, <1>2, <1>5, <2>2, <3>1, <3>2 DEF Steady, Of, Asking
  <2>7. \A v \in Invs : executed'[v] <= 1 /\ (v > calls' => executed'[v] = 0)
    BY <1>3 DEF OnceInv
  <2>8. \A k \in invokes' : owner'[k.inv].call \in Invs /\ executed'[owner'[k.inv].call] = 0
    BY <1>3, <2>1, <2>3, <2>4 DEF OnceInv, Of
  <2>9. \A k, l \in invokes' : owner'[k.inv].call = owner'[l.inv].call => k = l
    BY <1>3, <2>1, <2>3, <2>4 DEF OnceInv, Of
  <2> QED  BY <2>5, <2>6, <2>7, <2>8, <2>9 DEF OnceInv, Invs, Of
<1> QED  BY Zenon, <1>1, <1>4, <1>5, PublishCall

(* The next candidate is asked only when the function did not run. *)
LEMMA OnceLeave ==
    ASSUME OwnInv, OnceInv, NEW c \in Callers, Leave(c)
    PROVE  OnceInv'
<1>1. Types /\ MessagesInv /\ Given' \subseteq Given /\ call[c].pc = "leave" /\ c \in Asking /\ Steady(c)
  BY OwnLeave DEF OwnInv, OnceInv, Leave, Asking
<1>2. PICK n \in Call :
              /\ call' = [call EXCEPT ![c] = n]
              /\ n.pc = "idle" \/ (n.pc = "register" /\ TriesNext(call[c].answer) /\ n.id = call[c].id)
  BY <1>1, LeaveCall
<1>3. call'[c] = n /\ \A d \in Callers : d # c => call'[d] = call[d]
  BY <1>1, <1>2 DEF Types
<1>4. UNCHANGED <<calls, invokes, executed, owner>>
  BY DEF Leave
<1>5. TriesNext(call[c].answer) => executed[call[c].id] = 0 /\ \A m \in invokes : Of(m) # call[c].id
  <2>1. TriesNext(call[c].answer) => call[c].answer # GaveUp
    <3>1. GaveUp.what = "error"
      BY DEF GaveUp
    <3> QED  BY Zenon, <3>1 DEF TriesNext
  <2>2. TriesNext(call[c].answer) =>
          call[c].answer \in Reply /\ call[c].answer.inv = call[c].inv /\ call[c].answer \in Given
    BY <1>1, <2>1 DEF MessagesInv, Given
  <2> QED  BY <1>1, <2>2 DEF Steady, Fresh
<1>6. Steady(c)'
  BY <1>2, <1>3, <1>4, <1>5 DEF Steady, Fresh, Of, Asking
<1>7. calls' \in Nat /\ calls <= calls'
  BY Zenon, <1>1, <1>4, CallsStay
<1> QED  BY <1>1, <1>3, <1>4, <1>6, <1>7, OnceQuiet

(* A proplet runs the function of the call whose invocation it takes, or     *)
(* says that it did not.                                                     *)
LEMMA OnceProplet ==
    ASSUME OwnInv, OnceInv, PropletInvoke
    PROVE  OnceInv'
<1>1. Types /\ CallsInv
  BY DEF OwnInv
<1>2. PICK m \in invokes, what \in Outcomes :
         /\ executed' = IF what = "not precompiled" THEN executed
                        ELSE [executed EXCEPT ![owner[m.inv].call] = @ + 1]
         /\ invokes' = invokes \ {m}
         /\ Given' \subseteq Given \cup {[inv |-> m.inv, proplet |-> m.proplet, what |-> what]}
  BY Zenon, OwnProplet
<1>3. UNCHANGED <<call, owner, calls>>
  BY Zenon DEF PropletInvoke
<1>4. PICK q : q.inv = m.inv /\ q.what = what /\ Given' \subseteq Given \cup {q}
  <2> DEFINE s == [inv |-> m.inv, proplet |-> m.proplet, what |-> what]
  <2>1. s.inv = m.inv /\ s.what = what
    OBVIOUS
  <2> QED  BY Zenon, <1>2, <2>1
<1>5. /\ Of(m) \in Invs /\ executed[Of(m)] = 0 /\ Of(m) <= calls
      /\ \A k \in invokes' : k \in invokes /\ Of(k) # Of(m) /\ Of(k) \in Invs
  <2>1. m.inv \in Invs
    BY <1>1 DEF Types, Invocation
  <2> QED  BY Zenon, <1>1, <1>2, <2>1 DEF OnceInv, CallsInv, Of
<1>6. /\ \A v \in Invs : v # Of(m) => executed'[v] = executed[v]
      /\ executed'[Of(m)] \in {0, 1} /\ (what = "not precompiled" => executed' = executed)
  <2>1. executed \in [Invs -> Nat] /\ owner[m.inv].call = Of(m)
    BY <1>1 DEF Types, Of
  <2>2. CASE what = "not precompiled"
    BY Zenon, <1>2, <1>5, <2>2
  <2>3. CASE what # "not precompiled"
    <3>1. executed' = [executed EXCEPT ![Of(m)] = executed[Of(m)] + 1]
      BY Zenon, <1>2, <2>1, <2>3
    <3>2. PICK id \in Invs : id = Of(m)
      BY <1>5
    <3>3. executed'[id] = 1 /\ \A v \in Invs : v # id => executed'[v] = executed[v]
      BY <1>5, <2>1, <3>1, <3>2
    <3> QED  BY Zenon, <2>3, <3>2, <3>3
  <2> QED  BY Zenon, <2>2, <2>3
<1>7. \A v \in Invs : executed'[v] <= 1 /\ (v > calls' => executed'[v] = 0)
  <2> SUFFICES ASSUME NEW v \in Invs PROVE executed'[v] <= 1 /\ (v > calls => executed'[v] = 0)
    BY <1>3
  <2>1. v \in Nat /\ calls \in Nat
    BY <1>1 DEF Types, Invs
  <2>2. CASE v = Of(m)
    <3>1. executed'[v] \in {0, 1}
      BY Zenon, <1>6, <2>2
    <3>2. v <= calls
      BY <1>5, <2>2
    <3> QED  BY <2>1, <3>1, <3>2
  <2>3. CASE v # Of(m)
    BY ZenonT(30), <1>6, <2>3 DEF OnceInv
  <2> QED  BY <2>2, <2>3
<1>8. \A k \in invokes' : owner'[k.inv].call \in Invs /\ executed'[owner'[k.inv].call] = 0
  BY ZenonT(30), <1>3, <1>5, <1>6 DEF OnceInv, Of
<1>9. \A k, l \in invokes' : owner'[k.inv].call = owner'[l.inv].call => k = l
  BY <1>3, <1>5 DEF OnceInv, Of
<1>10. ASSUME NEW c \in Callers PROVE Steady(c)'
  <2>1. Steady(c)
    BY DEF OnceInv
  <2>2. call[c].pc # "idle" => call[c].id \in Invs
    BY <1>1, InvokeAssumption DEF CallsInv, Types, Invs
  <2>3. call[c].pc # "idle" /\ Fresh(call[c].id) => Fresh(call[c].id)'
    <3>1. call[c].pc # "idle" /\ Fresh(call[c].id) => call[c].id # Of(m)
      BY DEF Fresh
    <3> QED  BY ZenonT(30), <1>3, <1>5, <1>6, <2>2, <3>1 DEF Fresh, Of
  <2>4. c \in Asking /\ m.inv = call[c].inv => Of(m) = call[c].id
    <3>1. c \in Asking => owner[call[c].inv] = [call |-> call[c].id, proplet |-> call[c].cands[call[c].i]]
      BY <1>1 DEF CallsInv
    <3> QED  BY <3>1 DEF Of
  <2>5. call[c].pc = "publish" => \A r \in Given' : r.inv # call[c].inv
    BY <1>4, <2>1, <2>4 DEF Steady, Fresh, Asking
  <2>6. ASSUME c \in Asking, NEW r \in Given', r.inv = call[c].inv, TriesNext(r) PROVE Fresh(call[c].id)'
    <3>1. CASE r = q
      <4>1. Of(m) = call[c].id /\ executed' = executed
        BY ZenonT(30), <1>4, <1>6, <2>4, <2>6, <3>1 DEF TriesNext
      <4> QED  BY ZenonT(30), <1>3, <1>5, <4>1 DEF Fresh, Of
    <3>2. CASE r \in Given
      BY <2>1, <2>3, <2>6, <3>2 DEF Steady, Asking
    <3> QED  BY <1>4, <3>1, <3>2
  <2>7. call[c].pc \in {"register", "publish"} => Fresh(call[c].id)'
    BY <2>1, <2>3 DEF Steady
  <2>8. call[c].pc \in {"wait", "leave"} => \A k \in invokes' : owner'[k.inv].call = call[c].id => k.inv = call[c].inv
    BY Zenon, <1>3, <1>5, <2>1 DEF Steady, Of
  <2> QED  BY Zenon, <1>3, <2>5, <2>6, <2>7, <2>8 DEF Steady, Of, Asking, TriesNext
<1> QED  BY <1>7, <1>8, <1>9, <1>10 DEF OnceInv, Invs, Of

(* The other steps neither publish nor run. *)
LEMMA OnceOther ==
    ASSUME OwnInv, OnceInv,
           \/ HandleResult \/ HandlerSend \/ PropletStart \/ Lose \/ UNCHANGED vars
           \/ \E p \in Proplets : PropletRestart(p)
    PROVE  OnceInv'
<1>1. Given' \subseteq Given /\ UNCHANGED <<call, owner, calls, executed>> /\ invokes' \subseteq invokes
  <2>1. CASE HandleResult
    BY <2>1, OwnHandle DEF HandleResult
  <2>2. CASE HandlerSend
    BY <2>2, OwnSend DEF HandlerSend
  <2> QED  BY <2>1, <2>2, OwnShrink
<1>2. calls' \in Nat /\ calls <= calls'
  BY Zenon, <1>1, CallsStay DEF OwnInv
<1> QED  BY <1>1, <1>2, OnceQuiet

LEMMA OnceNext ==
    ASSUME OwnInv, OnceInv, [Next]_vars
    PROVE  OnceInv'
<1>1. ASSUME NEW c \in Callers, Receive(c) PROVE OnceInv'
  <2>1. Types /\ call[c].inv \in Invs /\ Given' \subseteq Given
    BY Zenon, <1>1, OwnReceive DEF OwnInv, CallsInv, Receive, Asking
  <2>2. PICK n \in Call : /\ call' = [call EXCEPT ![c] = n] /\ n.pc = "leave"
                          /\ n.id = call[c].id /\ n.inv = call[c].inv
    BY <1>1, <2>1, ReceiveCall
  <2> QED  BY Zenon, <1>1, <2>1, <2>2, OnceStop DEF Receive, net
<1>2. ASSUME NEW c \in Callers, GiveUp(c) PROVE OnceInv'
  <2>1. Types /\ Given' \subseteq Given
    BY <1>2, OwnGiveUp DEF OwnInv
  <2>2. PICK n \in Call : /\ call' = [call EXCEPT ![c] = n] /\ n.pc = "leave"
                          /\ n.id = call[c].id /\ n.inv = call[c].inv
    BY <1>2, <2>1, GiveUpCall
  <2> QED  BY Zenon, <1>2, <2>1, <2>2, OnceStop DEF GiveUp, net
<1> QED  BY <1>1, <1>2, OnceInvoke, OnceRegister, OncePublish, OnceLeave, OnceProplet, OnceOther
         DEF Next, CallStep

(* One InvokeTask runs the function at most once (invokeBroadcast asks the   *)
(* next proplet only after isNotPrecompiledError), whatever MQTT loses or    *)
(* repeats, and however often proplets restart.                              *)
THEOREM RunsOnce == Spec => []ExecutedOnce
<1>1. ASSUME Init PROVE OwnInv /\ OnceInv
  <2>1. OwnInv
    BY <1>1, OwnInit
  <2>2. \A c \in Callers : Steady(c)
    BY <1>1 DEF Init, Steady, NoCall, Asking
  <2> QED  BY <1>1, <2>1, <2>2 DEF Init, OnceInv
<1>2. OwnInv /\ OnceInv => ExecutedOnce
  BY DEF OnceInv, ExecutedOnce
<1> QED  BY <1>1, <1>2, OwnNext, OnceNext, PTL DEF Spec
=============================================================================
