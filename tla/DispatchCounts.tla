--------------------------- MODULE DispatchCounts ---------------------------
(***************************************************************************)
(* TaskCount counts the pinned tasks when calls and messages do not        *)
(* overlap.                                                                *)
(***************************************************************************)
EXTENDS DispatchTypes, FiniteSetTheorems

USE DEF IsErr, Delivers

(* Pins are exclusive and no deletion of a record takes one away. *)
PinsLast == Backend \in {"memory", "sqlite"}

(* The tasks pinned to p, and what the repository says their number is. *)
On(p) == {k \in Tasks : pins[k] = p}

Counted(p) == IF proplets[p] = None THEN 0 ELSE proplets[p].count

(* StartTask has pinned the task and not yet counted it. *)
UncountedPcs == {"persist", "publish", "unpin1", "bump"}

Balanced(r) ==
    \A p \in Proplets :
        Cardinality(On(p)) + (IF r.pc = "stop_bump" /\ r.prop = p THEN 1 ELSE 0) =
            Counted(p) + (IF r.pc \in UncountedPcs /\ r.prop = p THEN 1 ELSE 0)

(* The copy of the proplet's record agrees with the repository. *)
FreshPcs ==
    {"pin", "persist", "publish", "unpin1", "bump", "stop_publish", "stop_unpin", "stop_bump",
     "alive", "refresh"}

PinnedPcs == UncountedPcs \cup {"stop_proplet", "stop_publish", "stop_unpin"}

(* What the one call under way has found cannot have changed since. *)
Current(r) ==
    /\ r.pc \in StartPcs \ {"start"} => tasks[r.task] # None
    /\ r.pc \in FreshPcs => proplets[r.prop] # None /\ r.p.count = proplets[r.prop].count
    /\ r.pc \in PinnedPcs => pins[r.task] = r.prop
    /\ r.pc = "create" => proplets[r.prop] = None
    /\ r.pc = "delete_proplet" => proplets[r.prop] # None /\ proplets[r.prop].count = 0
    /\ r.pc \notin RecallPcs

Finite == \A p \in Proplets : IsFiniteSet(On(p))

(* All threads but c are idle. *)
Alone(c) == \A d \in Threads \ {c} : call[d].pc = "idle"

CountInv ==
    /\ Finite
    /\ \E c \in Threads : Alone(c) /\ Balanced(call[c]) /\ Current(call[c])

(* A task is pinned to p. *)
LEMMA OnePinned ==
    ASSUME TypeOK, Finite, NEW k \in Tasks, NEW p \in Proplets,
           pins[k] = None, pins' = [pins EXCEPT ![k] = p]
    PROVE  /\ Finite'
           /\ Cardinality(On(p))' = Cardinality(On(p)) + 1
           /\ \A q \in Proplets \ {p} : On(q)' = On(q)
           /\ Cardinality(On(p)) \in Nat
<1>1. On(p)' = On(p) \cup {k} /\ k \notin On(p)
  BY NoneAssumption DEF On, TypeOK
<1>2. \A q \in Proplets \ {p} : On(q)' = On(q)
  BY NoneAssumption DEF On, TypeOK
<1>3. IsFiniteSet(On(p))
  BY DEF Finite
<1>4. IsFiniteSet(On(p) \cup {k}) /\ Cardinality(On(p) \cup {k}) = Cardinality(On(p)) + 1
  BY <1>1, <1>3, FS_AddElement
<1>5. Cardinality(On(p)) \in Nat
  BY <1>3, FS_CardinalityType
<1>6. Cardinality(On(p))' = Cardinality(On(p)) + 1 /\ IsFiniteSet(On(p)')
  BY <1>1, <1>4
<1>7. Finite'
  <2> SUFFICES ASSUME NEW q \in Proplets PROVE IsFiniteSet(On(q)')
    BY DEF Finite
  <2> QED  BY <1>2, <1>6 DEF Finite
<1> QED  BY <1>2, <1>5, <1>6, <1>7

(* A task is unpinned from p. *)
LEMMA OneUnpinned ==
    ASSUME TypeOK, Finite, NEW k \in Tasks, NEW p \in Proplets,
           pins[k] = p, pins' = [pins EXCEPT ![k] = None]
    PROVE  /\ Finite'
           /\ Cardinality(On(p))' + 1 = Cardinality(On(p))
           /\ \A q \in Proplets \ {p} : On(q)' = On(q)
           /\ Cardinality(On(p))' \in Nat
<1>1. On(p)' = On(p) \ {k} /\ k \in On(p)
  BY NoneAssumption DEF On, TypeOK
<1>2. \A q \in Proplets \ {p} : On(q)' = On(q)
  BY NoneAssumption DEF On, TypeOK
<1>3. IsFiniteSet(On(p))
  BY DEF Finite
<1>4. IsFiniteSet(On(p) \ {k}) /\ Cardinality(On(p) \ {k}) = Cardinality(On(p)) - 1
  BY <1>1, <1>3, FS_RemoveElement
<1>5. Cardinality(On(p)) \in Nat /\ Cardinality(On(p) \ {k}) \in Nat
  BY <1>3, <1>4, FS_CardinalityType
<1>6. Cardinality(On(p))' + 1 = Cardinality(On(p)) /\ IsFiniteSet(On(p)') /\ Cardinality(On(p))' \in Nat
  BY <1>1, <1>4, <1>5
<1>7. Finite'
  <2> SUFFICES ASSUME NEW q \in Proplets PROVE IsFiniteSet(On(q)')
    BY DEF Finite
  <2> QED  BY <1>2, <1>6 DEF Finite
<1> QED  BY <1>2, <1>6, <1>7

(* The thread that moves is the one the invariant speaks of. *)
LEMMA Actor ==
    ASSUME CountInv, NEW c \in Threads, call[c].pc # "idle" \/ AllIdle
    PROVE  Finite /\ Alone(c) /\ Balanced(call[c]) /\ Current(call[c])
<1>1. PICK e \in Threads : Alone(e) /\ Balanced(call[e]) /\ Current(call[e])
  BY DEF CountInv
<1>2. CASE e = c
  BY <1>1, <1>2 DEF CountInv
<1>3. CASE e # c
  <2>1. AllIdle
    BY <1>1, <1>3 DEF Alone
  <2>2. call[e].pc = "idle" /\ call[c].pc = "idle"
    BY <2>1 DEF AllIdle
  <2>3. Balanced(call[c])
    BY <1>1, <2>2 DEF Balanced, UncountedPcs
  <2>4. Current(call[c])
    BY <2>2 DEF Current, StartPcs, FreshPcs, PinnedPcs, UncountedPcs, RecallPcs
  <2>5. Alone(c)
    BY <2>1 DEF AllIdle, Alone
  <2> QED  BY <2>3, <2>4, <2>5 DEF CountInv
<1> QED  BY <1>2, <1>3

(* Only c moves. *)
Moves(c) == \A d \in Threads \ {c} : call'[d] = call[d]

(* The three ways it moves. *)
LEMMA MovedReturn ==
    ASSUME TypeInv, NEW c \in Threads, Return(c)
    PROVE  Moves(c) /\ call'[c] = IdleCall
BY DEF Return, Moves, TypeInv, CallsOK

(* A call that goes on with the fields it has. *)
LEMMA MovedGoto ==
    ASSUME TypeInv, NEW c \in Threads, NEW l, Goto(c, l)
    PROVE  /\ Moves(c)
           /\ call'[c].pc = l /\ call'[c].task = call[c].task /\ call'[c].prop = call[c].prop
           /\ call'[c].p = call[c].p
<1>1. call[c] \in Call /\ c \in DOMAIN call
  BY DEF TypeInv, CallsOK
<1> QED  BY <1>1 DEF Goto, Moves, Call

(* A call that goes on with new fields. *)
LEMMA MovedEnter ==
    ASSUME TypeInv, NEW c \in Threads, NEW l, NEW k, NEW t, NEW q, NEW p, Enter(c, l, k, t, q, p)
    PROVE  /\ Moves(c)
           /\ call'[c].pc = l /\ call'[c].task = k /\ call'[c].prop = q /\ call'[c].p = p
BY DEF Enter, Moves, TypeInv, CallsOK

(* The invariant after a step of c. *)
LEMMA OneMoves ==
    ASSUME NEW c \in Threads, Alone(c), Moves(c), Finite', Balanced(call[c])', Current(call[c])'
    PROVE  CountInv'
<1>1. Alone(c)'
  BY DEF Alone, Moves
<1> QED  BY <1>1 DEF CountInv

(* A step of c that pins, unpins and counts nothing. *)
LEMMA CountQuiet ==
    ASSUME NEW c \in Threads, Alone(c), Finite, Balanced(call[c]), Moves(c),
           UNCHANGED pins, \A p \in Proplets : Counted(p)' = Counted(p),
           call'[c].pc = "stop_bump" <=> call[c].pc = "stop_bump",
           call'[c].pc \in UncountedPcs <=> call[c].pc \in UncountedPcs,
           call'[c].pc \in UncountedPcs \cup {"stop_bump"} => call'[c].prop = call[c].prop,
           Current(call[c])'
    PROVE  CountInv'
<1>1. \A p \in Proplets : On(p)' = On(p)
  BY DEF On
<1>2. Finite'
  BY <1>1 DEF Finite
<1>3. Balanced(call[c])'
  BY <1>1 DEF Balanced
<1> QED  BY <1>2, <1>3, OneMoves

(* A return in balance. *)
LEMMA CountReturn ==
    ASSUME TypeInv, NEW c \in Threads, Alone(c), Finite, Balanced(call[c]), Return(c),
           UNCHANGED pins, \A p \in Proplets : Counted(p)' = Counted(p),
           call[c].pc \notin UncountedPcs \cup {"stop_bump"}
    PROVE  CountInv'
<1>1. Moves(c) /\ call'[c].pc = "idle"
  BY MovedReturn DEF IdleCall
<1>2. Current(call[c])'
  BY <1>1 DEF Current, StartPcs, FreshPcs, PinnedPcs, UncountedPcs, RecallPcs
<1> QED  BY <1>1, <1>2, CountQuiet DEF UncountedPcs

(* An update of a stored proplet changes its count only. *)
LEMMA CountedUpdate ==
    ASSUME TypeOK, NEW p \in Proplets, NEW r \in PropletRec, proplets[p] # None,
           proplets' = PropletUpdated(proplets, p, r)
    PROVE  /\ Counted(p)' = r.count /\ proplets'[p] # None
           /\ \A q \in Proplets \ {p} : Counted(q)' = Counted(q)
BY NoRecordAssumption DEF PropletUpdated, Counted, TypeOK

(* The steps of StartTask that pin, unpin and count nothing. *)
LEMMA CountStartQuiet ==
    ASSUME TypeInv, CountInv, NEW c \in Callers,
           \/ StartGet(c) \/ BroadcastPersist(c) \/ BroadcastPublish(c) \/ BroadcastMark(c)
           \/ StartSelect(c) \/ StartPersist(c) \/ StartPublish(c) \/ StartMark(c) \/ StartFail(c)
    PROVE  CountInv'
<1> USE DEF StartPcs, FreshPcs, PinnedPcs, UncountedPcs, RecallPcs
<1>1. c \in Threads /\ call[c].pc # "idle" /\ UNCHANGED <<proplets, pins>>
  BY DEF Threads, StartGet, BroadcastPersist, BroadcastPublish, BroadcastMark, StartSelect,
         StartPersist, StartPublish, StartMark, StartFail
<1>2. Finite /\ Alone(c) /\ Balanced(call[c]) /\ Current(call[c])
  BY <1>1, Actor
<1>3. \A p \in Proplets : Counted(p)' = Counted(p)
  BY <1>1 DEF Counted
<1>4. WellFormed(call[c])
  BY <1>1 DEF TypeInv, CallsOK
<1>5. \A k \in Tasks, t \in TaskRec : tasks[k] # None => TaskUpdated(tasks, k, t)[k] # None
  BY NoRecordAssumption DEF TaskUpdated, TypeInv, TypeOK
<1>6. CASE Return(c) /\ call[c].pc \notin UncountedPcs
  BY <1>1, <1>2, <1>3, <1>6, CountReturn DEF StartGet, BroadcastPersist, BroadcastPublish, BroadcastMark, StartSelect,
     StartPersist, StartPublish, StartMark, StartFail
<1>7. CASE StartGet(c)
  <2>1. ASSUME NEW l \in {"bpersist", "select"}, tasks[call[c].task] # None,
               Enter(c, l, call[c].task, tasks[call[c].task], None, None)
        PROVE  CountInv'
    <3>1. Moves(c) /\ call'[c].pc = l /\ call'[c].task = call[c].task
      BY <1>1, <2>1, MovedEnter
    <3>2. Current(call[c])'
      BY <1>7, <2>1, <3>1 DEF Current, StartGet
    <3> QED  BY <1>1, <1>2, <1>3, <1>7, <3>1, <3>2, CountQuiet DEF StartGet
  <2> QED  BY <1>6, <1>7, <2>1 DEF StartGet
<1>8. CASE BroadcastPersist(c) \/ BroadcastPublish(c) \/ BroadcastMark(c)
  <2>1. ASSUME NEW l \in {"bpublish", "bmark"}, Goto(c, l)
        PROVE  CountInv'
    <3>1. Moves(c) /\ call'[c].pc = l /\ call'[c].task = call[c].task
      BY <1>1, <2>1, MovedGoto
    <3>2. tasks'[call[c].task] # None
      BY Zenon, <1>2, <1>4, <1>5, <1>8, CopyTypes
      DEF BroadcastPersist, BroadcastPublish, BroadcastMark, Current, WellFormed, TaskPcs, CopyPcs, States
    <3>3. Current(call[c])'
      BY <3>1, <3>2 DEF Current
    <3> QED  BY <1>1, <1>2, <1>3, <1>8, <3>1, <3>3, CountQuiet
             DEF BroadcastPersist, BroadcastPublish, BroadcastMark
  <2> QED  BY <1>6, <1>8, <2>1 DEF BroadcastPersist, BroadcastPublish, BroadcastMark
<1>9. CASE StartSelect(c)
  <2>1. ASSUME NEW p \in Proplets, Alive(p), Enter(c, "pin", call[c].task, call[c].t, p, proplets[p])
        PROVE  CountInv'
    <3>1. /\ Moves(c) /\ call'[c].pc = "pin" /\ call'[c].task = call[c].task
          /\ call'[c].prop = p /\ call'[c].p = proplets[p]
      BY <1>1, <2>1, MovedEnter
    <3>2. tasks' = tasks /\ proplets[p] # None /\ tasks[call[c].task] # None
      BY <1>2, <1>9, <2>1 DEF StartSelect, Alive, Current
    <3>3. Current(call[c])'
      BY <1>1, <3>1, <3>2 DEF Current
    <3> QED  BY <1>1, <1>2, <1>3, <1>9, <3>1, <3>3, CountQuiet DEF StartSelect
  <2> QED  BY <1>6, <1>9, <2>1 DEF StartSelect
<1>10. CASE StartPersist(c)
  <2>1. tasks[call[c].task] # None /\ Goto(c, "publish")
    BY <1>2, <1>10 DEF StartPersist, Current, TaskUpdateErr
  <2>2. /\ Moves(c) /\ call'[c].pc = "publish" /\ call'[c].task = call[c].task
        /\ call'[c].prop = call[c].prop /\ call'[c].p = call[c].p
    BY <1>1, <2>1, MovedGoto
  <2>3. tasks'[call[c].task] # None
    BY <1>4, <1>5, <1>10, <2>1 DEF StartPersist, WellFormed, TaskPcs, CopyPcs
  <2>4. Current(call[c])'
    BY <1>1, <1>2, <1>10, <2>2, <2>3 DEF Current, StartPersist
  <2> QED  BY <1>1, <1>2, <1>3, <1>10, <2>2, <2>4, CountQuiet DEF StartPersist
<1>11. CASE StartPublish(c)
  <2>1. PICK l \in {"unpin1", "bump"} : Goto(c, l)
    BY <1>11 DEF StartPublish
  <2>2. /\ Moves(c) /\ call'[c].pc = l /\ call'[c].task = call[c].task
        /\ call'[c].prop = call[c].prop /\ call'[c].p = call[c].p
    BY <1>1, <2>1, MovedGoto
  <2>3. Current(call[c])'
    BY <1>1, <1>2, <1>11, <2>1, <2>2 DEF Current, StartPublish
  <2> QED  BY <1>1, <1>2, <1>3, <1>11, <2>1, <2>2, <2>3, CountQuiet DEF StartPublish
<1>12. CASE StartMark(c)
  <2>1. Return(c)
    BY <1>2, <1>12 DEF StartMark, Current, TaskUpdateErr
  <2> QED  BY <1>6, <1>12, <2>1 DEF StartMark
<1>13. CASE StartFail(c)
  BY <1>6, <1>13 DEF StartFail
<1> QED  BY <1>7, <1>8, <1>9, <1>10, <1>11, <1>12, <1>13

(* StartTask takes the pin, counts it, or gives it back. *)
LEMMA CountStartPins ==
    ASSUME TypeInv, CountInv, PinsLast, NEW c \in Callers,
           \/ StartPin(c) \/ StartBump(c) \/ StartUnpin(c) \/ StartUnbump(c) \/ StartCountermand(c)
    PROVE  CountInv'
<1> USE DEF StartPcs, FreshPcs, PinnedPcs, UncountedPcs, RecallPcs
<1>1. c \in Threads /\ call[c].pc # "idle"
  BY DEF Threads, StartPin, StartBump, StartUnpin, StartUnbump, StartCountermand
<1>2. Finite /\ Alone(c) /\ Balanced(call[c]) /\ Current(call[c])
  BY <1>1, Actor
<1>3. WellFormed(call[c]) /\ TypeOK
  BY <1>1 DEF TypeInv, CallsOK
<1>4. \A q \in Proplets : Cardinality(On(q)) \in Nat /\ Counted(q) \in Nat
  BY <1>2, <1>3, FS_CardinalityType DEF Finite, Counted, TypeOK, PropletRec
<1>5. PICK k \in Tasks, p \in Proplets :
        k = call[c].task /\ p = call[c].prop /\ call[c].p \in PropletRec
  <2>1. call[c].task \in Tasks /\ call[c].prop \in Proplets /\ call[c].p \in PropletRec
    BY <1>2, <1>3
    DEF Current, StartPin, StartBump, StartUnpin, StartUnbump, StartCountermand, WellFormed, TaskPcs,
        TargetPcs, CountPcs
  <2> QED  BY <2>1
<1>6. CASE StartPin(c)
  <2>1. UNCHANGED <<tasks, proplets>> /\ \A q \in Proplets : Counted(q)' = Counted(q)
    BY <1>5, <1>6 DEF StartPin, Counted
  <2>2. CASE Return(c) /\ UNCHANGED pins
    BY <1>1, <1>2, <1>5, <1>6, <2>1, <2>2, CountReturn DEF StartPin
  <2>3. CASE /\ pins[k] = None
             /\ pins' = [pins EXCEPT ![k] = p]
             /\ Enter(c, "persist", k, [call[c].t EXCEPT !.proplet = p], p, call[c].p)
    <3>1. /\ Moves(c) /\ call'[c].pc = "persist" /\ call'[c].task = k
          /\ call'[c].prop = p /\ call'[c].p = call[c].p
      BY <1>1, <1>5, <2>3, MovedEnter
    <3>2. /\ Finite'
          /\ Cardinality(On(p))' = Cardinality(On(p)) + 1
          /\ \A q \in Proplets \ {p} : On(q)' = On(q)
      BY Zenon, <1>2, <1>3, <1>5, <2>3, OnePinned
    <3>3. pins'[k] = p
      BY <1>3, <1>5, <2>3 DEF TypeOK
    <3>4. Current(call[c])'
      BY <1>2, <1>5, <1>6, <2>1, <3>1, <3>3 DEF Current, StartPin
    <3>5. Balanced(call[c])'
      <4> SUFFICES ASSUME NEW q \in Proplets
                   PROVE  Cardinality(On(q))' = Counted(q) + (IF q = p THEN 1 ELSE 0)
        BY <1>5, <2>1, <3>1, <1>4 DEF Balanced
      <4>1. Cardinality(On(q)) = Counted(q)
        BY <1>2, <1>4, <1>5, <1>6 DEF Balanced, StartPin
      <4> QED  BY <1>4, <1>5, <3>2, <4>1
    <3> QED  BY <1>1, <1>2, <1>5, <3>1, <3>2, <3>4, <3>5, OneMoves
  <2> QED  BY <1>5, <1>6, <2>2, <2>3 DEF StartPin, PinsLast, PinCreateErr
<1>7. CASE StartBump(c)
  <2>1. proplets[p] # None /\ call[c].p.count = proplets[p].count /\ tasks[k] # None
    BY ZenonT(30), <1>2, <1>5, <1>7 DEF StartBump, Current
  <2>2. Goto(c, "mark") /\ UNCHANGED <<tasks, pins>>
    BY <1>5, <1>7, <2>1 DEF StartBump, PropletUpdateErr
  <2>3. Moves(c) /\ call'[c].pc = "mark" /\ call'[c].task = k /\ call'[c].prop = p
    BY <1>1, <1>5, <2>2, MovedGoto
  <2>4. Incremented(call[c].p) \in PropletRec /\ Incremented(call[c].p).count = Counted(p) + 1
    BY <1>5, <2>1 DEF Incremented, PropletRec, Counted
  <2>5. Counted(p)' = Counted(p) + 1 /\ \A q \in Proplets \ {p} : Counted(q)' = Counted(q)
    BY <1>3, <1>5, <1>7, <2>1, <2>4, CountedUpdate DEF StartBump
  <2>6. Current(call[c])'
    BY <1>5, <2>1, <2>2, <2>3 DEF Current
  <2>7. \A q \in Proplets : On(q)' = On(q)
    BY <1>5, <2>2 DEF On
  <2>8. Finite'
    BY <1>2, <1>5, <2>7 DEF Finite
  <2>9. Balanced(call[c])'
    <3> SUFFICES ASSUME NEW q \in Proplets
                 PROVE  Cardinality(On(q)) = Counted(q)'
      BY <1>4, <1>5, <2>3, <2>5, <2>7 DEF Balanced
    <3>1. Cardinality(On(q)) = Counted(q) + (IF q = p THEN 1 ELSE 0)
      BY <1>2, <1>4, <1>5, <1>7 DEF Balanced, StartBump
    <3> QED  BY <1>4, <1>5, <2>5, <3>1
  <2> QED  BY <1>1, <1>2, <1>5, <2>3, <2>6, <2>8, <2>9, OneMoves
<1>8. CASE StartUnpin(c)
  <2>1. call[c].pc = "unpin1" /\ Goto(c, "fail") /\ UNCHANGED <<tasks, proplets>>
    BY <1>2, <1>5, <1>8 DEF StartUnpin, Current
  <2>2. Moves(c) /\ call'[c].pc = "fail" /\ call'[c].task = k /\ call'[c].prop = p
    BY <1>1, <1>5, <2>1, MovedGoto
  <2>3. pins[k] = p /\ pins' = [pins EXCEPT ![k] = None] /\ tasks[k] # None
    BY <1>2, <1>5, <1>8, <2>1 DEF StartUnpin, Current
  <2>4. /\ Finite'
        /\ Cardinality(On(p))' + 1 = Cardinality(On(p))
        /\ \A q \in Proplets \ {p} : On(q)' = On(q)
        /\ Cardinality(On(p))' \in Nat
    BY Zenon, <1>2, <1>3, <1>5, <2>3, OneUnpinned
  <2>5. Current(call[c])'
    BY <1>5, <2>1, <2>2, <2>3 DEF Current
  <2>6. Balanced(call[c])'
    <3> SUFFICES ASSUME NEW q \in Proplets
                 PROVE  Cardinality(On(q))' = Counted(q)
      BY <1>4, <1>5, <2>1, <2>2, <2>4 DEF Balanced, Counted
    <3>1. Cardinality(On(q)) = Counted(q) + (IF q = p THEN 1 ELSE 0)
      BY <1>2, <1>4, <1>5, <2>1 DEF Balanced
    <3> QED  BY <1>4, <1>5, <2>4, <3>1
  <2> QED  BY <1>1, <1>2, <1>5, <2>2, <2>4, <2>5, <2>6, OneMoves
<1>9. CASE StartUnbump(c) \/ StartCountermand(c)
  BY Zenon, <1>2, <1>9 DEF StartUnbump, StartCountermand, Current
<1> QED  BY <1>6, <1>7, <1>8, <1>9

(* The steps of StopTask. *)
LEMMA CountStop ==
    ASSUME TypeInv, CountInv, NEW c \in Callers, StopStep(c)
    PROVE  CountInv'
<1> USE DEF StartPcs, FreshPcs, PinnedPcs, UncountedPcs, RecallPcs
<1>1. c \in Threads /\ call[c].pc # "idle"
  BY Zenon DEF Threads, StopStep, StopBroadcast, StopGetPin, StopGetProplet, StopPublish, StopUnpin, StopBump
<1>2. Finite /\ Alone(c) /\ Balanced(call[c]) /\ Current(call[c])
  BY <1>1, Actor
<1>3. WellFormed(call[c]) /\ TypeOK
  BY <1>1 DEF TypeInv, CallsOK
<1>4. \A q \in Proplets : Cardinality(On(q)) \in Nat /\ Counted(q) \in Nat
  BY <1>2, <1>3, FS_CardinalityType DEF Finite, Counted, TypeOK, PropletRec
<1>5. UNCHANGED proplets => \A q \in Proplets : Counted(q)' = Counted(q)
  BY DEF Counted
<1>6. CASE Return(c) /\ UNCHANGED <<pins, proplets>> /\ call[c].pc \in StopPcs \ {"stop_bump"}
  BY <1>1, <1>2, <1>5, <1>6, CountReturn DEF StopPcs
<1>7. CASE StopBroadcast(c)
  BY <1>6, <1>7 DEF StopBroadcast, StopPcs
<1>8. CASE StopGetPin(c)
  <2>1. CASE Enter(c, "stop_proplet", call[c].task, None, pins[call[c].task], None)
    <3>1. /\ Moves(c) /\ call'[c].pc = "stop_proplet" /\ call'[c].task = call[c].task
          /\ call'[c].prop = pins[call[c].task]
      BY <1>1, <2>1, MovedEnter
    <3>2. call[c].pc = "stop_pin" /\ UNCHANGED <<pins, proplets>>
      BY <1>8 DEF StopGetPin
    <3>3. Current(call[c])'
      BY <3>1, <3>2 DEF Current
    <3> QED  BY <1>1, <1>2, <1>5, <3>1, <3>2, <3>3, CountQuiet
  <2> QED  BY <1>6, <1>8, <2>1 DEF StopGetPin, StopPcs
<1>9. CASE StopGetProplet(c)
  <2>1. CASE /\ proplets[call[c].prop] # None
             /\ Enter(c, "stop_publish", call[c].task, None, call[c].prop, proplets[call[c].prop])
    <3>1. /\ Moves(c) /\ call'[c].pc = "stop_publish" /\ call'[c].task = call[c].task
          /\ call'[c].prop = call[c].prop /\ call'[c].p = proplets[call[c].prop]
      BY <1>1, <2>1, MovedEnter
    <3>2. call[c].pc = "stop_proplet" /\ UNCHANGED <<pins, proplets>>
      BY <1>9 DEF StopGetProplet
    <3>3. Current(call[c])'
      BY <1>2, <2>1, <3>1, <3>2 DEF Current
    <3> QED  BY <1>1, <1>2, <1>5, <3>1, <3>2, <3>3, CountQuiet
  <2> QED  BY <1>6, <1>9, <2>1 DEF StopGetProplet, StopPcs
<1>10. CASE StopPublish(c)
  <2>1. CASE Goto(c, "stop_unpin")
    <3>1. /\ Moves(c) /\ call'[c].pc = "stop_unpin" /\ call'[c].task = call[c].task
          /\ call'[c].prop = call[c].prop /\ call'[c].p = call[c].p
      BY <1>1, <2>1, MovedGoto
    <3>2. call[c].pc = "stop_publish" /\ UNCHANGED <<pins, proplets>>
      BY <1>10 DEF StopPublish
    <3>3. Current(call[c])'
      BY <1>2, <3>1, <3>2 DEF Current
    <3> QED  BY <1>1, <1>2, <1>5, <3>1, <3>2, <3>3, CountQuiet
  <2> QED  BY <1>6, <1>10, <2>1 DEF StopPublish, StopPcs
<1>11. CASE StopUnpin(c)
  <2>1. PICK k \in Tasks, p \in Proplets : k = call[c].task /\ p = call[c].prop
    BY <1>3, <1>11 DEF StopUnpin, WellFormed, TaskPcs, TargetPcs, StopPcs
  <2>2. call[c].pc = "stop_unpin" /\ Goto(c, "stop_bump") /\ UNCHANGED <<tasks, proplets>>
    BY <1>11 DEF StopUnpin
  <2>3. /\ Moves(c) /\ call'[c].pc = "stop_bump" /\ call'[c].task = k /\ call'[c].prop = p
        /\ call'[c].p = call[c].p
    BY <1>1, <2>1, <2>2, MovedGoto
  <2>4. pins[k] = p /\ pins' = [pins EXCEPT ![k] = None]
    BY <1>2, <1>11, <2>1, <2>2 DEF StopUnpin, Current
  <2>5. /\ Finite'
        /\ Cardinality(On(p))' + 1 = Cardinality(On(p))
        /\ \A q \in Proplets \ {p} : On(q)' = On(q)
        /\ Cardinality(On(p))' \in Nat
    BY Zenon, <1>2, <1>3, <2>4, OneUnpinned
  <2>6. Current(call[c])'
    BY <1>2, <2>1, <2>2, <2>3 DEF Current
  <2>7. Balanced(call[c])'
    <3> SUFFICES ASSUME NEW q \in Proplets
                 PROVE  Cardinality(On(q))' + (IF q = p THEN 1 ELSE 0) = Counted(q)
      BY <1>4, <1>5, <2>2, <2>3 DEF Balanced
    <3>1. Cardinality(On(q)) = Counted(q)
      BY <1>2, <1>4, <2>2 DEF Balanced
    <3> QED  BY <1>4, <2>5, <3>1
  <2> QED  BY <1>1, <1>2, <2>3, <2>5, <2>6, <2>7, OneMoves
<1>12. CASE StopBump(c)
  <2>1. PICK p \in Proplets : p = call[c].prop /\ call[c].p \in PropletRec
    BY <1>3, <1>12 DEF StopBump, WellFormed, TargetPcs, CountPcs
  <2>2. call[c].pc = "stop_bump" /\ Return(c) /\ UNCHANGED <<tasks, pins>>
    BY <1>12 DEF StopBump
  <2>3. Moves(c) /\ call'[c].pc = "idle"
    BY <1>1, <2>2, MovedReturn DEF IdleCall
  <2>4. proplets[p] # None /\ call[c].p.count = Counted(p)
    BY <1>2, <2>1, <2>2 DEF Current, Counted
  <2>5. Counted(p) = Cardinality(On(p)) + 1 /\ Cardinality(On(p)) \in Nat
    BY <1>2, <1>4, <2>1, <2>2 DEF Balanced
  <2>6. Decremented(call[c].p) \in PropletRec /\ Decremented(call[c].p).count = Cardinality(On(p))
    BY <2>1, <2>4, <2>5 DEF Decremented, PropletRec
  <2>7. Counted(p)' = Cardinality(On(p)) /\ \A q \in Proplets \ {p} : Counted(q)' = Counted(q)
    BY <1>3, <1>12, <2>1, <2>4, <2>6, CountedUpdate DEF StopBump
  <2>8. \A q \in Proplets : On(q)' = On(q)
    BY <2>2 DEF On
  <2>9. Finite'
    BY <1>2, <2>8 DEF Finite
  <2>10. Balanced(call[c])'
    <3> SUFFICES ASSUME NEW q \in Proplets
                 PROVE  Cardinality(On(q)) = Counted(q)'
      BY <1>4, <2>3, <2>5, <2>7, <2>8 DEF Balanced
    <3>1. q # p => Cardinality(On(q)) = Counted(q)
      BY <1>2, <1>4, <2>1, <2>2 DEF Balanced
    <3> QED  BY <2>7, <3>1
  <2>11. Current(call[c])'
    BY <2>3 DEF Current
  <2> QED  BY <1>1, <1>2, <2>3, <2>9, <2>10, <2>11, OneMoves
<1> QED  BY <1>7, <1>8, <1>9, <1>10, <1>11, <1>12 DEF StopStep

(* The steps of UpdateTask and the deletions. *)
LEMMA CountEdit ==
    ASSUME TypeInv, CountInv, PinsLast, NEW c \in Callers, EditStep(c)
    PROVE  CountInv'
<1> USE DEF StartPcs, FreshPcs, PinnedPcs, UncountedPcs, RecallPcs
<1>1. c \in Threads /\ call[c].pc # "idle"
  BY DEF Threads, EditStep, UpdateWrite, CronGet, CronPut, DeleteUnschedule, DeleteRemove,
         DeletePropletRemove
<1>2. Finite /\ Alone(c) /\ Balanced(call[c]) /\ Current(call[c])
  BY <1>1, Actor
<1>3. WellFormed(call[c]) /\ TypeOK
  BY <1>1 DEF TypeInv, CallsOK
<1>4. UNCHANGED pins /\ call[c].pc \notin UncountedPcs \cup {"stop_bump"}
  BY DEF EditStep, UpdateWrite, CronGet, CronPut, DeleteUnschedule, DeleteRemove, DeletePropletRemove,
         PinsLast, PinsAfterTaskDelete, PinsAfterPropletDelete
<1>5. \A q \in Proplets : Counted(q)' = Counted(q)
  <2>1. CASE DeletePropletRemove(c)
    <3>1. /\ proplets' = [proplets EXCEPT ![call[c].prop] = None] /\ call[c].prop \in Proplets
          /\ Counted(call[c].prop) = 0
      BY <1>2, <1>3, <2>1 DEF DeletePropletRemove, WellFormed, TargetPcs, Current, Counted
    <3> QED  BY <1>3, <3>1 DEF Counted, TypeOK
  <2> QED
    BY <2>1
    DEF EditStep, UpdateWrite, CronGet, CronPut, DeleteUnschedule, DeleteRemove, Counted
<1>6. CASE Return(c)
  BY <1>1, <1>2, <1>4, <1>5, <1>6, CountReturn
<1>7. ASSUME NEW l \in {"cron_get", "cron_put", "delete"}, call'[c].pc = l, Moves(c)
      PROVE  CountInv'
  <2>1. Current(call[c])'
    BY <1>7 DEF Current
  <2> QED  BY <1>1, <1>2, <1>4, <1>5, <1>7, <2>1, CountQuiet
<1>8. CASE Goto(c, "delete")
  BY <1>1, <1>7, <1>8, MovedGoto
<1>9. CASE \/ Enter(c, "cron_get", call[c].task, None, None, None)
           \/ Enter(c, "cron_put", call[c].task, tasks[call[c].task], None, None)
  BY <1>1, <1>7, <1>9, MovedEnter
<1> QED
  BY <1>6, <1>8, <1>9
  DEF EditStep, UpdateWrite, CronGet, CronPut, DeleteUnschedule, DeleteRemove, DeletePropletRemove

(* A call begins when no other is under way. *)
LEMMA CountNew ==
    ASSUME TypeInv, CountInv, Serial, NEW c \in Callers, NewCall(c)
    PROVE  CountInv'
<1> USE DEF StartPcs, FreshPcs, PinnedPcs, UncountedPcs, RecallPcs
<1>1. c \in Threads /\ AllIdle /\ call[c].pc = "idle" /\ UNCHANGED <<pins, proplets>>
  BY DEF Threads, NewCall, CreateTask, StartTask, StopTask, UpdateTask, DeleteTask, DeleteProplet,
         Begin, Free
<1>2. Finite /\ Alone(c) /\ Balanced(call[c]) /\ Current(call[c])
  BY <1>1, Actor
<1>3. \A q \in Proplets : Counted(q)' = Counted(q)
  BY <1>1 DEF Counted
<1>4. ASSUME NEW l \in {"cron_get", "start", "stop_pin", "stop_all", "update", "delete", "unschedule"},
             call'[c].pc = l, Moves(c)
      PROVE  CountInv'
  <2>1. Current(call[c])'
    BY <1>4 DEF Current
  <2> QED  BY <1>1, <1>2, <1>3, <1>4, <2>1, CountQuiet
<1>5. ASSUME NEW l \in {"cron_get", "start", "stop_pin", "stop_all", "update", "delete", "unschedule"},
             NEW k, NEW t, NEW q, NEW p, Enter(c, l, k, t, q, p)
      PROVE  CountInv'
  BY <1>1, <1>4, <1>5, MovedEnter
<1>6. CASE UNCHANGED call
  <2>1. Moves(c) /\ call'[c].pc = "idle"
    BY <1>1, <1>6 DEF Moves
  <2>2. Current(call[c])'
    BY <2>1 DEF Current
  <2> QED  BY <1>1, <1>2, <1>3, <2>1, <2>2, CountQuiet
<1>7. ASSUME NEW p \in Proplets, DeleteProplet(c, p)
      PROVE  CountInv'
  <2>1. Moves(c) /\ call'[c].pc = "delete_proplet" /\ call'[c].prop = p
    BY <1>1, <1>7, MovedEnter DEF DeleteProplet
  <2>2. Current(call[c])'
    BY <1>1, <1>7, <2>1 DEF Current, DeleteProplet
  <2> QED  BY <1>1, <1>2, <1>3, <2>1, <2>2, CountQuiet
<1> QED
  BY <1>5, <1>6, <1>7 DEF NewCall, CreateTask, StartTask, StopTask, UpdateTask, DeleteTask

(* A message is taken when no call is under way. *)
LEMMA CountMessage ==
    ASSUME TypeInv, CountInv, Serial, NewMsg
    PROVE  CountInv'
<1> USE DEF StartPcs, FreshPcs, PinnedPcs, UncountedPcs, RecallPcs
<1>1. MQTT \in Threads /\ AllIdle /\ call[MQTT].pc = "idle" /\ UNCHANGED <<pins, proplets>>
  BY Zenon DEF Threads, NewMsg, AliveMsg, DiscoveryMsg, ResultMsg, Free
<1>2. Finite /\ Alone(MQTT) /\ Balanced(call[MQTT]) /\ Current(call[MQTT])
  BY <1>1, Actor
<1>3. \A q \in Proplets : Counted(q)' = Counted(q)
  BY <1>1 DEF Counted
<1>4. ASSUME NEW l \in {"idle", "lookup", "result"}, call'[MQTT].pc = l, Moves(MQTT)
      PROVE  CountInv'
  <2>1. Current(call[MQTT])'
    BY <1>4 DEF Current
  <2> QED  BY <1>1, <1>2, <1>3, <1>4, <2>1, CountQuiet
<1>5. CASE UNCHANGED call
  BY <1>1, <1>4, <1>5 DEF Moves
<1>6. ASSUME NEW l \in {"lookup", "result"}, NEW k, NEW t, NEW q, NEW p, Enter(MQTT, l, k, t, q, p)
      PROVE  CountInv'
  BY <1>1, <1>4, <1>6, MovedEnter
<1>7. ASSUME NEW p \in Proplets, proplets[p] # None, Enter(MQTT, "alive", None, None, p, proplets[p])
      PROVE  CountInv'
  <2>1. Moves(MQTT) /\ call'[MQTT].pc = "alive" /\ call'[MQTT].prop = p /\ call'[MQTT].p = proplets[p]
    BY <1>1, <1>7, MovedEnter
  <2>2. Current(call[MQTT])'
    BY <1>1, <1>7, <2>1 DEF Current
  <2> QED  BY <1>1, <1>2, <1>3, <2>1, <2>2, CountQuiet
<1> QED  BY Zenon, <1>5, <1>6, <1>7 DEF NewMsg, AliveMsg, DiscoveryMsg, ResultMsg

(* The handlers write back the count they read. *)
LEMMA CountHandler ==
    ASSUME TypeInv, CountInv, PinsLast, HandlerStep
    PROVE  CountInv'
<1> USE DEF StartPcs, FreshPcs, PinnedPcs, UncountedPcs, RecallPcs
<1>1. MQTT \in Threads /\ call[MQTT].pc \in {"alive", "lookup", "create", "refresh", "result"} /\ UNCHANGED pins
  BY DEF Threads, HandlerStep, AliveWrite, CreateLookup, CreateWrite, ResultWrite
<1>2. Finite /\ Alone(MQTT) /\ Balanced(call[MQTT]) /\ Current(call[MQTT])
  BY <1>1, Actor
<1>3. WellFormed(call[MQTT]) /\ TypeOK
  BY <1>1 DEF TypeInv, CallsOK
<1>4. CASE CreateLookup
  <2>1. UNCHANGED proplets /\ \A q \in Proplets : Counted(q)' = Counted(q)
    BY <1>4 DEF CreateLookup, Counted
  <2>2. PICK p \in Proplets : p = call[MQTT].prop
    BY <1>3, <1>4 DEF CreateLookup, WellFormed, TargetPcs
  <2>3. \/ /\ proplets[p] = None
           /\ Enter(MQTT, "create", None, None, p, None)
        \/ /\ proplets[p] # None
           /\ Enter(MQTT, "refresh", None, None, p, proplets[p])
    BY <1>4, <2>2 DEF CreateLookup
  <2>4. /\ Moves(MQTT) /\ call'[MQTT].prop = p
        /\ \/ proplets[p] = None /\ call'[MQTT].pc = "create"
           \/ proplets[p] # None /\ call'[MQTT].pc = "refresh" /\ call'[MQTT].p = proplets[p]
    BY <1>1, <2>3, MovedEnter
  <2>5. Current(call[MQTT])'
    BY <2>1, <2>4 DEF Current
  <2> QED  BY <1>1, <1>2, <2>1, <2>4, <2>5, CountQuiet
<1>5. CASE AliveWrite \/ (CreateWrite /\ call[MQTT].pc = "refresh")
  <2>1. PICK p \in Proplets : p = call[MQTT].prop /\ call[MQTT].p \in PropletRec
    BY <1>3, <1>5 DEF AliveWrite, WellFormed, TargetPcs, CountPcs
  <2>2. proplets[p] # None /\ call[MQTT].p.count = Counted(p)
    BY <1>2, <1>5, <2>1 DEF AliveWrite, Current, Counted
  <2>3. PICK r \in PropletRec :
          r.count = call[MQTT].p.count /\ proplets' = PropletUpdated(proplets, p, r)
    <3>1. CASE AliveWrite
      <4>1. /\ [call[MQTT].p EXCEPT !.fresh = TRUE] \in PropletRec
            /\ [call[MQTT].p EXCEPT !.fresh = TRUE].count = call[MQTT].p.count
        BY Zenon, <2>1 DEF PropletRec
      <4> QED  BY Zenon, <2>1, <3>1, <4>1 DEF AliveWrite
    <3>2. CASE CreateWrite /\ call[MQTT].pc = "refresh"
      BY <2>1, <3>2 DEF CreateWrite
    <3> QED  BY <1>5, <3>1, <3>2
  <2>4. \A q \in Proplets : Counted(q)' = Counted(q)
    BY <1>3, <2>2, <2>3, CountedUpdate
  <2> QED  BY <1>1, <1>2, <1>5, <2>4, CountReturn DEF AliveWrite, CreateWrite
<1>6. CASE CreateWrite /\ call[MQTT].pc = "create"
  <2>1. /\ call[MQTT].prop \in Proplets /\ proplets[call[MQTT].prop] = None
        /\ proplets' = [proplets EXCEPT ![call[MQTT].prop] = [count |-> 0, fresh |-> FALSE]]
    BY <1>2, <1>3, <1>6 DEF CreateWrite, Current, WellFormed, TargetPcs, PropletCreated
  <2>2. \A q \in Proplets : Counted(q)' = Counted(q)
    BY Zenon, <1>3, <2>1 DEF Counted, TypeOK
  <2> QED  BY <1>1, <1>2, <1>6, <2>2, CountReturn DEF CreateWrite
<1>7. CASE ResultWrite
  <2>1. \A q \in Proplets : Counted(q)' = Counted(q)
    BY <1>7 DEF ResultWrite, Counted
  <2> QED  BY <1>1, <1>2, <1>7, <2>1, CountReturn DEF ResultWrite
<1> QED  BY <1>4, <1>5, <1>6, <1>7 DEF HandlerStep, CreateWrite

(* The proplets and the clock change no count. *)
LEMMA CountEnvironment ==
    ASSUME TypeInv, CountInv, Environment
    PROVE  CountInv'
<1>1. PICK c \in Threads : Alone(c) /\ Balanced(call[c]) /\ Current(call[c])
  BY DEF CountInv
<1>2. UNCHANGED <<tasks, pins>> /\ \A q \in Proplets : On(q)' = On(q)
  BY DEF Environment, PropletReports, PropletDrops, TimePasses, On
<1>3. Finite'
  BY <1>2 DEF CountInv, Finite
<1>4. CASE UNCHANGED <<proplets, call>>
  <2>1. Alone(c)' /\ Current(call[c])'
    BY Zenon, <1>1, <1>2, <1>4 DEF Alone, Current
  <2>2. \A p \in Proplets : Counted(p)' = Counted(p)
    BY Zenon, <1>4 DEF Counted
  <2>3. Balanced(call[c])'
    BY Zenon, <1>1, <1>2, <1>4, <2>2 DEF Balanced
  <2> QED  BY Zenon, <1>3, <2>1, <2>3 DEF CountInv
<1>5. ASSUME NEW p \in Proplets, TimePasses(p)
      PROVE  CountInv'
  <2>1. TypeOK /\ \A d \in Threads : call[d] \in Call
    BY DEF TypeInv, CallsOK
  <2>2. \A q \in Proplets : /\ proplets'[q] = None <=> proplets[q] = None
                            /\ proplets[q] # None => proplets'[q].count = proplets[q].count
    BY Zenon, <1>5, <2>1, NoRecordAssumption DEF TimePasses, Stale, TypeOK, PropletRec
  <2>3. \A d \in Threads : /\ call'[d].pc = call[d].pc
                           /\ call'[d].task = call[d].task
                           /\ call'[d].prop = call[d].prop
    BY <1>5, <2>1 DEF TimePasses, Call
  <2>4. call[c].p \in PropletRec => call'[c].p.count = call[c].p.count
    BY <1>1, <1>5, <2>1 DEF TimePasses, Call, Stale, PropletRec
  <2>5. Alone(c)'
    BY <1>1, <2>3 DEF Alone
  <2>6. \A q \in Proplets : Counted(q)' = Counted(q)
    BY <2>2 DEF Counted
  <2>7. Balanced(call[c])'
    BY Zenon, <1>1, <1>2, <2>3, <2>6 DEF Balanced
  <2>8. WellFormed(call[c])
    BY DEF TypeInv, CallsOK
  <2>9. Current(call[c])'
    BY Zenon, <1>1, <1>2, <2>2, <2>3, <2>4, <2>8
    DEF Current, WellFormed, TargetPcs, CountPcs, FreshPcs, PinnedPcs, UncountedPcs
  <2> QED  BY <1>3, <2>5, <2>7, <2>9 DEF CountInv
<1> QED  BY <1>4, <1>5 DEF Environment, PropletReports, PropletDrops

(* Every step keeps the counts. *)
LEMMA CountStep ==
    ASSUME Serial, PinsLast
    PROVE  CountInv /\ TypeInv /\ [Next]_vars => CountInv'
<1> SUFFICES ASSUME CountInv, TypeInv, [Next]_vars PROVE CountInv'
  OBVIOUS
<1>1. CASE UNCHANGED vars
  BY ZenonT(30), <1>1 DEF vars, CountInv, Finite, On, Alone, Balanced, Counted, Current
<1>2. ASSUME NEW c \in Callers, NewCall(c) \/ CallStep(c)
      PROVE  CountInv'
  BY <1>2, CountNew, CountStartQuiet, CountStartPins, CountStop, CountEdit DEF CallStep, StartStep
<1>3. CASE NewMsg \/ HandlerStep \/ Environment
  BY <1>3, CountMessage, CountHandler, CountEnvironment
<1> QED  BY <1>1, <1>2, <1>3 DEF Next

(* No task is pinned initially. *)
LEMMA CountInit == Init => CountInv
<1> SUFFICES ASSUME Init PROVE CountInv
  OBVIOUS
<1>1. \A p \in Proplets : On(p) = {}
  BY NoneAssumption DEF Init, On
<1>2. IsFiniteSet({}) /\ Cardinality({}) = 0
  BY FS_EmptySet
<1>3. Finite
  BY <1>1, <1>2 DEF Finite
<1>4. MQTT \in Threads /\ \A c \in Threads : call[c].pc = "idle"
  BY DEF Threads, Init, IdleCall
<1>5. Balanced(call[MQTT])
  BY <1>1, <1>2, <1>4 DEF Balanced, Counted, Init, UncountedPcs
<1>6. Current(call[MQTT])
  BY <1>4 DEF Current, StartPcs, FreshPcs, PinnedPcs, UncountedPcs, RecallPcs
<1> QED  BY <1>3, <1>4, <1>5, <1>6 DEF CountInv, Alone

(* TaskCount is the number of tasks pinned to the proplet whenever no call   *)
(* is under way, for any number of tasks and proplets, whatever publishes    *)
(* do, through starts, stops, deletions and heartbeats: when calls and       *)
(* messages do not overlap, on a backend whose pins are exclusive and        *)
(* outlive the records.                                                      *)
THEOREM CountsPinned ==
    ASSUME Serial, PinsLast
    PROVE  Spec => []TaskCountExact
<1>1. CountInv /\ TypeInv => TaskCountExact
  <2> SUFFICES ASSUME CountInv, TypeInv, AllIdle, NEW p \in Proplets
               PROVE  Cardinality({k \in Tasks : pins[k] = p}) =
                          IF proplets[p] = None THEN 0 ELSE proplets[p].count
    BY Zenon DEF TaskCountExact
  <2>1. PICK c \in Threads : Balanced(call[c]) /\ Finite
    BY DEF CountInv
  <2>2. call[c].pc = "idle"
    BY DEF AllIdle
  <2>3. Cardinality(On(p)) \in Nat /\ Counted(p) \in Nat
    BY <2>1, FS_CardinalityType DEF Finite, Counted, TypeInv, TypeOK, PropletRec
  <2>4. Cardinality(On(p)) = Counted(p)
    BY <2>1, <2>2, <2>3 DEF Balanced, UncountedPcs
  <2> QED  BY <2>4 DEF On, Counted
<1>2. CountInv /\ TypeInv /\ [Next]_vars => CountInv'
  BY CountStep
<1> QED  BY <1>1, <1>2, CountInit, TypeInvHolds, PTL DEF Spec
=============================================================================
