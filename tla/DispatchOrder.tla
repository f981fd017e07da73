--------------------------- MODULE DispatchOrder ----------------------------
(***************************************************************************)
(* The inductive invariant behind OneOrder, and what a step that leaves    *)
(* parts of the state alone preserves of it.                               *)
(***************************************************************************)
EXTENDS DispatchTypes

USE DEF IsErr, Delivers

(* OneOrder.  The pin is the lock of StartTask: a call that has pinned an    *)
(* orderly task is the only one to have, and the pin is its own; while its   *)
(* start is not out, only starts that are being taken back are; and a        *)
(* StopTask works alone on the pin it read.                                  *)

HoldPcs == {"persist", "publish", "bump", "mark", "unpin1", "unpin2", "unpin3"}

NotOutPcs == {"persist", "publish", "unpin1"}

AimedPcs == {"stop_proplet", "stop_publish", "stop_unpin"}

BroadcastPcs == {"bpersist", "bpublish", "bmark", "stop_all"}

At(c, k, pcs) == call[c].task = k /\ call[c].pc \in pcs

PinHeld ==
    \A k \in Orderly, c \in Callers : At(c, k, HoldPcs) => pins[k] = call[c].prop

OneHolder ==
    \A k \in Orderly, c, d \in Callers : At(c, k, HoldPcs) /\ At(d, k, HoldPcs) => c = d

NotOut ==
    \A k \in Orderly, c \in Callers : At(c, k, NotOutPcs) => told[k] \subseteq Recalling(k)

StopAlone ==
    \A k \in Orderly, c, d \in Callers :
        At(c, k, StopPcs) /\ At(d, k, StartPcs \cup StopPcs) => c = d

StopAimed ==
    \A k \in Orderly, c \in Callers : At(c, k, AimedPcs) => pins[k] = call[c].prop

StopSent ==
    \A k \in Orderly, c \in Callers : At(c, k, {"stop_unpin"}) => told[k] = {}

BroadcastOnly ==
    \A c \in Callers : call[c].pc \in BroadcastPcs => call[c].task \in BroadcastTasks

OrderInv ==
    PinHeld /\ OneHolder /\ NotOut /\ OneOrder /\ StopAlone /\ StopAimed /\ StopSent /\ BroadcastOnly
(* What the order invariant allows a thread to do while pins, told and       *)
(* overlapped stay put.                                                      *)
Keeps(r, s) ==
    /\ s.pc \in StartPcs \cup StopPcs => s.task = r.task
    /\ s.pc \in StopPcs => r.pc \in StopPcs
    /\ s.pc \in StartPcs => r.pc \in StartPcs
    /\ s.pc \in HoldPcs => r.pc \in HoldPcs /\ s.prop = r.prop
    /\ r.pc \in RecallPcs => s.pc \in RecallPcs /\ s.prop = r.prop /\ s.task = r.task
    /\ s.pc \in NotOutPcs => r.pc \in NotOutPcs
    /\ s.pc \in AimedPcs => r.pc \in AimedPcs /\ s.prop = r.prop
    /\ s.pc = "stop_unpin" => r.pc = "stop_unpin"
    /\ s.pc \in BroadcastPcs => \/ s.task \in BroadcastTasks
                                \/ r.pc \in BroadcastPcs /\ s.task = r.task

(* A step that leaves pins, told and overlapped alone, and whose calls keep. *)
LEMMA Quiet ==
    ASSUME OrderInv, UNCHANGED <<pins, told, overlapped>>,
           \A d \in Callers : Keeps(call[d], call'[d])
    PROVE  OrderInv'
<1>1. Orderly' = Orderly
  BY DEF Orderly
<1>2. \A k \in Tasks : Recalling(k) \subseteq Recalling(k)'
  BY DEF Recalling, Keeps
<1>3. \A k \in Tasks, d \in Callers :
        /\ At(d, k, HoldPcs)' => At(d, k, HoldPcs)
        /\ At(d, k, NotOutPcs)' => At(d, k, NotOutPcs)
        /\ At(d, k, StopPcs)' => At(d, k, StopPcs)
        /\ At(d, k, StartPcs \cup StopPcs)' => At(d, k, StartPcs \cup StopPcs)
        /\ At(d, k, AimedPcs)' => At(d, k, AimedPcs)
        /\ At(d, k, {"stop_unpin"})' => At(d, k, {"stop_unpin"})
  BY DEF At, Keeps, HoldPcs, NotOutPcs, StopPcs, StartPcs, AimedPcs
<1>4. Orderly \subseteq Tasks
  BY DEF Orderly
<1>5. PinHeld'
  BY <1>1, <1>3, <1>4 DEF OrderInv, PinHeld, Keeps, At
<1>6. OneHolder'
  BY <1>1, <1>3, <1>4 DEF OrderInv, OneHolder
<1>7. NotOut'
  BY <1>1, <1>2, <1>3, <1>4 DEF OrderInv, NotOut
<1>8. OneOrder'
  BY <1>1, <1>2, <1>4 DEF OrderInv, OneOrder
<1>9. StopAlone'
  BY <1>1, <1>3, <1>4, Zenon DEF OrderInv, StopAlone
<1>10. StopAimed'
  BY <1>1, <1>3, <1>4 DEF OrderInv, StopAimed, Keeps, At
<1>11. StopSent'
  BY <1>1, <1>3, <1>4 DEF OrderInv, StopSent
<1>12. BroadcastOnly'
  BY DEF OrderInv, BroadcastOnly, Keeps
<1> QED  BY <1>5, <1>6, <1>7, <1>8, <1>9, <1>10, <1>11, <1>12 DEF OrderInv

(* A thread that does not move keeps everything. *)
LEMMA KeepsItself == \A r : Keeps(r, r)
BY DEF Keeps

(* When only the call of c changes, and it keeps. *)
LEMMA QuietMove ==
    ASSUME OrderInv, TypeInv, NEW c \in Callers, UNCHANGED <<pins, told, overlapped>>,
           NEW s, call' = [call EXCEPT ![c] = s], Keeps(call[c], s)
    PROVE  OrderInv'
<1>1. \A d \in Callers : call'[d] = IF d = c THEN s ELSE call[d]
  BY DEF TypeInv, CallsOK, Threads
<1> QED  BY <1>1, Quiet, KeepsItself

(* A return that takes nothing back. *)
LEMMA QuietReturn ==
    ASSUME OrderInv, TypeInv, NEW c \in Callers, UNCHANGED <<pins, told, overlapped>>,
           Return(c), call[c].pc \notin RecallPcs
    PROVE  OrderInv'
<1>1. Keeps(call[c], IdleCall)
  BY DEF Keeps, IdleCall, StartPcs, StopPcs, HoldPcs, NotOutPcs, AimedPcs, BroadcastPcs
<1> QED  BY <1>1, QuietMove, Zenon DEF Return

(* A call that goes on with the fields it has. *)
LEMMA QuietGoto ==
    ASSUME OrderInv, TypeInv, NEW c \in Callers, UNCHANGED <<pins, told, overlapped>>,
           NEW l, Goto(c, l),
           l \in StopPcs => call[c].pc \in StopPcs,
           l \in StartPcs => call[c].pc \in StartPcs,
           l \in HoldPcs => call[c].pc \in HoldPcs,
           call[c].pc \in RecallPcs => l \in RecallPcs,
           l \in NotOutPcs => call[c].pc \in NotOutPcs,
           l \in AimedPcs => call[c].pc \in AimedPcs,
           l # "stop_unpin",
           l \in BroadcastPcs => call[c].pc \in BroadcastPcs
    PROVE  OrderInv'
<1> DEFINE s == [call[c] EXCEPT !.pc = l]
<1>1. call[c] \in Call
  BY DEF TypeInv, CallsOK, Threads
<1>2. s.pc = l /\ s.task = call[c].task /\ s.prop = call[c].prop
  BY <1>1 DEF Call
<1>3. call' = [call EXCEPT ![c] = s]
  BY DEF Goto, TypeInv, CallsOK, Threads
<1> HIDE DEF s
<1>4. Keeps(call[c], s)
  BY <1>2 DEF Keeps
<1> QED  BY <1>3, <1>4, QuietMove, Zenon

(* A call that goes on with new fields. *)
LEMMA QuietEnter ==
    ASSUME OrderInv, TypeInv, NEW c \in Callers, UNCHANGED <<pins, told, overlapped>>,
           NEW l, NEW k, NEW t, NEW q, NEW p, Enter(c, l, k, t, q, p),
           call[c].pc \notin RecallPcs,
           l \notin HoldPcs, l \notin NotOutPcs,
           l \in StopPcs => call[c].pc \in StopPcs /\ k = call[c].task,
           l \in StartPcs => call[c].pc \in StartPcs /\ k = call[c].task,
           l \in AimedPcs => call[c].pc \in AimedPcs /\ q = call[c].prop,
           l # "stop_unpin",
           l \in BroadcastPcs => k \in BroadcastTasks
    PROVE  OrderInv'
<1> DEFINE s == [pc |-> l, task |-> k, t |-> t, prop |-> q, p |-> p]
<1>1. s.pc = l /\ s.task = k /\ s.prop = q
  OBVIOUS
<1>2. call' = [call EXCEPT ![c] = s]
  BY DEF Enter
<1> HIDE DEF s
<1>3. Keeps(call[c], s)
  BY <1>1 DEF Keeps
<1> QED  BY <1>2, <1>3, QuietMove, Zenon

(* Nobody deletes task or proplet records. *)
NoDeletes == Ops \cap {"DeleteTask", "DeleteProplet"} = {}

(* The backends whose pins are exclusive and survive the deletions: Postgres *)
(* unpins with the record, Badger overwrites a pin.                          *)
PinIsLock == Backend \in {"memory", "sqlite"} \/ (Backend = "postgres" /\ NoDeletes)

(* No write of StartTask can fail after its publish: its records are not     *)
(* deleted, or the update of an absent record is not an error.               *)
NeverRecalls == Backend = "sqlite" \/ NoDeletes

(* A broker that does not deliver a start it reported lost and does not lose *)
(* a stop it reported sent; the stop that takes a start back, whose error    *)
(* StartTask ignores, is not lost at all.                                    *)
CommandsKnown ==
    /\ "late" \notin StartOutcomes
    /\ "gone" \notin StopOutcomes
    /\ "lost" \in StopOutcomes => NeverRecalls

DeletePcs == {"unschedule", "delete", "delete_proplet"}

SelectedPcs == {"pin", "persist", "publish", "bump"}

(* Without deletions a call finds the records it read still there, and so    *)
(* never has to take a start back.                                           *)
KeptCall(r) ==
    /\ NoDeletes => /\ r.pc \notin DeletePcs
                    /\ r.pc \in StartPcs \ {"start"} => tasks[r.task] # None
                    /\ r.pc \in SelectedPcs => proplets[r.prop] # None
    /\ NeverRecalls => r.pc \notin RecallPcs

Kept == \A c \in Callers : KeptCall(call[c])

(* Where the calls are after c has moved. *)
LEMMA GotoFacts ==
    ASSUME TypeInv, NEW c \in Callers, NEW l, Goto(c, l)
    PROVE  \A d \in Callers : /\ call'[d].task = call[d].task
                              /\ call'[d].prop = call[d].prop
                              /\ call'[d].pc = IF d = c THEN l ELSE call[d].pc
<1>1. \A d \in Callers : call[d] \in Call /\ d \in DOMAIN call
  BY DEF TypeInv, CallsOK, Threads
<1> QED  BY <1>1 DEF Goto, Call

(* The same when c has gone on with new fields. *)
LEMMA EnterFacts ==
    ASSUME TypeInv, NEW c \in Callers, NEW l, NEW k, NEW t, NEW q, NEW p, Enter(c, l, k, t, q, p)
    PROVE  \A d \in Callers : /\ call'[d].task = IF d = c THEN k ELSE call[d].task
                              /\ call'[d].prop = IF d = c THEN q ELSE call[d].prop
                              /\ call'[d].pc = IF d = c THEN l ELSE call[d].pc
BY DEF Enter, TypeInv, CallsOK, Threads

(* What a call at a known place holds. *)
LEMMA Held ==
    ASSUME TypeInv, NEW c \in Callers
    PROVE  /\ call[c].pc \in StartPcs \cup StopPcs => call[c].task \in Tasks
           /\ call[c].pc \in HoldPcs \cup RecallPcs \cup AimedPcs \cup {"pin"} =>
                  call[c].prop \in Proplets /\ call[c].prop # None
BY NoneAssumption DEF TypeInv, CallsOK, Threads, WellFormed, TaskPcs, TargetPcs, HoldPcs, RecallPcs, AimedPcs

(* No call is at S for an orderly task that was not there before. *)
Fewer(S) == \A j \in Orderly', d \in Callers : At(d, j, S)' => At(d, j, S)

(* Of the calls at S, none has had its target or its pin changed. *)
SamePin(S) ==
    \A j \in Orderly', d \in Callers :
        At(d, j, S)' => pins'[j] = pins[j] /\ call'[d].prop = call[d].prop

(* The conjuncts of the order invariant that a step preserves because it     *)
(* brings no call to the places they speak of.                               *)
LEMMA Frame ==
    ASSUME OrderInv, Orderly' \subseteq Orderly
    PROVE  /\ Fewer(HoldPcs) /\ SamePin(HoldPcs) => PinHeld'
           /\ Fewer(HoldPcs) => OneHolder'
           /\ Fewer(StopPcs) /\ Fewer(StartPcs \cup StopPcs) => StopAlone'
           /\ Fewer(AimedPcs) /\ SamePin(AimedPcs) => StopAimed'
<1>1. ASSUME Fewer(HoldPcs), SamePin(HoldPcs) PROVE PinHeld'
  BY <1>1 DEF Fewer, SamePin, OrderInv, PinHeld
<1>2. ASSUME Fewer(HoldPcs) PROVE OneHolder'
  BY <1>2 DEF Fewer, OrderInv, OneHolder
<1>3. ASSUME Fewer(StopPcs), Fewer(StartPcs \cup StopPcs) PROVE StopAlone'
  BY <1>3 DEF Fewer, OrderInv, StopAlone
<1>4. ASSUME Fewer(AimedPcs), SamePin(AimedPcs) PROVE StopAimed'
  BY <1>4 DEF Fewer, SamePin, OrderInv, StopAimed
<1> QED  BY <1>1, <1>2, <1>3, <1>4

(* The same for the conjuncts about the orders, which may only become fewer. *)
LEMMA FrameTold ==
    ASSUME OrderInv, Orderly' \subseteq Orderly, \A j \in Orderly' : told'[j] \subseteq told[j]
    PROVE  /\ Fewer({"stop_unpin"}) => StopSent'
           /\ Fewer(NotOutPcs) /\ (\A j \in Orderly' : Recalling(j) \subseteq Recalling(j)') => NotOut'
<1>1. ASSUME Fewer({"stop_unpin"}) PROVE StopSent'
  BY <1>1 DEF Fewer, OrderInv, StopSent
<1>2. ASSUME Fewer(NotOutPcs), \A j \in Orderly' : Recalling(j) \subseteq Recalling(j)'
      PROVE  NotOut'
  BY <1>2 DEF Fewer, OrderInv, NotOut
<1> QED  BY <1>1, <1>2

(* No call begins or ends to take a start back. *)
LEMMA SameRecalls ==
    ASSUME \A d \in Callers :
               \/ call'[d].pc \notin RecallPcs /\ call[d].pc \notin RecallPcs
               \/ /\ call'[d].pc \in RecallPcs /\ call[d].pc \in RecallPcs
                  /\ call'[d].task = call[d].task
                  /\ call'[d].prop = call[d].prop
    PROVE  \A j \in Tasks : Recalling(j)' = Recalling(j)
BY DEF Recalling

(* A call ends to take its start back. *)
LEMMA RecallEnds ==
    ASSUME NEW c \in Callers, call[c].pc \in RecallPcs, call'[c].pc \notin RecallPcs,
           \A d \in Callers \ {c} : /\ call'[d].pc = call[d].pc
                                    /\ call'[d].task = call[d].task
                                    /\ call'[d].prop = call[d].prop
    PROVE  \A j \in Tasks :
             /\ j = call[c].task => Recalling(j) \subseteq Recalling(j)' \cup {call[c].prop}
             /\ j # call[c].task => Recalling(j)' = Recalling(j)
BY DEF Recalling

(* The order invariant holds initially: no call is under way. *)
LEMMA OrderInit == Init => OrderInv
BY DEF Init, OrderInv, PinHeld, OneHolder, NotOut, OneOrder, StopAlone, StopAimed, StopSent,
       BroadcastOnly, At, IdleCall, Threads, Orderly, Recalling, HoldPcs, NotOutPcs, StopPcs,
       StartPcs, AimedPcs, BroadcastPcs

(* The steps of StartTask that touch neither pins nor commands. *)
LEMMA OrderStartQuiet ==
    ASSUME OrderInv, TypeInv, NEW c \in Callers,
           \/ StartGet(c) \/ BroadcastPersist(c) \/ BroadcastMark(c) \/ StartSelect(c)
           \/ StartPersist(c) \/ StartBump(c) \/ StartMark(c) \/ StartUnbump(c) \/ StartFail(c)
    PROVE  OrderInv'
<1> USE DEF StartPcs, StopPcs, HoldPcs, RecallPcs, NotOutPcs, AimedPcs, BroadcastPcs
<1>1. CASE StartGet(c)
  <2>1. CASE Return(c)
    BY <1>1, <2>1, QuietReturn DEF StartGet
  <2>2. CASE /\ Enter(c, "bpersist", call[c].task, tasks[call[c].task], None, None)
             /\ call[c].task \in BroadcastTasks
    BY <1>1, <2>2, QuietEnter DEF StartGet
  <2>3. CASE Enter(c, "select", call[c].task, tasks[call[c].task], None, None)
    BY <1>1, <2>3, QuietEnter DEF StartGet
  <2> QED  BY <1>1, <2>1, <2>2, <2>3 DEF StartGet
<1>2. CASE BroadcastPersist(c)
  <2>1. CASE Return(c)
    BY <1>2, <2>1, QuietReturn DEF BroadcastPersist
  <2>2. CASE Goto(c, "bpublish")
    BY <1>2, <2>2, QuietGoto DEF BroadcastPersist
  <2> QED  BY <1>2, <2>1, <2>2 DEF BroadcastPersist
<1>3. CASE BroadcastMark(c)
  BY <1>3, QuietReturn DEF BroadcastMark
<1>4. CASE StartSelect(c)
  <2>1. CASE Return(c)
    BY <1>4, <2>1, QuietReturn DEF StartSelect
  <2>2. ASSUME NEW p, Enter(c, "pin", call[c].task, call[c].t, p, proplets[p])
        PROVE  OrderInv'
    <3>1. call[c].pc = "select" /\ UNCHANGED <<pins, told, overlapped>>
      BY <1>4 DEF StartSelect
    <3> QED  BY <2>2, <3>1, QuietEnter
  <2> QED  BY <1>4, <2>1, <2>2 DEF StartSelect
<1>5. CASE StartPersist(c)
  <2>1. CASE Return(c)
    BY <1>5, <2>1, QuietReturn DEF StartPersist
  <2>2. CASE Goto(c, "publish")
    BY <1>5, <2>2, QuietGoto DEF StartPersist
  <2> QED  BY <1>5, <2>1, <2>2 DEF StartPersist
<1>6. CASE StartBump(c)
  <2>1. CASE Goto(c, "unpin2")
    BY <1>6, <2>1, QuietGoto DEF StartBump
  <2>2. CASE Goto(c, "mark")
    BY <1>6, <2>2, QuietGoto DEF StartBump
  <2> QED  BY <1>6, <2>1, <2>2 DEF StartBump
<1>7. CASE StartMark(c)
  <2>1. CASE Return(c)
    BY <1>7, <2>1, QuietReturn DEF StartMark
  <2>2. CASE Goto(c, "unpin3")
    BY <1>7, <2>2, QuietGoto DEF StartMark
  <2> QED  BY <1>7, <2>1, <2>2 DEF StartMark
<1>8. CASE StartUnbump(c)
  BY <1>8, QuietGoto DEF StartUnbump
<1>9. CASE StartFail(c)
  BY <1>9, QuietReturn DEF StartFail
<1> QED  BY <1>1, <1>2, <1>3, <1>4, <1>5, <1>6, <1>7, <1>8, <1>9

(* StartTask takes the pin: no other call can hold it. *)
LEMMA OrderPin ==
    ASSUME OrderInv, TypeInv, PinIsLock, NEW c \in Callers, StartPin(c)
    PROVE  OrderInv'
<1> DEFINE k == call[c].task
           p == call[c].prop
<1> USE DEF StartPcs, StopPcs, HoldPcs, RecallPcs, NotOutPcs, AimedPcs, BroadcastPcs
<1>1. CASE Return(c) /\ UNCHANGED pins
  BY <1>1, QuietReturn DEF StartPin
<1>2. CASE /\ pins[k] = None
           /\ pins' = [pins EXCEPT ![k] = p]
           /\ Enter(c, "persist", k, [call[c].t EXCEPT !.proplet = p], p, call[c].p)
  <2>1. call[c].pc = "pin" /\ told' = told /\ overlapped' = overlapped
    BY DEF StartPin
  <2>2. k \in Tasks /\ p \in Proplets
    BY <2>1, Held
  <2>3. /\ \A d \in Callers : /\ call'[d].task = call[d].task
                              /\ call'[d].prop = call[d].prop
                              /\ call'[d].pc = IF d = c THEN "persist" ELSE call[d].pc
        /\ \A j \in Tasks : pins'[j] = IF j = k THEN p ELSE pins[j]
    BY <1>2, <2>2, EnterFacts DEF TypeInv, TypeOK
  <2>4. Orderly' = Orderly /\ Orderly \subseteq Tasks /\ \A j \in Tasks : Recalling(j)' = Recalling(j)
    BY <2>1, <2>3 DEF Orderly, Recalling
  <2>5. k \in Orderly => \A d \in Callers : ~At(d, k, HoldPcs) /\ ~At(d, k, StopPcs)
    <3>1. \A d \in Callers : At(d, k, HoldPcs) => call[d].prop # None
      BY Held DEF At
    <3> QED  BY <1>2, <2>1, <3>1 DEF OrderInv, PinHeld, StopAlone, At
  <2>6. PinHeld'
    BY <2>3, <2>4, <2>5 DEF OrderInv, PinHeld, At
  <2>7. OneHolder'
    BY <2>3, <2>4, <2>5 DEF OrderInv, OneHolder, At
  <2>8. k \in Orderly => told[k] \subseteq Recalling(k)
    <3>1. None \notin told[k]
      BY <2>2, NoneAssumption DEF TypeInv, TypeOK
    <3> QED  BY <1>2, <3>1 DEF OrderInv, OneOrder
  <2>9. NotOut'
    BY <2>1, <2>3, <2>4, <2>5, <2>8 DEF OrderInv, NotOut, At
  <2>10. OneOrder'
    BY <2>1, <2>3, <2>4, <2>8 DEF OrderInv, OneOrder
  <2>11. /\ Fewer(StopPcs) /\ Fewer(AimedPcs) /\ Fewer({"stop_unpin"})
         /\ Fewer(StartPcs \cup StopPcs)
    BY <2>1, <2>3, <2>4 DEF Fewer, At
  <2>12. SamePin(AimedPcs)
    BY <2>3, <2>4, <2>5 DEF SamePin, At
  <2>13. StopAlone' /\ StopAimed' /\ StopSent'
    <3> HIDE DEF StartPcs, StopPcs, HoldPcs, RecallPcs, NotOutPcs, AimedPcs, BroadcastPcs
    <3> QED  BY <2>1, <2>4, <2>11, <2>12, Frame, FrameTold
  <2>14. BroadcastOnly'
    BY <2>3 DEF OrderInv, BroadcastOnly
  <2> QED  BY <2>6, <2>7, <2>9, <2>10, <2>13, <2>14 DEF OrderInv
<1> QED  BY <1>1, <1>2 DEF StartPin, PinIsLock, PinCreateErr

(* A step that moves c within the same part of a start or stop of the same   *)
(* task, whatever it does to told: what does not depend on told.             *)
LEMMA SameHold ==
    ASSUME OrderInv, NEW c \in Callers, UNCHANGED <<pins, overlapped>>,
           \A d \in Callers : /\ call'[d].task = call[d].task
                              /\ call'[d].prop = call[d].prop
                              /\ d # c => call'[d].pc = call[d].pc,
           call'[c].pc \in StopPcs => call[c].pc \in StopPcs,
           call'[c].pc \in StartPcs => call[c].pc \in StartPcs,
           call'[c].pc \in HoldPcs => call[c].pc \in HoldPcs,
           call'[c].pc \in AimedPcs => call[c].pc \in AimedPcs,
           call'[c].pc \in BroadcastPcs => call[c].pc \in BroadcastPcs
    PROVE  /\ PinHeld' /\ OneHolder' /\ StopAlone' /\ StopAimed' /\ BroadcastOnly'
           /\ Orderly' = Orderly
<1>1. Orderly' = Orderly
  BY DEF Orderly
<1>2. PinHeld' /\ OneHolder'
  BY <1>1 DEF OrderInv, PinHeld, OneHolder, At
<1>3. StopAlone'
  BY <1>1 DEF OrderInv, StopAlone, At
<1>4. StopAimed' /\ BroadcastOnly'
  BY <1>1 DEF OrderInv, StopAimed, BroadcastOnly, At
<1> QED  BY <1>1, <1>2, <1>3, <1>4

(* StartTask publishes the start to the proplet it has pinned. *)
LEMMA OrderPublish ==
    ASSUME OrderInv, TypeInv, CommandsKnown, NEW c \in Callers, StartPublish(c)
    PROVE  OrderInv'
<1> DEFINE k == call[c].task
           p == call[c].prop
<1> USE DEF StartPcs, StopPcs, HoldPcs, RecallPcs, NotOutPcs, AimedPcs, BroadcastPcs
<1>1. call[c].pc = "publish" /\ UNCHANGED <<pins, overlapped>>
  BY DEF StartPublish
<1>2. k \in Tasks /\ p \in Proplets
  BY <1>1, Held
<1>3. CASE UNCHANGED told /\ Goto(c, "unpin1")
  BY <1>1, <1>3, QuietGoto
<1>4. CASE UNCHANGED told /\ Goto(c, "bump")
  BY <1>1, <1>4, QuietGoto
<1>5. CASE told' = [told EXCEPT ![k] = @ \cup {p}] /\ Goto(c, "bump")
  <2>1. \A d \in Callers : /\ call'[d].task = call[d].task
                           /\ call'[d].prop = call[d].prop
                           /\ call'[d].pc = IF d = c THEN "bump" ELSE call[d].pc
    BY <1>5, GotoFacts
  <2>2. told'[k] = told[k] \cup {p} /\ \A j \in Tasks \ {k} : told'[j] = told[j]
    BY <1>2, <1>5 DEF TypeInv, TypeOK
  <2>3. /\ PinHeld' /\ OneHolder' /\ StopAlone' /\ StopAimed' /\ BroadcastOnly'
        /\ Orderly' = Orderly /\ Orderly \subseteq Tasks
    BY <1>1, <2>1, SameHold DEF Orderly
  <2>4. \A j \in Tasks : Recalling(j)' = Recalling(j)
    BY <1>1, <2>1 DEF Recalling
  <2>5. k \in Orderly =>
          pins[k] = p /\ \A d \in Callers \ {c} : ~At(d, k, HoldPcs) /\ ~At(d, k, StopPcs)
    BY <1>1 DEF OrderInv, PinHeld, OneHolder, StopAlone, At
  <2>6. NotOut'
    <3> SUFFICES ASSUME NEW j \in Orderly, NEW d \in Callers, At(d, j, NotOutPcs)'
                 PROVE  told'[j] \subseteq Recalling(j)'
      BY <2>3 DEF NotOut
    <3>1. At(d, j, NotOutPcs) /\ d # c
      BY <2>1 DEF At
    <3>2. j # k
      BY <2>5, <3>1 DEF At
    <3> QED  BY <2>2, <2>3, <2>4, <3>1, <3>2 DEF OrderInv, NotOut
  <2>7. OneOrder'
    <3> SUFFICES ASSUME NEW j \in Orderly
                 PROVE  told'[j] \ Recalling(j)' \subseteq {pins'[j]}
      BY <2>3 DEF OneOrder
    <3>1. told[j] \ Recalling(j) \subseteq {pins[j]}
      BY DEF OrderInv, OneOrder
    <3> QED  BY <1>1, <2>2, <2>3, <2>4, <2>5, <3>1
  <2>8. StopSent'
    <3> SUFFICES ASSUME NEW j \in Orderly, NEW d \in Callers, At(d, j, {"stop_unpin"})'
                 PROVE  told'[j] = {}
      BY <2>3 DEF StopSent
    <3>1. At(d, j, {"stop_unpin"}) /\ d # c
      BY <2>1 DEF At
    <3>2. j # k
      BY <2>5, <3>1 DEF At
    <3> QED  BY <2>2, <2>3, <3>1, <3>2 DEF OrderInv, StopSent
  <2> QED  BY <2>3, <2>6, <2>7, <2>8 DEF OrderInv
<1> QED
  <2>1. PICK o \in StartOutcomes : /\ SendStart(k, {p}, o)
                                   /\ Goto(c, IF IsErr(o) THEN "unpin1" ELSE "bump")
    BY DEF StartPublish
  <2>2. o # "late"
    BY <2>1 DEF CommandsKnown
  <2> QED  BY <1>3, <1>4, <1>5, <2>1, <2>2 DEF SendStart

(* StartTask gives the pin back after a failure. *)
LEMMA OrderUnpin ==
    ASSUME OrderInv, TypeInv, NEW c \in Callers, StartUnpin(c)
    PROVE  OrderInv'
<1> DEFINE k == call[c].task
<1> USE DEF StartPcs, StopPcs, HoldPcs, RecallPcs, NotOutPcs, AimedPcs, BroadcastPcs
<1>1. /\ call[c].pc \in {"unpin1", "unpin2", "unpin3"} /\ UNCHANGED <<told, overlapped>>
      /\ pins' = [pins EXCEPT ![k] = None]
  BY DEF StartUnpin
<1>2. k \in Tasks
  BY <1>1, Held
<1>3. PICK l : /\ Goto(c, l)
               /\ l \in {"fail", "countermand", "unbump"}
               /\ call[c].pc \in {"unpin2", "unpin3"} <=> l \in RecallPcs
  BY <1>1 DEF StartUnpin
<1>4. \A d \in Callers : /\ call'[d].task = call[d].task
                         /\ call'[d].prop = call[d].prop
                         /\ call'[d].pc = IF d = c THEN l ELSE call[d].pc
  BY <1>3, GotoFacts
<1>5. \A j \in Tasks : pins'[j] = IF j = k THEN None ELSE pins[j]
  BY <1>1, <1>2 DEF TypeInv, TypeOK
<1>6. Orderly' = Orderly /\ Orderly \subseteq Tasks /\ \A j \in Tasks : Recalling(j)' = Recalling(j)
  BY <1>1, <1>3, <1>4, SameRecalls DEF Orderly
<1>7. k \in Orderly =>
        pins[k] = call[c].prop /\ \A d \in Callers \ {c} : ~At(d, k, HoldPcs) /\ ~At(d, k, StopPcs)
  BY <1>1 DEF OrderInv, PinHeld, OneHolder, StopAlone, At
<1>8. /\ Fewer(HoldPcs) /\ Fewer(NotOutPcs) /\ Fewer(StopPcs) /\ Fewer(AimedPcs)
      /\ Fewer({"stop_unpin"}) /\ Fewer(StartPcs \cup StopPcs)
  BY <1>1, <1>3, <1>4, <1>6 DEF Fewer, At
<1>9. SamePin(HoldPcs) /\ SamePin(AimedPcs)
  <2>1. \A j \in Orderly, d \in Callers : At(d, j, HoldPcs)' \/ At(d, j, AimedPcs)' => j # k
    BY <1>3, <1>4, <1>7 DEF At
  <2> HIDE DEF StartPcs, StopPcs, HoldPcs, RecallPcs, NotOutPcs, AimedPcs, BroadcastPcs, k
  <2> QED  BY <1>4, <1>5, <1>6, <2>1 DEF SamePin
<1>10. OneOrder'
  <2>1. k \in Orderly => told[k] \subseteq Recalling(k)
    <3>1. CASE call[c].pc = "unpin1"
      BY <3>1 DEF OrderInv, NotOut, At
    <3>2. CASE call[c].pc \in {"unpin2", "unpin3"}
      <4>1. call[c].prop \in Recalling(k)
        BY <3>2 DEF Recalling
      <4> QED  BY <1>7, <4>1 DEF OrderInv, OneOrder
    <3> QED  BY <1>1, <3>1, <3>2
  <2> QED  BY <1>1, <1>5, <1>6, <2>1 DEF OrderInv, OneOrder
<1>11. /\ PinHeld' /\ OneHolder' /\ NotOut'
       /\ StopAlone' /\ StopAimed' /\ StopSent'
  <2> HIDE DEF StartPcs, StopPcs, HoldPcs, RecallPcs, NotOutPcs, AimedPcs, BroadcastPcs
  <2> QED  BY <1>1, <1>6, <1>8, <1>9, Frame, FrameTold
<1>12. BroadcastOnly'
  BY <1>3, <1>4 DEF OrderInv, BroadcastOnly
<1> QED  BY <1>10, <1>11, <1>12 DEF OrderInv

(* StartTask sends the stop that takes its start back. *)
LEMMA OrderCountermand ==
    ASSUME OrderInv, TypeInv, Kept, CommandsKnown, NEW c \in Callers, StartCountermand(c)
    PROVE  OrderInv'
<1> DEFINE k == call[c].task
           p == call[c].prop
<1> USE DEF StartPcs, StopPcs, HoldPcs, RecallPcs, NotOutPcs, AimedPcs, BroadcastPcs
<1>1. /\ call[c].pc = "countermand" /\ UNCHANGED <<pins, overlapped>> /\ Goto(c, "fail")
      /\ told' = [told EXCEPT ![k] = @ \ {p}]
  BY DispatchAssumption DEF StartCountermand, CommandsKnown, Kept, KeptCall, SendStop, Outcomes
<1>2. k \in Tasks
  BY <1>1, Held
<1>3. \A d \in Callers : /\ call'[d].task = call[d].task
                         /\ call'[d].prop = call[d].prop
                         /\ call'[d].pc = IF d = c THEN "fail" ELSE call[d].pc
  BY <1>1, GotoFacts
<1>4. told'[k] = told[k] \ {p} /\ \A j \in Tasks \ {k} : told'[j] = told[j]
  BY <1>1, <1>2 DEF TypeInv, TypeOK
<1>5. /\ PinHeld' /\ OneHolder' /\ StopAlone' /\ StopAimed' /\ BroadcastOnly'
      /\ Orderly' = Orderly /\ Orderly \subseteq Tasks
  BY <1>1, <1>3, SameHold DEF Orderly
<1>6. \A j \in Tasks : told'[j] \subseteq told[j] /\ told'[j] \ Recalling(j)' \subseteq told[j] \ Recalling(j)
  <2>1. \A j \in Tasks : /\ j = k => Recalling(j) \subseteq Recalling(j)' \cup {p}
                         /\ j # k => Recalling(j)' = Recalling(j)
    BY <1>1, <1>3, RecallEnds
  <2> SUFFICES ASSUME NEW j \in Tasks
               PROVE  told'[j] \subseteq told[j] /\ told'[j] \ Recalling(j)' \subseteq told[j] \ Recalling(j)
    OBVIOUS
  <2>2. CASE j = k
    BY <1>4, <2>1, <2>2
  <2>3. CASE j # k
    BY <1>4, <2>1, <2>3
  <2> QED  BY <2>2, <2>3
<1>7. NotOut'
  <2>1. \A j \in Orderly, d \in Callers : At(d, j, NotOutPcs)' => At(d, j, NotOutPcs)
    BY <1>3 DEF At
  <2> QED  BY <1>5, <1>6, <2>1 DEF OrderInv, NotOut
<1>8. OneOrder'
  BY <1>1, <1>5, <1>6 DEF OrderInv, OneOrder
<1>9. StopSent'
  <2>1. \A j \in Orderly, d \in Callers : At(d, j, {"stop_unpin"})' => At(d, j, {"stop_unpin"})
    BY <1>3 DEF At
  <2> QED  BY <1>5, <1>6, <2>1 DEF OrderInv, StopSent
<1> QED  BY <1>5, <1>7, <1>8, <1>9 DEF OrderInv
=============================================================================
