--------------------------- MODULE DispatchProofs ---------------------------
(***************************************************************************)
(* The remaining steps of Dispatch preserve the order invariant, so a task *)
(* is ordered on one proplet only.                                         *)
(***************************************************************************)
EXTENDS DispatchOrder

USE DEF IsErr, Delivers

(* Broadcast commands concern no orderly task. *)
LEMMA OrderBroadcast ==
    ASSUME OrderInv, TypeInv, NEW c \in Callers, BroadcastPublish(c) \/ StopBroadcast(c)
    PROVE  OrderInv'
<1> DEFINE k == call[c].task
<1> USE DEF StartPcs, StopPcs, HoldPcs, RecallPcs, NotOutPcs, AimedPcs, BroadcastPcs
<1>1. call[c].pc \in {"bpublish", "stop_all"} /\ UNCHANGED <<pins, overlapped>>
  BY DEF BroadcastPublish, StopBroadcast
<1>2. k \in BroadcastTasks
  BY <1>1 DEF OrderInv, BroadcastOnly
<1>3. \A j \in Orderly : told'[j] = told[j]
  BY <1>2 DEF BroadcastPublish, StopBroadcast, SendStart, SendStop, Orderly, TypeInv, TypeOK
<1>4. \A d \in Callers : /\ call'[d].pc \in StartPcs \cup StopPcs => call'[d].task = call[d].task
                         /\ d # c => call'[d] = call[d]
                         /\ call'[c].pc \in {"idle", "bmark"}
                         /\ call'[c].pc = "bmark" => call[c].pc = "bpublish"
  <2>1. CASE Return(c)
    BY <2>1 DEF Return, IdleCall, TypeInv, CallsOK, Threads
  <2>2. CASE Goto(c, "bmark") /\ call[c].pc = "bpublish"
    <3>1. \A d \in Callers : d # c => call'[d] = call[d]
      BY <2>2 DEF Goto, TypeInv, CallsOK, Threads
    <3> QED  BY <2>2, <3>1, GotoFacts
  <2> QED  BY <2>1, <2>2 DEF BroadcastPublish, StopBroadcast
<1>5. Orderly' = Orderly /\ Orderly \subseteq Tasks /\ \A j \in Tasks : Recalling(j)' = Recalling(j)
  BY <1>1, <1>4, SameRecalls DEF Orderly
<1>6. /\ Fewer(HoldPcs) /\ Fewer(NotOutPcs) /\ Fewer(StopPcs) /\ Fewer(AimedPcs)
      /\ Fewer({"stop_unpin"}) /\ Fewer(StartPcs \cup StopPcs)
  BY <1>1, <1>4, <1>5 DEF Fewer, At
<1>7. SamePin(HoldPcs) /\ SamePin(AimedPcs)
  BY <1>1, <1>4 DEF SamePin, At
<1>8. /\ PinHeld' /\ OneHolder' /\ NotOut'
      /\ StopAlone' /\ StopAimed' /\ StopSent'
  <2> HIDE DEF StartPcs, StopPcs, HoldPcs, RecallPcs, NotOutPcs, AimedPcs, BroadcastPcs
  <2> QED  BY <1>3, <1>5, <1>6, <1>7, Frame, FrameTold
<1>9. OneOrder'
  BY <1>1, <1>3, <1>5 DEF OrderInv, OneOrder
<1>10. BroadcastOnly'
  BY <1>1, <1>4 DEF OrderInv, BroadcastOnly
<1> QED  BY <1>8, <1>9, <1>10 DEF OrderInv

(* StopTask reads the pin it will aim at. *)
LEMMA OrderStopGetPin ==
    ASSUME OrderInv, TypeInv, NEW c \in Callers, StopGetPin(c)
    PROVE  OrderInv'
<1> DEFINE k == call[c].task
<1> USE DEF StartPcs, StopPcs, HoldPcs, RecallPcs, NotOutPcs, AimedPcs, BroadcastPcs
<1>1. call[c].pc = "stop_pin" /\ UNCHANGED <<pins, told, overlapped>>
  BY DEF StopGetPin
<1>2. CASE Return(c)
  BY <1>1, <1>2, QuietReturn
<1>3. CASE Enter(c, "stop_proplet", k, None, pins[k], None)
  <2>1. \A d \in Callers : /\ call'[d].task = call[d].task
                           /\ call'[d].prop = IF d = c THEN pins[k] ELSE call[d].prop
                           /\ call'[d].pc = IF d = c THEN "stop_proplet" ELSE call[d].pc
    BY <1>3, EnterFacts
  <2>2. Orderly' = Orderly /\ Orderly \subseteq Tasks /\ \A j \in Tasks : Recalling(j)' = Recalling(j)
    BY <1>1, <2>1, SameRecalls DEF Orderly
  <2>3. /\ Fewer(HoldPcs) /\ Fewer(NotOutPcs) /\ Fewer(StopPcs)
        /\ Fewer({"stop_unpin"}) /\ Fewer(StartPcs \cup StopPcs)
    BY <1>1, <2>1, <2>2 DEF Fewer, At
  <2>4. SamePin(HoldPcs)
    BY <1>1, <2>1 DEF SamePin, At
  <2>5. PinHeld' /\ OneHolder' /\ NotOut' /\ StopAlone' /\ StopSent'
    <3> HIDE DEF StartPcs, StopPcs, HoldPcs, RecallPcs, NotOutPcs, AimedPcs, BroadcastPcs
    <3> QED  BY <1>1, <2>2, <2>3, <2>4, Frame, FrameTold
  <2>6. OneOrder'
    BY <1>1, <2>2 DEF OrderInv, OneOrder
  <2>7. StopAimed'
    <3> SUFFICES ASSUME NEW j \in Orderly, NEW d \in Callers, At(d, j, AimedPcs)'
                 PROVE  pins'[j] = call'[d].prop
      BY <2>2 DEF StopAimed
    <3>1. CASE d = c
      BY <1>1, <2>1, <3>1 DEF At
    <3>2. CASE d # c
      <4>1. At(d, j, AimedPcs) /\ call'[d].prop = call[d].prop
        BY <2>1, <3>2 DEF At
      <4> QED  BY <1>1, <4>1 DEF OrderInv, StopAimed
    <3> QED  BY <3>1, <3>2
  <2>8. BroadcastOnly'
    BY <2>1 DEF OrderInv, BroadcastOnly
  <2> QED  BY <2>5, <2>6, <2>7, <2>8 DEF OrderInv
<1> QED  BY <1>2, <1>3 DEF StopGetPin

(* StopTask publishes the stop to the pinned proplet. *)
LEMMA OrderStopPublish ==
    ASSUME OrderInv, TypeInv, CommandsKnown, NEW c \in Callers, StopPublish(c)
    PROVE  OrderInv'
<1> DEFINE k == call[c].task
           p == call[c].prop
<1> USE DEF StartPcs, StopPcs, HoldPcs, RecallPcs, NotOutPcs, AimedPcs, BroadcastPcs
<1> SUFFICES ASSUME told' = [told EXCEPT ![k] = @ \ {p}] PROVE OrderInv'
  <2>1. CASE UNCHANGED told /\ Return(c)
    BY <2>1, QuietReturn DEF StopPublish
  <2> QED
    BY <2>1, DispatchAssumption DEF StopPublish, CommandsKnown, SendStop, Outcomes
<1>1. /\ call[c].pc = "stop_publish" /\ UNCHANGED <<pins, overlapped>>
      /\ Return(c) \/ Goto(c, "stop_unpin")
  BY DEF StopPublish
<1>2. k \in Tasks
  BY <1>1, Held
<1>3. \A d \in Callers : /\ d # c => call'[d] = call[d]
                         /\ \/ call'[c].pc = "idle"
                            \/ /\ call'[c].pc = "stop_unpin"
                               /\ call'[c].task = call[c].task
                               /\ call'[c].prop = call[c].prop
  <2>1. CASE Return(c)
    BY <2>1 DEF Return, IdleCall, TypeInv, CallsOK, Threads
  <2>2. CASE Goto(c, "stop_unpin")
    <3>1. \A d \in Callers : d # c => call'[d] = call[d]
      BY <2>2 DEF Goto, TypeInv, CallsOK, Threads
    <3> QED  BY <2>2, <3>1, GotoFacts
  <2> QED  BY <1>1, <2>1, <2>2
<1>4. told'[k] = told[k] \ {p} /\ \A j \in Tasks \ {k} : told'[j] = told[j]
  BY <1>2 DEF TypeInv, TypeOK
<1>5. Orderly' = Orderly /\ Orderly \subseteq Tasks /\ \A j \in Tasks : Recalling(j)' = Recalling(j)
  BY <1>1, <1>3, SameRecalls DEF Orderly
<1>6. \A j \in Tasks : told'[j] \subseteq told[j]
  BY <1>4
<1>7. k \in Orderly => told'[k] = {}
  <2> SUFFICES ASSUME k \in Orderly PROVE told'[k] = {}
    OBVIOUS
  <2>1. pins[k] = p
    BY <1>1 DEF OrderInv, StopAimed, At
  <2>2. Recalling(k) = {}
    BY <1>1 DEF OrderInv, StopAlone, At, Recalling
  <2> QED  BY <1>4, <2>1, <2>2 DEF OrderInv, OneOrder
<1>8. /\ Fewer(HoldPcs) /\ Fewer(NotOutPcs) /\ Fewer(StopPcs) /\ Fewer(AimedPcs)
      /\ Fewer(StartPcs \cup StopPcs)
  BY <1>1, <1>3, <1>5 DEF Fewer, At
<1>9. SamePin(HoldPcs) /\ SamePin(AimedPcs)
  BY <1>1, <1>3 DEF SamePin, At
<1>10. PinHeld' /\ OneHolder' /\ NotOut' /\ StopAlone' /\ StopAimed'
  <2> HIDE DEF StartPcs, StopPcs, HoldPcs, RecallPcs, NotOutPcs, AimedPcs, BroadcastPcs
  <2> QED  BY <1>5, <1>6, <1>8, <1>9, Frame, FrameTold
<1>11. OneOrder' /\ BroadcastOnly'
  <2>1. OneOrder'
    BY <1>1, <1>5, <1>6 DEF OrderInv, OneOrder
  <2>2. BroadcastOnly'
    BY <1>3 DEF OrderInv, BroadcastOnly
  <2> QED  BY <2>1, <2>2
<1>12. StopSent'
  <2> SUFFICES ASSUME NEW j \in Orderly, NEW d \in Callers, At(d, j, {"stop_unpin"})'
               PROVE  told'[j] = {}
    BY <1>5 DEF StopSent
  <2>1. CASE d = c
    BY <1>3, <1>7, <2>1 DEF At
  <2>2. CASE d # c
    BY <1>3, <1>5, <1>6, <2>2 DEF OrderInv, StopSent, At
  <2> QED  BY <2>1, <2>2
<1> QED  BY <1>10, <1>11, <1>12 DEF OrderInv

(* StopTask deletes the pin once nothing is ordered. *)
LEMMA OrderStopUnpin ==
    ASSUME OrderInv, TypeInv, NEW c \in Callers, StopUnpin(c)
    PROVE  OrderInv'
<1> DEFINE k == call[c].task
<1> USE DEF StartPcs, StopPcs, HoldPcs, RecallPcs, NotOutPcs, AimedPcs, BroadcastPcs
<1>1. /\ call[c].pc = "stop_unpin" /\ UNCHANGED <<told, overlapped>> /\ Goto(c, "stop_bump")
      /\ pins' = [pins EXCEPT ![k] = None]
  BY DEF StopUnpin
<1>2. k \in Tasks
  BY <1>1, Held
<1>3. \A d \in Callers : /\ call'[d].task = call[d].task
                         /\ call'[d].prop = call[d].prop
                         /\ call'[d].pc = IF d = c THEN "stop_bump" ELSE call[d].pc
  BY <1>1, GotoFacts
<1>4. pins'[k] = None /\ \A j \in Tasks \ {k} : pins'[j] = pins[j]
  BY <1>1, <1>2 DEF TypeInv, TypeOK
<1>5. Orderly' = Orderly /\ Orderly \subseteq Tasks /\ \A j \in Tasks : Recalling(j)' = Recalling(j)
  BY <1>1, <1>3, SameRecalls DEF Orderly
<1>6. k \in Orderly => told[k] = {} /\ \A d \in Callers \ {c} : ~At(d, k, StartPcs \cup StopPcs)
  BY <1>1 DEF OrderInv, StopSent, StopAlone, At
<1>7. SamePin(HoldPcs) /\ SamePin(AimedPcs)
  BY <1>3, <1>4, <1>5, <1>6 DEF SamePin, At
<1>8. /\ Fewer(HoldPcs) /\ Fewer(NotOutPcs) /\ Fewer(StopPcs) /\ Fewer(AimedPcs)
      /\ Fewer({"stop_unpin"}) /\ Fewer(StartPcs \cup StopPcs)
  BY <1>1, <1>3, <1>5 DEF Fewer, At
<1>9. /\ PinHeld' /\ OneHolder' /\ NotOut'
      /\ StopAlone' /\ StopAimed' /\ StopSent'
  <2> HIDE DEF StartPcs, StopPcs, HoldPcs, RecallPcs, NotOutPcs, AimedPcs, BroadcastPcs
  <2> QED  BY <1>1, <1>5, <1>7, <1>8, Frame, FrameTold
<1>10. OneOrder'
  <2> SUFFICES ASSUME NEW j \in Orderly
               PROVE  told'[j] \ Recalling(j)' \subseteq {pins'[j]}
    BY <1>5 DEF OneOrder
  <2>1. CASE j = k
    BY <1>1, <1>6, <2>1
  <2>2. CASE j # k
    BY <1>1, <1>4, <1>5, <2>2 DEF OrderInv, OneOrder
  <2> QED  BY <2>1, <2>2
<1>11. BroadcastOnly'
  BY <1>1, <1>3 DEF OrderInv, BroadcastOnly
<1> QED  BY <1>9, <1>10, <1>11 DEF OrderInv

(* A start or stop begins: it joins the others or marks the task overlapped. *)
LEMMA OrderBegin ==
    ASSUME OrderInv, TypeInv, NEW c \in Callers, call[c].pc = "idle",
           NEW k \in Tasks, NEW l \in {"start", "stop_pin", "stop_all"},
           l = "stop_all" => k \in BroadcastTasks,
           Enter(c, l, k, None, None, None), UNCHANGED <<pins, told>>,
           overlapped \subseteq overlapped',
           k \in overlapped' \/ \A d \in Callers : /\ ~At(d, k, StopPcs)
                                                   /\ l # "start" => ~At(d, k, StartPcs)
    PROVE  OrderInv'
<1> USE DEF StartPcs, StopPcs, HoldPcs, RecallPcs, NotOutPcs, AimedPcs, BroadcastPcs
<1>1. \A d \in Callers : /\ call'[d].task = IF d = c THEN k ELSE call[d].task
                         /\ call'[d].prop = IF d = c THEN None ELSE call[d].prop
                         /\ call'[d].pc = IF d = c THEN l ELSE call[d].pc
  BY EnterFacts
<1>2. Orderly' \subseteq Orderly
  BY DEF Orderly
<1>3. \A j \in Tasks : Recalling(j)' = Recalling(j)
  BY <1>1, SameRecalls
<1>4. Orderly' \subseteq Tasks
  BY DEF Orderly
<1>5. /\ Fewer(HoldPcs) /\ Fewer(NotOutPcs) /\ Fewer(AimedPcs) /\ Fewer({"stop_unpin"})
      /\ SamePin(HoldPcs) /\ SamePin(AimedPcs)
  BY <1>1 DEF Fewer, SamePin, At
<1>6. PinHeld' /\ OneHolder' /\ NotOut' /\ StopAimed' /\ StopSent'
  <2> HIDE DEF StartPcs, StopPcs, HoldPcs, RecallPcs, NotOutPcs, AimedPcs, BroadcastPcs
  <2> QED  BY <1>2, <1>3, <1>4, <1>5, Frame, FrameTold
<1>7. OneOrder'
  BY <1>2, <1>3 DEF OrderInv, OneOrder, Orderly
<1>8. StopAlone'
  <2> SUFFICES ASSUME NEW j \in Orderly', NEW d \in Callers, NEW e \in Callers,
                      At(d, j, StopPcs)', At(e, j, StartPcs \cup StopPcs)'
               PROVE  d = e
    BY DEF StopAlone
  <2>1. CASE d # c /\ e # c
    <3>1. At(d, j, StopPcs) /\ At(e, j, StartPcs \cup StopPcs)
      BY <1>1, <2>1 DEF At
    <3> HIDE DEF StartPcs, StopPcs
    <3> QED  BY <1>2, <3>1 DEF OrderInv, StopAlone
  <2>2. CASE d = c /\ e # c
    <3>1. j = k /\ l # "start" /\ At(e, k, StartPcs \cup StopPcs)
      BY <1>1, <2>2 DEF At
    <3> QED  BY <3>1 DEF Orderly, At
  <2>3. CASE d # c /\ e = c
    <3>1. j = k /\ At(d, k, StopPcs)
      BY <1>1, <2>3 DEF At
    <3> QED  BY <3>1 DEF Orderly
  <2> QED  BY <2>1, <2>2, <2>3
<1>9. BroadcastOnly'
  BY <1>1 DEF OrderInv, BroadcastOnly
<1> QED  BY <1>6, <1>7, <1>8, <1>9 DEF OrderInv

(* The calls that begin preserve the order invariant. *)
LEMMA OrderNew ==
    ASSUME OrderInv, TypeInv, NEW c \in Callers, NewCall(c)
    PROVE  OrderInv'
<1> USE DEF StartPcs, StopPcs, HoldPcs, RecallPcs, NotOutPcs, AimedPcs, BroadcastPcs
<1>1. \A op : Begin(c, op) => call[c].pc = "idle"
  BY DEF Begin, Free
<1>2. ASSUME NEW k \in Tasks, NEW p \in Proplets \cup {None}, NEW s \in NewStates,
             CreateTask(c, k, p, s)
      PROVE  OrderInv'
  <2>1. UNCHANGED <<pins, told, overlapped>> /\ call[c].pc = "idle"
    BY <1>1, <1>2 DEF CreateTask
  <2>2. CASE UNCHANGED call
    BY <2>1, <2>2, Quiet, KeepsItself
  <2>3. CASE Enter(c, "cron_get", k, None, None, None)
    BY <2>1, <2>3, QuietEnter
  <2> QED  BY <1>2, <2>2, <2>3 DEF CreateTask
<1>3. ASSUME NEW k \in Tasks, StartTask(c, k)
      PROVE  OrderInv'
  <2>1. /\ call[c].pc = "idle" /\ UNCHANGED <<pins, told>> /\ Enter(c, "start", k, None, None, None)
        /\ overlapped \subseteq overlapped'
        /\ k \in overlapped' \/ \A d \in Callers : ~At(d, k, StopPcs)
    BY <1>1, <1>3 DEF StartTask, Stopping, At
  <2> QED  BY <2>1, OrderBegin
<1>4. ASSUME NEW k \in Tasks, StopTask(c, k)
      PROVE  OrderInv'
  <2>1. /\ call[c].pc = "idle" /\ UNCHANGED <<pins, told>>
        /\ overlapped \subseteq overlapped'
        /\ k \in overlapped' \/ \A d \in Callers : ~At(d, k, StopPcs) /\ ~At(d, k, StartPcs)
    BY <1>1, <1>4 DEF StopTask, Stopping, Starting, At
  <2>2. CASE Enter(c, "stop_all", k, None, None, None) /\ k \in BroadcastTasks
    BY <2>1, <2>2, OrderBegin
  <2>3. CASE Enter(c, "stop_pin", k, None, None, None)
    BY <2>1, <2>3, OrderBegin
  <2> QED  BY <1>4, <2>2, <2>3 DEF StopTask
<1>5. ASSUME NEW k \in Tasks, UpdateTask(c, k) \/ DeleteTask(c, k)
      PROVE  OrderInv'
  <2>1. UNCHANGED <<pins, told, overlapped>> /\ call[c].pc = "idle"
    BY <1>1, <1>5 DEF UpdateTask, DeleteTask
  <2>2. PICK l, t : l \in {"update", "delete", "unschedule"} /\ Enter(c, l, k, t, None, None)
    BY <1>5 DEF UpdateTask, DeleteTask
  <2> QED  BY <2>1, <2>2, QuietEnter
<1>6. ASSUME NEW p \in Proplets, DeleteProplet(c, p)
      PROVE  OrderInv'
  <2>1. UNCHANGED <<pins, told, overlapped>> /\ call[c].pc = "idle"
    BY <1>1, <1>6 DEF DeleteProplet
  <2>2. Enter(c, "delete_proplet", None, None, p, None)
    BY <1>6 DEF DeleteProplet
  <2> QED  BY <2>1, <2>2, QuietEnter
<1> QED  BY <1>2, <1>3, <1>4, <1>5, <1>6 DEF NewCall

(* The steps of StartTask preserve the order invariant. *)
LEMMA OrderStart ==
    ASSUME OrderInv, TypeInv, Kept, PinIsLock, CommandsKnown, NEW c \in Callers, StartStep(c)
    PROVE  OrderInv'
BY OrderStartQuiet, OrderBroadcast, OrderPin, OrderPublish, OrderUnpin, OrderCountermand DEF StartStep

(* The steps of StopTask preserve the order invariant. *)
LEMMA OrderStop ==
    ASSUME OrderInv, TypeInv, CommandsKnown, NEW c \in Callers, StopStep(c)
    PROVE  OrderInv'
<1> USE DEF StartPcs, StopPcs, HoldPcs, RecallPcs, NotOutPcs, AimedPcs, BroadcastPcs
<1>1. CASE StopGetProplet(c)
  <2>1. UNCHANGED <<pins, told, overlapped>> /\ call[c].pc = "stop_proplet"
    BY <1>1 DEF StopGetProplet
  <2>2. CASE Return(c)
    BY <2>1, <2>2, QuietReturn
  <2>3. CASE Enter(c, "stop_publish", call[c].task, None, call[c].prop, proplets[call[c].prop])
    BY <2>1, <2>3, QuietEnter
  <2> QED  BY <1>1, <2>2, <2>3 DEF StopGetProplet
<1>2. CASE StopBump(c)
  BY <1>2, QuietReturn DEF StopBump
<1> QED
  BY <1>1, <1>2, OrderBroadcast, OrderStopGetPin, OrderStopPublish, OrderStopUnpin DEF StopStep

(* The steps of UpdateTask and the deletions preserve it. *)
LEMMA OrderEdit ==
    ASSUME OrderInv, TypeInv, Kept, PinIsLock, NEW c \in Callers, EditStep(c)
    PROVE  OrderInv'
<1> USE DEF StartPcs, StopPcs, HoldPcs, RecallPcs, NotOutPcs, AimedPcs, BroadcastPcs
<1>1. UNCHANGED <<pins, told, overlapped>>
  BY DEF EditStep, UpdateWrite, CronGet, CronPut, DeleteUnschedule, DeleteRemove,
         DeletePropletRemove, PinIsLock, Kept, KeptCall, DeletePcs, PinsAfterTaskDelete, PinsAfterPropletDelete
<1>2. call[c].pc \notin RecallPcs \cup StartPcs \cup StopPcs
  BY DEF EditStep, UpdateWrite, CronGet, CronPut, DeleteUnschedule, DeleteRemove, DeletePropletRemove
<1>3. CASE Return(c)
  BY <1>1, <1>2, <1>3, QuietReturn
<1>4. CASE Goto(c, "delete")
  BY <1>1, <1>2, <1>4, QuietGoto
<1>5. CASE Enter(c, "cron_get", call[c].task, None, None, None)
  BY <1>1, <1>2, <1>5, QuietEnter
<1>6. CASE Enter(c, "cron_put", call[c].task, tasks[call[c].task], None, None)
  BY <1>1, <1>2, <1>6, QuietEnter
<1> QED
  BY <1>3, <1>4, <1>5, <1>6
  DEF EditStep, UpdateWrite, CronGet, CronPut, DeleteUnschedule, DeleteRemove, DeletePropletRemove

(* The MQTT thread, the proplets and the clock leave the places, tasks and   *)
(* targets of the callers alone.                                             *)
LEMMA CallersStay ==
    ASSUME TypeInv, NewMsg \/ HandlerStep \/ Environment
    PROVE  \A d \in Callers : /\ call'[d].pc = call[d].pc
                              /\ call'[d].task = call[d].task
                              /\ call'[d].prop = call[d].prop
<1>1. MQTT \notin Callers /\ \A d \in Callers : call[d] \in Call /\ d \in DOMAIN call
  BY DispatchAssumption DEF TypeInv, CallsOK, Threads
<1>2. CASE NewMsg
  BY <1>1, <1>2 DEF NewMsg, AliveMsg, DiscoveryMsg, ResultMsg, Enter
<1>3. CASE HandlerStep
  BY <1>1, <1>3 DEF HandlerStep, AliveWrite, CreateLookup, CreateWrite, ResultWrite, Return, Enter
<1>4. CASE Environment
  BY <1>1, <1>4 DEF Environment, PropletReports, PropletDrops, TimePasses, Threads, Call
<1> QED  BY <1>2, <1>3, <1>4

(* So they preserve the order invariant. *)
LEMMA OrderOthers ==
    ASSUME OrderInv, TypeInv, NewMsg \/ HandlerStep \/ Environment
    PROVE  OrderInv'
<1>1. UNCHANGED <<pins, told, overlapped>>
  BY Zenon DEF NewMsg, AliveMsg, DiscoveryMsg, ResultMsg, HandlerStep, AliveWrite, CreateLookup,
         CreateWrite, ResultWrite, Environment, PropletReports, PropletDrops, TimePasses
<1>2. \A d \in Callers : Keeps(call[d], call'[d])
  BY CallersStay DEF Keeps
<1> QED  BY <1>1, <1>2, Quiet

(* No record disappears in a step. *)
RecordsGrow ==
    /\ \A k \in Tasks : tasks[k] # None => tasks'[k] # None
    /\ \A p \in Proplets : proplets[p] # None => proplets'[p] # None

(* Without deletions the repositories lose no record. *)
LEMMA RecordsStay ==
    ASSUME TypeInv, Kept, NoDeletes, Next
    PROVE  RecordsGrow
<1> USE DEF RecordsGrow
<1>1. \A k, j \in Tasks, t \in TaskRec : tasks[j] # None => TaskUpdated(tasks, k, t)[j] # None
  BY NoRecordAssumption DEF TaskUpdated, TypeInv, TypeOK
<1>2. \A p, q \in Proplets, r \in PropletRec :
        proplets[q] # None => /\ PropletUpdated(proplets, p, r)[q] # None
                              /\ PropletCreated(proplets, p, r)[q] # None
  BY NoRecordAssumption DEF PropletUpdated, PropletCreated, TypeInv, TypeOK
<1>3. \A c \in Threads : WellFormed(call[c])
  BY DEF TypeInv, CallsOK
<1>4. ASSUME NEW c \in Callers, NewCall(c)
      PROVE  /\ \A k \in Tasks : tasks[k] # None => tasks'[k] # None
             /\ UNCHANGED proplets
  <2>1. ASSUME NEW k \in Tasks, NEW p \in Proplets \cup {None}, NEW s \in NewStates,
               CreateTask(c, k, p, s)
        PROVE  /\ \A j \in Tasks : tasks[j] # None => tasks'[j] # None
               /\ UNCHANGED proplets
    <3>1. [state |-> s, proplet |-> p] \in TaskRec
      BY DispatchAssumption DEF TaskRec
    <3> QED  BY <2>1, <3>1, NoRecordAssumption DEF CreateTask, TypeInv, TypeOK
  <2> QED  BY <1>4, <2>1 DEF NewCall, StartTask, StopTask, UpdateTask, DeleteTask, DeleteProplet
<1>5. ASSUME NEW c \in Callers, CallStep(c)
      PROVE  /\ \A k \in Tasks : tasks[k] # None => tasks'[k] # None
             /\ \A p \in Proplets : proplets[p] # None => proplets'[p] # None
  <2>1. c \in Threads /\ WellFormed(call[c]) /\ call[c].pc \notin DeletePcs
    BY <1>3 DEF Threads, Kept, KeptCall
  <2> USE DEF WellFormed, TaskPcs, CopyPcs, TargetPcs, CountPcs, StartPcs, StopPcs
  <2>2. CASE StartStep(c)
    <3>1. CASE BroadcastPersist(c) \/ BroadcastMark(c) \/ StartPersist(c) \/ StartMark(c) \/ StartFail(c)
      BY Zenon, <1>1, <2>1, <3>1, CopyTypes
      DEF BroadcastPersist, BroadcastMark, StartPersist, StartMark, StartFail, States
    <3>2. CASE StartBump(c) \/ StartUnbump(c)
      BY <1>2, <2>1, <3>2, CopyTypes DEF StartBump, StartUnbump
    <3> QED
      BY <2>2, <3>1, <3>2
      DEF StartStep, StartGet, BroadcastPublish, StartSelect, StartPin, StartPublish, StartUnpin,
          StartCountermand
  <2>3. CASE StopStep(c)
    <3>1. CASE StopBump(c)
      BY <1>2, <2>1, <3>1, CopyTypes DEF StopBump
    <3> QED
      BY <2>3, <3>1 DEF StopStep, StopBroadcast, StopGetPin, StopGetProplet, StopPublish, StopUnpin
  <2>4. CASE EditStep(c)
    <3>1. CASE UpdateWrite(c) \/ CronPut(c)
      BY Zenon, <1>1, <2>1, <3>1 DEF UpdateWrite, CronPut
    <3> QED
      BY <2>1, <2>4, <3>1
      DEF EditStep, CronGet, DeleteUnschedule, DeleteRemove, DeletePropletRemove, DeletePcs
  <2> QED  BY <1>5, <2>2, <2>3, <2>4 DEF CallStep
<1>6. CASE NewMsg \/ HandlerStep
  <2>1. MQTT \in Threads /\ WellFormed(call[MQTT])
    BY <1>3 DEF Threads
  <2> USE DEF WellFormed, TaskPcs, CopyPcs, TargetPcs, CountPcs, StartPcs, StopPcs
  <2>2. CASE AliveWrite
    BY Zenon, <1>2, <2>1, <2>2, CopyTypes DEF AliveWrite
  <2>3. CASE CreateWrite
    <3>1. [count |-> 0, fresh |-> FALSE] \in PropletRec
      BY DEF PropletRec
    <3> QED  BY Zenon, <1>2, <2>1, <2>3, <3>1 DEF CreateWrite
  <2>4. CASE ResultWrite
    BY <1>1, <2>1, <2>4 DEF ResultWrite
  <2> QED
    BY Zenon, <1>6, <2>2, <2>3, <2>4
    DEF NewMsg, AliveMsg, DiscoveryMsg, ResultMsg, HandlerStep, CreateLookup
<1>7. CASE Environment
  <2>1. \A r \in PropletRec : Stale(r) # None
    BY Zenon, NoRecordAssumption, CopyTypes DEF Stale
  <2> QED
    BY <1>7, <2>1, NoRecordAssumption
    DEF Environment, PropletReports, PropletDrops, TimePasses, TypeInv, TypeOK
<1> QED  BY <1>4, <1>5, <1>6, <1>7 DEF Next

(* A call that stays where it was, or moves to a place Kept allows. *)
LEMMA KeptMove ==
    ASSUME TypeInv, Kept, Next,
           \A d \in Callers : \/ /\ call'[d].pc = call[d].pc
                                 /\ call'[d].task = call[d].task
                                 /\ call'[d].prop = call[d].prop
                              \/ KeptCall(call'[d])
    PROVE  Kept'
<1> SUFFICES ASSUME NEW d \in Callers PROVE KeptCall(call[d])'
  BY DEF Kept
<1>1. WellFormed(call[d]) /\ WellFormed(call[d])'
  <2>1. d \in Threads
    BY DEF Threads
  <2> QED  BY <2>1, TypeStep DEF TypeInv, CallsOK
<1>2. KeptCall(call[d]) /\ (NoDeletes => RecordsGrow)
  BY RecordsStay DEF Kept, RecordsGrow
<1>3. \/ /\ call'[d].pc = call[d].pc
         /\ call'[d].task = call[d].task
         /\ call'[d].prop = call[d].prop
      \/ KeptCall(call'[d])
  OBVIOUS
<1> QED
  BY <1>1, <1>2, <1>3
  DEF KeptCall, RecordsGrow, WellFormed, TaskPcs, TargetPcs, StartPcs, SelectedPcs, NoDeletes, NeverRecalls

(* When only the call of c changes. *)
LEMMA KeptOne ==
    ASSUME TypeInv, Kept, Next, NEW c \in Callers, NEW s, call' = [call EXCEPT ![c] = s], KeptCall(s)
    PROVE  Kept'
<1>1. \A d \in Callers : call'[d] = IF d = c THEN s ELSE call[d]
  BY DEF TypeInv, CallsOK, Threads
<1> QED  BY <1>1, KeptMove

(* A call that returns. *)
LEMMA KeptReturn ==
    ASSUME TypeInv, Kept, Next, NEW c \in Callers, Return(c)
    PROVE  Kept'
<1>1. KeptCall(IdleCall)
  BY DEF KeptCall, IdleCall, DeletePcs, StartPcs, SelectedPcs, RecallPcs
<1> QED  BY <1>1, KeptOne, Zenon DEF Return

(* A call that goes on with the fields it has. *)
LEMMA KeptGoto ==
    ASSUME TypeInv, Kept, Next, NEW c \in Callers, NEW l, Goto(c, l),
           NoDeletes => /\ l \notin DeletePcs
                        /\ l \in StartPcs \ {"start"} => tasks[call[c].task] # None
                        /\ l \in SelectedPcs => proplets[call[c].prop] # None,
           NeverRecalls => l \notin RecallPcs
    PROVE  Kept'
<1> DEFINE s == [call[c] EXCEPT !.pc = l]
<1>1. call[c] \in Call /\ c \in DOMAIN call
  BY DEF TypeInv, CallsOK, Threads
<1>2. s.pc = l /\ s.task = call[c].task /\ s.prop = call[c].prop
  BY <1>1 DEF Call
<1>3. call' = [call EXCEPT ![c] = s]
  BY <1>1 DEF Goto
<1> HIDE DEF s
<1>4. KeptCall(s)
  BY <1>2 DEF KeptCall
<1> QED  BY <1>3, <1>4, KeptOne, Zenon

(* A call that goes on with new fields. *)
LEMMA KeptEnter ==
    ASSUME TypeInv, Kept, Next, NEW c \in Callers,
           NEW l, NEW k, NEW t, NEW q, NEW p, Enter(c, l, k, t, q, p),
           NoDeletes => /\ l \notin DeletePcs
                        /\ l \in StartPcs \ {"start"} => tasks[k] # None
                        /\ l \in SelectedPcs => proplets[q] # None,
           NeverRecalls => l \notin RecallPcs
    PROVE  Kept'
<1> DEFINE s == [pc |-> l, task |-> k, t |-> t, prop |-> q, p |-> p]
<1>1. s.pc = l /\ s.task = k /\ s.prop = q
  OBVIOUS
<1>2. call' = [call EXCEPT ![c] = s]
  BY DEF Enter
<1> HIDE DEF s
<1>3. KeptCall(s)
  BY <1>1 DEF KeptCall
<1> QED  BY <1>2, <1>3, KeptOne, Zenon

(* No call is under way initially. *)
LEMMA KeptInit == Init => Kept
BY DEF Init, Kept, KeptCall, IdleCall, Threads, DeletePcs, StartPcs, SelectedPcs, RecallPcs

(* The steps of StartTask keep: none of its writes fails. *)
LEMMA KeptStart ==
    ASSUME TypeInv, Kept, Next, NEW c \in Callers, StartStep(c)
    PROVE  Kept'
<1> USE DEF DeletePcs, SelectedPcs, RecallPcs, StartPcs
<1>1. KeptCall(call[c])
  BY DEF Kept
<1>2. CASE StartGet(c)
  <2>1. CASE Return(c)
    BY <2>1, KeptReturn
  <2>2. ASSUME NEW l \in {"bpersist", "select"}, tasks[call[c].task] # None,
               Enter(c, l, call[c].task, tasks[call[c].task], None, None)
        PROVE  Kept'
    BY <2>2, KeptEnter
  <2> QED  BY Zenon, <1>2, <2>1, <2>2 DEF StartGet
<1>3. CASE BroadcastPersist(c)
  <2>1. CASE Return(c)
    BY <2>1, KeptReturn
  <2>2. CASE Goto(c, "bpublish")
    BY <1>1, <1>3, <2>2, KeptGoto DEF BroadcastPersist, KeptCall
  <2> QED  BY <1>3, <2>1, <2>2 DEF BroadcastPersist
<1>4. CASE BroadcastPublish(c)
  <2>1. CASE Return(c)
    BY <2>1, KeptReturn
  <2>2. CASE Goto(c, "bmark")
    BY <1>1, <1>4, <2>2, KeptGoto DEF BroadcastPublish, KeptCall
  <2> QED  BY <1>4, <2>1, <2>2 DEF BroadcastPublish
<1>5. CASE BroadcastMark(c) \/ StartFail(c)
  BY <1>5, KeptReturn DEF BroadcastMark, StartFail
<1>6. CASE StartSelect(c)
  <2>1. CASE Return(c)
    BY <2>1, KeptReturn
  <2>2. ASSUME NEW p \in Proplets, Alive(p), Enter(c, "pin", call[c].task, call[c].t, p, proplets[p])
        PROVE  Kept'
    <3>1. proplets[p] # None /\ (NoDeletes => tasks[call[c].task] # None)
      BY <1>1, <1>6, <2>2 DEF Alive, StartSelect, KeptCall
    <3> QED  BY <2>2, <3>1, KeptEnter
  <2> QED  BY <1>6, <2>1, <2>2 DEF StartSelect
<1>7. CASE StartPin(c)
  <2>1. CASE Return(c)
    BY <2>1, KeptReturn
  <2>2. CASE Enter(c, "persist", call[c].task, [call[c].t EXCEPT !.proplet = call[c].prop],
                   call[c].prop, call[c].p)
    <3>1. NoDeletes => tasks[call[c].task] # None /\ proplets[call[c].prop] # None
      BY <1>1, <1>7 DEF StartPin, KeptCall
    <3> QED  BY <2>2, <3>1, KeptEnter
  <2> QED  BY <1>7, <2>1, <2>2 DEF StartPin
<1>8. CASE StartPersist(c)
  <2>1. CASE Return(c)
    BY <2>1, KeptReturn
  <2>2. CASE Goto(c, "publish")
    BY <1>1, <1>8, <2>2, KeptGoto DEF StartPersist, KeptCall
  <2> QED  BY <1>8, <2>1, <2>2 DEF StartPersist
<1>9. CASE StartPublish(c)
  <2>1. PICK l \in {"unpin1", "bump"} : Goto(c, l)
    BY <1>9 DEF StartPublish
  <2> QED  BY <1>1, <1>9, <2>1, KeptGoto DEF StartPublish, KeptCall
<1>10. CASE StartBump(c)
  <2>1. CASE Goto(c, "mark")
    BY <1>1, <1>10, <2>1, KeptGoto DEF StartBump, KeptCall
  <2>2. CASE Goto(c, "unpin2") /\ PropletUpdateErr(proplets, call[c].prop)
    <3>1. ~NeverRecalls /\ (NoDeletes => FALSE)
      BY <1>1, <1>10, <2>2 DEF StartBump, KeptCall, PropletUpdateErr, NeverRecalls
    <3> QED  BY <2>2, <3>1, KeptGoto
  <2> QED  BY <1>10, <2>1, <2>2 DEF StartBump
<1>11. CASE StartMark(c)
  <2>1. CASE Return(c)
    BY <2>1, KeptReturn
  <2>2. CASE Goto(c, "unpin3") /\ TaskUpdateErr(tasks, call[c].task)
    <3>1. ~NeverRecalls /\ (NoDeletes => FALSE)
      BY <1>1, <1>11, <2>2 DEF StartMark, KeptCall, TaskUpdateErr, NeverRecalls
    <3> QED  BY <2>2, <3>1, KeptGoto
  <2> QED  BY <1>11, <2>1, <2>2 DEF StartMark
<1>12. CASE StartUnpin(c)
  <2>1. CASE call[c].pc = "unpin1" /\ Goto(c, "fail")
    BY <1>1, <2>1, KeptGoto DEF KeptCall
  <2>2. CASE call[c].pc = "unpin2" /\ Goto(c, "countermand")
    BY <1>1, <2>2, KeptGoto DEF KeptCall
  <2>3. CASE call[c].pc = "unpin3" /\ Goto(c, "unbump")
    BY <1>1, <2>3, KeptGoto DEF KeptCall
  <2> QED  BY <1>12, <2>1, <2>2, <2>3 DEF StartUnpin
<1>13. CASE StartUnbump(c)
  BY <1>1, <1>13, KeptGoto DEF StartUnbump, KeptCall
<1>14. CASE StartCountermand(c)
  BY <1>1, <1>14, KeptGoto DEF StartCountermand, KeptCall
<1> QED
  BY <1>2, <1>3, <1>4, <1>5, <1>6, <1>7, <1>8, <1>9, <1>10, <1>11, <1>12, <1>13, <1>14 DEF StartStep

(* The other steps of the callers keep. *)
LEMMA KeptCaller ==
    ASSUME TypeInv, Kept, Next, NEW c \in Callers, NewCall(c) \/ StopStep(c) \/ EditStep(c)
    PROVE  Kept'
<1> USE DEF DeletePcs, SelectedPcs, RecallPcs, StartPcs
<1>1. KeptCall(call[c])
  BY DEF Kept
<1>2. CASE UNCHANGED call
  BY <1>2, KeptMove
<1>3. CASE Return(c)
  BY <1>3, KeptReturn
<1>4. ASSUME NEW l \in {"start", "cron_get", "cron_put", "update", "stop_pin", "stop_all",
                        "stop_proplet", "stop_publish"},
             NEW k, NEW t, NEW q, NEW p, Enter(c, l, k, t, q, p)
      PROVE  Kept'
  BY <1>4, KeptEnter
<1>5. CASE Goto(c, "stop_unpin") \/ Goto(c, "stop_bump")
  BY <1>5, KeptGoto
<1>6. ASSUME NEW k \in Tasks, DeleteTask(c, k)
      PROVE  Kept'
  <2>1. ~NoDeletes
    BY <1>6 DEF DeleteTask, Begin, NoDeletes
  <2>2. PICK l, t : l \in {"delete", "unschedule"} /\ Enter(c, l, k, t, None, None)
    BY <1>6 DEF DeleteTask
  <2> QED  BY <2>1, <2>2, KeptEnter
<1>7. ASSUME NEW q \in Proplets, DeleteProplet(c, q)
      PROVE  Kept'
  <2>1. ~NoDeletes
    BY <1>7 DEF DeleteProplet, Begin, NoDeletes
  <2>2. Enter(c, "delete_proplet", None, None, q, None)
    BY <1>7 DEF DeleteProplet
  <2> QED  BY <2>1, <2>2, KeptEnter
<1>8. CASE DeleteUnschedule(c)
  <2>1. ~NoDeletes
    BY <1>1, <1>8 DEF DeleteUnschedule, KeptCall
  <2> QED  BY <1>8, <2>1, KeptGoto DEF DeleteUnschedule
<1>9. CASE NewCall(c)
  BY ZenonT(30), <1>2, <1>4, <1>6, <1>7, <1>9 DEF NewCall, CreateTask, StartTask, StopTask, UpdateTask
<1>10. CASE StopStep(c)
  BY ZenonT(30), <1>3, <1>4, <1>5, <1>10
  DEF StopStep, StopBroadcast, StopGetPin, StopGetProplet, StopPublish, StopUnpin, StopBump
<1>11. CASE EditStep(c)
  BY <1>3, <1>4, <1>8, <1>11
  DEF EditStep, UpdateWrite, CronGet, CronPut, DeleteRemove, DeletePropletRemove
<1> QED  BY <1>9, <1>10, <1>11

(* Every step keeps. *)
LEMMA KeptStep == TypeInv /\ Kept /\ [Next]_vars => Kept'
<1> SUFFICES ASSUME TypeInv, Kept, [Next]_vars PROVE Kept'
  OBVIOUS
<1>1. CASE UNCHANGED vars
  BY <1>1 DEF vars, Kept, KeptCall, NoDeletes, NeverRecalls
<1>2. ASSUME Next, NEW c \in Callers, NewCall(c) \/ CallStep(c)
      PROVE  Kept'
  BY <1>2, KeptStart, KeptCaller DEF CallStep
<1>3. CASE Next /\ (NewMsg \/ HandlerStep \/ Environment)
  BY <1>3, CallersStay, KeptMove
<1> QED  BY <1>1, <1>2, <1>3 DEF Next

(* Every step preserves the order invariant. *)
LEMMA OrderStep ==
    ASSUME PinIsLock, CommandsKnown
    PROVE  OrderInv /\ TypeInv /\ Kept /\ [Next]_vars => OrderInv'
<1> SUFFICES ASSUME OrderInv, TypeInv, Kept, [Next]_vars PROVE OrderInv'
  OBVIOUS
<1>1. CASE UNCHANGED vars
  BY <1>1, Quiet, KeepsItself DEF vars
<1>2. ASSUME NEW c \in Callers, NewCall(c) \/ CallStep(c)
      PROVE  OrderInv'
  BY <1>2, OrderNew, OrderStart, OrderStop, OrderEdit DEF CallStep
<1>3. CASE NewMsg \/ HandlerStep \/ Environment
  BY <1>3, OrderOthers
<1> QED  BY <1>1, <1>2, <1>3 DEF Next

(* However many callers start, stop, edit and delete a task and its proplets *)
(* at once, a task is ordered on one proplet only: on the backends whose pin *)
(* is exclusive, with a broker that does not deliver a start whose publish   *)
(* failed and does not silently lose a stop, only the pinned proplet, and    *)
(* proplets about to be sent a stop, have an outstanding start, unless a     *)
(* StopTask overlapped another start or stop of the task.                    *)
THEOREM OrderedOnce ==
    ASSUME PinIsLock, CommandsKnown
    PROVE  Spec => []OneOrder
<1>1. OrderInv => OneOrder
  BY DEF OrderInv
<1>2. OrderInv /\ TypeInv /\ Kept /\ [Next]_vars => OrderInv'
  BY OrderStep
<1>3. Spec => []Kept
  BY KeptInit, KeptStep, TypeInvHolds, PTL DEF Spec
<1> QED  BY <1>1, <1>2, <1>3, OrderInit, TypeInvHolds, PTL DEF Spec

-----------------------------------------------------------------------------
(* PinMatchesOrder.  With a broker whose answers are true, the pinned        *)
(* proplet has its start unless a call is between its pin and its publish,   *)
(* or between its stop and the deletion of the pin.                          *)
Truthful == StartOutcomes \subseteq {"ok", "lost"} /\ StopOutcomes \subseteq {"ok", "lost"}

UnsettledPcs == NotOutPcs \cup {"stop_unpin"}

PinTrue ==
    \A k \in Orderly :
        pins[k] # None /\ (\A c \in Callers : ~At(c, k, UnsettledPcs)) => pins[k] \in told[k]

(* What a step may do to an orderly task. *)
LEMMA PinTrueKeeps ==
    ASSUME PinTrue,
           \A k \in Orderly' :
               /\ k \in Orderly
               /\ \/ /\ pins'[k] = pins[k] /\ told[k] \subseteq told'[k]
                     /\ \A d \in Callers : At(d, k, UnsettledPcs) => At(d, k, UnsettledPcs)'
                  \/ pins'[k] = None
                  \/ pins'[k] \in told'[k]
                  \/ \E d \in Callers : At(d, k, UnsettledPcs)'
    PROVE  PinTrue'
BY DEF PinTrue

(* A step that moves no unsettled call and leaves pins and orders alone. *)
LEMMA PinTrueQuiet ==
    ASSUME PinTrue, UNCHANGED <<pins, told>>, overlapped \subseteq overlapped',
           \A d \in Callers :
               call[d].pc \in UnsettledPcs => call'[d].pc = call[d].pc /\ call'[d].task = call[d].task
    PROVE  PinTrue'
<1>1. Orderly' \subseteq Orderly
  BY DEF Orderly
<1>2. \A k \in Orderly', d \in Callers : At(d, k, UnsettledPcs) => At(d, k, UnsettledPcs)'
  BY DEF At
<1> QED  BY <1>1, <1>2, PinTrueKeeps

(* The same when it is a step of a call that is not unsettled. *)
LEMMA PinTrueMove ==
    ASSUME PinTrue, TypeInv, UNCHANGED <<pins, told>>, overlapped \subseteq overlapped',
           NEW c \in Callers, call[c].pc \notin UnsettledPcs,
           NEW s, call' = [call EXCEPT ![c] = s]
    PROVE  PinTrue'
<1>1. \A d \in Callers \ {c} : call'[d] = call[d]
  BY DEF TypeInv, CallsOK, Threads
<1> QED  BY <1>1, PinTrueQuiet

(* The steps of the callers that touch neither pins nor commands. *)
LEMMA PinTrueCaller ==
    ASSUME PinTrue, TypeInv, PinIsLock, Kept, NEW c \in Callers,
           \/ NewCall(c) \/ EditStep(c)
           \/ StartGet(c) \/ BroadcastPersist(c) \/ BroadcastMark(c) \/ StartSelect(c)
           \/ StartBump(c) \/ StartMark(c) \/ StartUnbump(c) \/ StartFail(c)
           \/ StopGetPin(c) \/ StopGetProplet(c) \/ StopBump(c)
    PROVE  PinTrue'
<1>1. UNCHANGED <<pins, told>> /\ overlapped \subseteq overlapped'
  <2>1. CASE EditStep(c)
    BY <2>1
    DEF EditStep, UpdateWrite, CronGet, CronPut, DeleteUnschedule, DeleteRemove, DeletePropletRemove,
        PinIsLock, Kept, KeptCall, DeletePcs, PinsAfterTaskDelete, PinsAfterPropletDelete
  <2>2. CASE NewCall(c)
    BY ZenonT(30), <2>2 DEF NewCall, CreateTask, StartTask, StopTask, UpdateTask, DeleteTask, DeleteProplet
  <2> QED
    BY <2>1, <2>2
    DEF StartGet, BroadcastPersist, BroadcastMark, StartSelect, StartBump, StartMark, StartUnbump,
        StartFail, StopGetPin, StopGetProplet, StopBump
<1>2. call[c].pc \notin UnsettledPcs
  BY DEF UnsettledPcs, NotOutPcs, EditStep, UpdateWrite, CronGet, CronPut, DeleteUnschedule,
         DeleteRemove, DeletePropletRemove, NewCall, CreateTask, StartTask, StopTask, UpdateTask,
         DeleteTask, DeleteProplet, Begin, Free, StartGet, BroadcastPersist, BroadcastMark,
         StartSelect, StartBump, StartMark, StartUnbump, StartFail, StopGetPin, StopGetProplet, StopBump
<1>3. UNCHANGED call \/ \E s : call' = [call EXCEPT ![c] = s]
  BY DEF EditStep, UpdateWrite, CronGet, CronPut, DeleteUnschedule,
         DeleteRemove, DeletePropletRemove, NewCall, CreateTask, StartTask, StopTask, UpdateTask,
         DeleteTask, DeleteProplet, StartGet, BroadcastPersist, BroadcastMark, StartSelect, StartBump,
         StartMark, StartUnbump, StartFail, StopGetPin, StopGetProplet, StopBump, Goto, Enter, Return
<1> QED  BY <1>1, <1>2, <1>3, PinTrueQuiet, PinTrueMove

(* The steps of StartTask on the pin and the publish. *)
LEMMA PinTrueStart ==
    ASSUME PinTrue, OrderInv, TypeInv, Kept, PinIsLock, NoDeletes, Truthful, NEW c \in Callers,
           \/ StartPin(c) \/ StartPersist(c) \/ StartPublish(c) \/ StartUnpin(c)
           \/ StartCountermand(c) \/ BroadcastPublish(c)
    PROVE  PinTrue'
<1> DEFINE k == call[c].task
           p == call[c].prop
<1> USE DEF UnsettledPcs, NotOutPcs
<1>1. Orderly' = Orderly /\ Orderly \subseteq Tasks
  BY DEF Orderly, StartPin, StartPersist, StartPublish, StartUnpin, StartCountermand, BroadcastPublish
<1>2. k \in Tasks
  BY Held DEF StartPcs, StartPin, StartPersist, StartPublish, StartUnpin, StartCountermand, BroadcastPublish
<1>3. CASE StartPin(c)
  <2>1. CASE Return(c) /\ UNCHANGED pins
    BY Zenon, <1>3, <2>1, PinTrueMove DEF StartPin, Return
  <2>2. CASE /\ pins' = [pins EXCEPT ![k] = p]
             /\ Enter(c, "persist", k, [call[c].t EXCEPT !.proplet = p], p, call[c].p)
    <3>1. \A d \in Callers : /\ call'[d].task = call[d].task
                             /\ call'[d].pc = IF d = c THEN "persist" ELSE call[d].pc
      BY <2>2, EnterFacts
    <3>2. \A j \in Tasks \ {k} : pins'[j] = pins[j]
      BY <1>2, <2>2 DEF TypeInv, TypeOK
    <3> QED  BY <1>1, <1>3, <3>1, <3>2, PinTrueKeeps DEF StartPin, At
  <2> QED  BY <1>3, <2>1, <2>2 DEF StartPin
<1>4. CASE StartPersist(c)
  <2>1. Goto(c, "publish") /\ UNCHANGED <<pins, told>>
    BY <1>4 DEF StartPersist, Kept, KeptCall, TaskUpdateErr, StartPcs
  <2>2. \A d \in Callers : /\ call'[d].task = call[d].task
                           /\ call'[d].pc = IF d = c THEN "publish" ELSE call[d].pc
    BY <2>1, GotoFacts
  <2> QED  BY ZenonT(30), <1>1, <2>1, <2>2, PinTrueKeeps DEF At
<1>5. CASE StartPublish(c)
  <2>1. CASE UNCHANGED told /\ Goto(c, "unpin1")
    <3>1. \A d \in Callers : /\ call'[d].task = call[d].task
                             /\ call'[d].pc = IF d = c THEN "unpin1" ELSE call[d].pc
      BY ZenonT(30), <2>1, GotoFacts
    <3> QED  BY ZenonT(30), <1>1, <1>5, <2>1, <3>1, PinTrueKeeps DEF At, StartPublish
  <2>2. CASE told' = [told EXCEPT ![k] = @ \cup {p}] /\ Goto(c, "bump")
    <3>1. \A d \in Callers : /\ call'[d].task = call[d].task
                             /\ call'[d].pc = IF d = c THEN "bump" ELSE call[d].pc
      BY <2>2, GotoFacts
    <3>2. told'[k] = told[k] \cup {p} /\ \A j \in Tasks \ {k} : told'[j] = told[j]
      BY <1>2, <2>2 DEF TypeInv, TypeOK
    <3>3. k \in Orderly => pins'[k] = p
      BY Zenon, <1>5 DEF StartPublish, OrderInv, PinHeld, At, HoldPcs
    <3> QED  BY <1>1, <1>5, <3>1, <3>2, <3>3, PinTrueKeeps DEF At, StartPublish
  <2> QED  BY <1>5, <2>1, <2>2 DEF StartPublish, Truthful, SendStart
<1>6. CASE StartUnpin(c)
  <2>1. PICK l : Goto(c, l)
    BY <1>6 DEF StartUnpin
  <2>2. \A d \in Callers : /\ call'[d].task = call[d].task
                           /\ d # c => call'[d].pc = call[d].pc
    BY Zenon, <2>1, GotoFacts
  <2>3. \A j \in Tasks : pins'[j] = IF j = k THEN None ELSE pins[j]
    BY <1>2, <1>6 DEF StartUnpin, TypeInv, TypeOK
  <2> QED  BY <1>1, <1>6, <2>2, <2>3, PinTrueKeeps DEF At, StartUnpin
<1>7. CASE StartCountermand(c)
  BY <1>7 DEF StartCountermand, Kept, KeptCall, NeverRecalls, RecallPcs
<1>8. CASE BroadcastPublish(c)
  <2>1. k \notin Orderly
    BY Zenon, <1>8 DEF BroadcastPublish, OrderInv, BroadcastOnly, BroadcastPcs, Orderly
  <2>2. \A j \in Orderly : told'[j] = told[j] /\ pins'[j] = pins[j]
    BY <1>1, <1>2, <1>8, <2>1 DEF BroadcastPublish, SendStart, TypeInv, TypeOK
  <2>3. \A d \in Callers : d # c => call'[d] = call[d]
    BY <1>8 DEF BroadcastPublish, Return, Goto, TypeInv, CallsOK, Threads
  <2>4. call[c].pc \notin UnsettledPcs
    BY Zenon, <1>8 DEF BroadcastPublish
  <2> QED  BY ZenonT(30), <1>1, <2>2, <2>3, <2>4, PinTrueKeeps DEF At
<1> QED  BY <1>3, <1>4, <1>5, <1>6, <1>7, <1>8

(* The steps of StopTask on the publish and the pin. *)
LEMMA PinTrueStop ==
    ASSUME PinTrue, OrderInv, TypeInv, Truthful, NEW c \in Callers,
           StopPublish(c) \/ StopUnpin(c) \/ StopBroadcast(c)
    PROVE  PinTrue'
<1> DEFINE k == call[c].task
           p == call[c].prop
<1> USE DEF UnsettledPcs, NotOutPcs
<1>1. Orderly' = Orderly /\ Orderly \subseteq Tasks
  BY ZenonT(30) DEF Orderly, StopPublish, StopUnpin, StopBroadcast
<1>2. k \in Tasks
  BY Held DEF StopPcs, StopPublish, StopUnpin, StopBroadcast
<1>3. CASE StopPublish(c)
  <2>1. CASE UNCHANGED told /\ Return(c)
    BY Zenon, <1>3, <2>1, PinTrueMove DEF StopPublish, Return
  <2>2. CASE told' = [told EXCEPT ![k] = @ \ {p}] /\ Goto(c, "stop_unpin")
    <3>1. \A d \in Callers : /\ call'[d].task = call[d].task
                             /\ call'[d].pc = IF d = c THEN "stop_unpin" ELSE call[d].pc
      BY <2>2, GotoFacts
    <3>2. \A j \in Tasks \ {k} : told'[j] = told[j]
      BY <1>2, <2>2 DEF TypeInv, TypeOK
    <3> QED  BY <1>1, <1>3, <3>1, <3>2, PinTrueKeeps DEF At, StopPublish
  <2> QED  BY <1>3, <2>1, <2>2 DEF StopPublish, Truthful, SendStop
<1>4. CASE StopUnpin(c)
  <2>1. \A d \in Callers : /\ call'[d].task = call[d].task
                           /\ d # c => call'[d].pc = call[d].pc
    BY <1>4, GotoFacts DEF StopUnpin
  <2>2. \A j \in Tasks : pins'[j] = IF j = k THEN None ELSE pins[j]
    BY <1>2, <1>4 DEF StopUnpin, TypeInv, TypeOK
  <2> QED  BY ZenonT(30), <1>1, <1>4, <2>1, <2>2, PinTrueKeeps DEF At, StopUnpin
<1>5. CASE StopBroadcast(c)
  <2>1. k \notin Orderly
    BY Zenon, <1>5 DEF StopBroadcast, OrderInv, BroadcastOnly, BroadcastPcs, Orderly
  <2>2. \A j \in Orderly : told'[j] = told[j] /\ pins'[j] = pins[j]
    BY <1>1, <1>2, <1>5, <2>1 DEF StopBroadcast, SendStop, TypeInv, TypeOK
  <2>3. \A d \in Callers : d # c => call'[d] = call[d]
    BY <1>5 DEF StopBroadcast, Return, TypeInv, CallsOK, Threads
  <2>4. call[c].pc \notin UnsettledPcs
    BY <1>5 DEF StopBroadcast
  <2> QED  BY ZenonT(30), <1>1, <2>2, <2>3, <2>4, PinTrueKeeps DEF At
<1> QED  BY <1>3, <1>4, <1>5

(* Every step keeps the pins true. *)
LEMMA PinTrueStep ==
    ASSUME PinIsLock, NoDeletes, Truthful
    PROVE  PinTrue /\ OrderInv /\ TypeInv /\ Kept /\ [Next]_vars => PinTrue'
<1> SUFFICES ASSUME PinTrue, OrderInv, TypeInv, Kept, [Next]_vars PROVE PinTrue'
  OBVIOUS
<1>1. CASE UNCHANGED vars
  BY <1>1, PinTrueQuiet DEF vars
<1>2. ASSUME NEW c \in Callers, NewCall(c) \/ CallStep(c)
      PROVE  PinTrue'
  BY <1>2, PinTrueCaller, PinTrueStart, PinTrueStop DEF CallStep, StartStep, StopStep
<1>3. CASE NewMsg \/ HandlerStep \/ Environment
  <2>1. UNCHANGED <<pins, told, overlapped>>
    BY Zenon, <1>3
    DEF NewMsg, AliveMsg, DiscoveryMsg, ResultMsg, HandlerStep, AliveWrite, CreateLookup,
        CreateWrite, ResultWrite, Environment, PropletReports, PropletDrops, TimePasses
  <2> QED  BY <1>3, <2>1, CallersStay, PinTrueQuiet
<1> QED  BY <1>1, <1>2, <1>3 DEF Next

(* Between the starts and stops of a task its pin tells the truth: with      *)
(* exclusive pins, no record deleted and a broker that delivers a command    *)
(* exactly if it reports no error, a task whose stops overlapped no other    *)
(* start or stop is pinned to a proplet exactly if that proplet's last       *)
(* command about it was a start, however many callers race.                  *)
THEOREM PinTellsTruth ==
    ASSUME PinIsLock, NoDeletes, Truthful
    PROVE  Spec => []PinMatchesOrder
<1>1. CommandsKnown
  BY DEF Truthful, CommandsKnown, NeverRecalls
<1>2. PinTrue /\ OrderInv /\ TypeInv /\ Kept => PinMatchesOrder
  <2> SUFFICES ASSUME PinTrue, OrderInv, TypeInv, Kept,
                      NEW k \in Orderly, ~Starting(k), ~Stopping(k)
               PROVE  told[k] = {pins[k]} \ {None}
    BY DEF PinMatchesOrder
  <2>1. Recalling(k) = {} /\ \A c \in Callers : ~At(c, k, UnsettledPcs)
    BY DEF Starting, Stopping, Recalling, RecallPcs, At, UnsettledPcs, NotOutPcs, StartPcs, StopPcs
  <2>2. None \notin told[k]
    BY NoneAssumption DEF TypeInv, TypeOK, Orderly
  <2>3. told[k] \subseteq {pins[k]}
    BY <2>1 DEF OrderInv, OneOrder
  <2> QED  BY <2>1, <2>2, <2>3 DEF PinTrue
<1>3. Init => PinTrue
  BY DEF Init, PinTrue, Orderly
<1>4. OrderInv /\ TypeInv /\ Kept /\ [Next]_vars => OrderInv'
  BY <1>1, OrderStep
<1>5. PinTrue /\ OrderInv /\ TypeInv /\ Kept /\ [Next]_vars => PinTrue'
  BY PinTrueStep
<1>6. Spec => []Kept
  BY KeptInit, KeptStep, TypeInvHolds, PTL DEF Spec
<1> QED  BY <1>2, <1>3, <1>4, <1>5, <1>6, OrderInit, TypeInvHolds, PTL DEF Spec
=============================================================================
