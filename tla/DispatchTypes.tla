--------------------------- MODULE DispatchTypes ----------------------------
(***************************************************************************)
(* Type correctness of Dispatch, for every set of tasks, proplets and      *)
(* callers and every bound on the number of calls.                         *)
(***************************************************************************)
EXTENDS Dispatch, TLAPS

(* What a call carries at each program counter. *)
TaskPcs == StartPcs \cup StopPcs \cup {"update", "cron_get", "cron_put", "unschedule", "delete", "result"}

CopyPcs == (StartPcs \ {"start"}) \cup {"update", "cron_put", "unschedule", "result"}

TargetPcs ==
    {"pin", "persist", "publish", "bump", "mark", "unpin1", "unpin2", "unpin3", "unbump",
     "countermand", "fail", "stop_proplet", "stop_publish", "stop_unpin", "stop_bump",
     "delete_proplet", "alive", "lookup", "refresh", "create"}

CountPcs ==
    {"pin", "persist", "publish", "bump", "mark", "unpin1", "unpin2", "unpin3", "unbump",
     "stop_publish", "stop_unpin", "stop_bump", "alive", "refresh"}

WellFormed(r) ==
    /\ r.pc \in TaskPcs => r.task \in Tasks
    /\ r.pc \in CopyPcs => r.t \in TaskRec
    /\ r.pc \in TargetPcs => r.prop \in Proplets
    /\ r.pc \in CountPcs => r.p \in PropletRec

CallsOK == call \in [Threads -> Call] /\ \A c \in Threads : WellFormed(call[c])

(* TypeOK with the shape of the calls: inductive. *)
TypeInv == TypeOK /\ CallsOK

USE DEF IsErr, Delivers

(* A thread that moves to a well-formed call keeps the calls well formed. *)
LEMMA CallMove ==
    ASSUME CallsOK, NEW c \in Threads, NEW r \in Call, WellFormed(r),
           call' = [call EXCEPT ![c] = r]
    PROVE  CallsOK'
BY DEF CallsOK

(* The three ways a thread moves. *)
LEMMA MoveReturn ==
    ASSUME CallsOK, NEW c \in Threads, Return(c)
    PROVE  CallsOK'
<1>1. IdleCall \in Call /\ WellFormed(IdleCall)
  BY DEF IdleCall, Call, Pcs, WellFormed, TaskPcs, CopyPcs, TargetPcs, CountPcs, StartPcs, StopPcs
<1> QED  BY <1>1, CallMove, Zenon DEF Return

(* A call that goes on with the fields it has. *)
LEMMA MoveGoto ==
    ASSUME CallsOK, NEW c \in Threads, NEW l \in Pcs, Goto(c, l),
           l \in TaskPcs => call[c].pc \in TaskPcs,
           l \in CopyPcs => call[c].pc \in CopyPcs,
           l \in TargetPcs => call[c].pc \in TargetPcs,
           l \in CountPcs => call[c].pc \in CountPcs
    PROVE  CallsOK'
<1> DEFINE r == [call[c] EXCEPT !.pc = l]
<1>1. call[c] \in Call /\ WellFormed(call[c])
  BY DEF CallsOK
<1>2. r \in Call /\ WellFormed(r)
  BY <1>1 DEF Call, WellFormed
<1>3. call' = [call EXCEPT ![c] = r]
  BY DEF Goto, CallsOK
<1> QED  BY <1>2, <1>3, CallMove, Zenon

(* A call that goes on with new fields. *)
LEMMA MoveEnter ==
    ASSUME CallsOK, NEW c \in Threads, NEW l \in Pcs, NEW k \in Tasks \cup {None},
           NEW t \in TaskRec \cup {None}, NEW q \in Proplets \cup {None},
           NEW p \in PropletRec \cup {None}, Enter(c, l, k, t, q, p),
           l \in TaskPcs => k \in Tasks,
           l \in CopyPcs => t \in TaskRec,
           l \in TargetPcs => q \in Proplets,
           l \in CountPcs => p \in PropletRec
    PROVE  CallsOK'
<1> DEFINE r == [pc |-> l, task |-> k, t |-> t, prop |-> q, p |-> p]
<1>1. r \in Call /\ WellFormed(r)
  BY DEF Call, WellFormed
<1> QED  BY <1>1, CallMove, Zenon DEF Enter

(* The repository operators preserve the types of the repositories. *)
LEMMA TaskWrite ==
    ASSUME NEW f \in [Tasks -> TaskRec \cup {None}], NEW k \in Tasks, NEW t \in TaskRec
    PROVE  TaskUpdated(f, k, t) \in [Tasks -> TaskRec \cup {None}]
BY DEF TaskUpdated

(* propletRepo.Update and Create preserve the type of the proplets. *)
LEMMA PropletWrite ==
    ASSUME NEW g \in [Proplets -> PropletRec \cup {None}], NEW p \in Proplets, NEW r \in PropletRec
    PROVE  /\ PropletUpdated(g, p, r) \in [Proplets -> PropletRec \cup {None}]
           /\ PropletCreated(g, p, r) \in [Proplets -> PropletRec \cup {None}]
BY DEF PropletUpdated, PropletCreated

(* The cascades of postgres preserve the type of the pins. *)
LEMMA PinCascade ==
    ASSUME NEW h \in [Tasks -> Proplets \cup {None}]
    PROVE  /\ \A k \in Tasks : PinsAfterTaskDelete(h, k) \in [Tasks -> Proplets \cup {None}]
           /\ \A p \in Proplets : PinsAfterPropletDelete(h, p) \in [Tasks -> Proplets \cup {None}]
BY DEF PinsAfterTaskDelete, PinsAfterPropletDelete

(* Commands keep the types of what the proplets were told. *)
LEMMA SendTypes ==
    ASSUME TypeOK, NEW k \in Tasks, NEW ps \in SUBSET Proplets, NEW o
    PROVE  /\ SendStart(k, ps, o) => /\ told' \in [Tasks -> SUBSET Proplets]
                                     /\ working' \in [Tasks -> SUBSET Proplets]
           /\ SendStop(k, ps, o) => told' \in [Tasks -> SUBSET Proplets]
<1>1. \A f \in [Tasks -> SUBSET Proplets] :
        /\ [f EXCEPT ![k] = @ \cup ps] \in [Tasks -> SUBSET Proplets]
        /\ [f EXCEPT ![k] = @ \ ps] \in [Tasks -> SUBSET Proplets]
  OBVIOUS
<1> QED  BY <1>1 DEF SendStart, SendStop, TypeOK

(* The edits made to private copies yield records. *)
LEMMA CopyTypes ==
    /\ \A t \in TaskRec : /\ \A s \in States : [t EXCEPT !.state = s] \in TaskRec
                          /\ \A q \in Proplets : [t EXCEPT !.proplet = q] \in TaskRec
    /\ \A r \in PropletRec :
          /\ \A b \in BOOLEAN : [r EXCEPT !.fresh = b] \in PropletRec
          /\ Incremented(r) \in PropletRec
          /\ Decremented(r) \in PropletRec
BY DEF TaskRec, PropletRec, Incremented, Decremented

(* The manager starts well typed, with every thread idle. *)
LEMMA TypeInit == Init => TypeInv
<1> SUFFICES ASSUME Init PROVE TypeInv
  OBVIOUS
<1>1. IdleCall \in Call /\ WellFormed(IdleCall)
  BY DEF IdleCall, Call, Pcs, WellFormed, TaskPcs, CopyPcs, TargetPcs, CountPcs, StartPcs, StopPcs
<1>2. CallsOK
  BY <1>1 DEF Init, CallsOK
<1>3. calls \in 0..MaxCalls
  BY DispatchAssumption DEF Init
<1>4. shuttingDown \in BOOLEAN
  BY Zenon DEF Init
<1>5. TypeOK
  BY <1>2, <1>3, <1>4 DEF Init, TypeOK, CallsOK
<1> QED  BY <1>2, <1>5 DEF TypeInv

(* What is known of the call of a thread. *)
LEMMA CallShape ==
    ASSUME CallsOK, NEW c \in Threads
    PROVE  call[c] \in Call /\ WellFormed(call[c])
BY DEF CallsOK

(* The steps of StartTask preserve the types. *)
LEMMA TypeStart ==
    ASSUME TypeInv, NEW c \in Callers, StartStep(c)
    PROVE  TypeInv'
<1>1. c \in Threads /\ TypeOK /\ CallsOK
  BY DEF Threads, TypeInv
<1>2. call[c] \in Call /\ WellFormed(call[c])
  BY <1>1, CallShape
<1> USE DEF Pcs, TaskPcs, CopyPcs, TargetPcs, CountPcs, StartPcs, StopPcs
<1>3. CASE StartGet(c)
  <2>1. CallsOK'
    <3>1. CASE tasks[call[c].task] = None
      BY <1>1, <1>3, <3>1, MoveReturn DEF StartGet
    <3>2. CASE tasks[call[c].task] # None
      <4> DEFINE l == IF call[c].task \in BroadcastTasks THEN "bpersist" ELSE "select"
      <4>1. tasks[call[c].task] \in TaskRec /\ call[c].task \in Tasks
        BY <1>1, <1>2, <1>3, <3>2 DEF StartGet, WellFormed, TypeOK
      <4>2. Enter(c, l, call[c].task, tasks[call[c].task], None, None)
        BY <1>3, <3>2 DEF StartGet
      <4>3. l \in Pcs /\ l \notin TargetPcs /\ l \notin CountPcs
        OBVIOUS
      <4> HIDE DEF l, Pcs, TaskPcs, CopyPcs, TargetPcs, CountPcs
      <4> QED  BY <1>1, <4>1, <4>2, <4>3, MoveEnter
    <3> QED  BY <3>1, <3>2
  <2>2. TypeOK'
    BY <1>1, <1>2, <1>3, <2>1 DEF StartGet, WellFormed, TypeOK, CallsOK
  <2> QED  BY <2>1, <2>2 DEF TypeInv
<1>4. CASE BroadcastPersist(c)
  <2>1. CallsOK'
    BY <1>1, <1>2, <1>4, MoveReturn, MoveGoto, MoveEnter, Zenon
       DEF BroadcastPersist, WellFormed, TypeOK
  <2>2. TypeOK'
    BY <1>1, <1>2, <1>4, <2>1, TaskWrite, Zenon DEF BroadcastPersist, WellFormed, TypeOK, CallsOK
  <2> QED  BY <2>1, <2>2 DEF TypeInv
<1>5. CASE BroadcastPublish(c)
  <2>1. CallsOK'
    BY <1>1, <1>2, <1>5, MoveReturn, MoveGoto, MoveEnter, Zenon
       DEF BroadcastPublish, WellFormed, TypeOK
  <2>2. TypeOK'
    BY <1>1, <1>2, <1>5, <2>1, SendTypes, Zenon DEF BroadcastPublish, WellFormed, TypeOK, CallsOK
  <2> QED  BY <2>1, <2>2 DEF TypeInv
<1>6. CASE BroadcastMark(c)
  <2>1. CallsOK'
    BY <1>1, <1>2, <1>6, MoveReturn, MoveGoto, MoveEnter, Zenon
       DEF BroadcastMark, WellFormed, TypeOK
  <2>2. TypeOK'
    BY <1>1, <1>2, <1>6, <2>1, TaskWrite, CopyTypes, Zenon
       DEF BroadcastMark, WellFormed, TypeOK, CallsOK, States
  <2> QED  BY <2>1, <2>2 DEF TypeInv
<1>7. CASE StartSelect(c)
  <2>1. CallsOK'
    <3>1. CASE Return(c)
      BY <1>1, <3>1, MoveReturn
    <3>2. ASSUME NEW p \in Proplets, Alive(p), Enter(c, "pin", call[c].task, call[c].t, p, proplets[p])
          PROVE  CallsOK'
      <4>1. proplets[p] \in PropletRec
        BY <1>1, <3>2 DEF Alive, TypeOK
      <4> QED  BY <1>1, <1>2, <1>7, <3>2, <4>1, MoveEnter DEF StartSelect, WellFormed
    <3> QED  BY <1>7, <3>1, <3>2 DEF StartSelect
  <2>2. TypeOK'
    BY <1>1, <1>2, <1>7, <2>1 DEF StartSelect, WellFormed, TypeOK, CallsOK
  <2> QED  BY <2>1, <2>2 DEF TypeInv
<1>8. CASE StartPin(c)
  <2>1. CallsOK'
    <3>1. CASE Return(c)
      BY <1>1, <3>1, MoveReturn
    <3>2. CASE Enter(c, "persist", call[c].task, [call[c].t EXCEPT !.proplet = call[c].prop],
                     call[c].prop, call[c].p)
      <4>1. [call[c].t EXCEPT !.proplet = call[c].prop] \in TaskRec
        BY <1>2, <1>8, CopyTypes DEF StartPin, WellFormed
      <4> QED  BY <1>1, <1>2, <1>8, <3>2, <4>1, MoveEnter DEF StartPin, WellFormed
    <3> QED  BY <1>8, <3>1, <3>2 DEF StartPin
  <2>2. TypeOK'
    BY <1>1, <1>2, <1>8, <2>1, Zenon DEF StartPin, WellFormed, TypeOK, CallsOK
  <2> QED  BY <2>1, <2>2 DEF TypeInv
<1>9. CASE StartPersist(c)
  <2>1. CallsOK'
    BY <1>1, <1>2, <1>9, MoveReturn, MoveGoto, MoveEnter, Zenon DEF StartPersist, WellFormed, TypeOK
  <2>2. TypeOK'
    BY <1>1, <1>2, <1>9, <2>1, TaskWrite, Zenon DEF StartPersist, WellFormed, TypeOK, CallsOK
  <2> QED  BY <2>1, <2>2 DEF TypeInv
<1>10. CASE StartPublish(c)
  <2>1. CallsOK'
    BY <1>1, <1>2, <1>10, MoveReturn, MoveGoto, MoveEnter, Zenon
       DEF StartPublish, WellFormed, TypeOK
  <2>2. TypeOK'
    BY <1>1, <1>2, <1>10, <2>1, SendTypes, Zenon DEF StartPublish, WellFormed, TypeOK, CallsOK
  <2> QED  BY <2>1, <2>2 DEF TypeInv
<1>11. CASE StartBump(c)
  <2>1. CallsOK'
    BY <1>1, <1>2, <1>11, MoveReturn, MoveGoto, MoveEnter, Zenon DEF StartBump, WellFormed, TypeOK
  <2>2. TypeOK'
    BY <1>1, <1>2, <1>11, <2>1, PropletWrite, CopyTypes, Zenon
       DEF StartBump, WellFormed, TypeOK, CallsOK
  <2> QED  BY <2>1, <2>2 DEF TypeInv
<1>12. CASE StartMark(c)
  <2>1. CallsOK'
    BY <1>1, <1>2, <1>12, MoveReturn, MoveGoto, MoveEnter, Zenon DEF StartMark, WellFormed, TypeOK
  <2>2. TypeOK'
    BY <1>1, <1>2, <1>12, <2>1, TaskWrite, CopyTypes, Zenon
       DEF StartMark, WellFormed, TypeOK, CallsOK, States
  <2> QED  BY <2>1, <2>2 DEF TypeInv
<1>13. CASE StartUnpin(c)
  <2>1. CallsOK'
    BY <1>1, <1>2, <1>13, MoveReturn, MoveGoto, MoveEnter, Zenon DEF StartUnpin, WellFormed, TypeOK
  <2>2. TypeOK'
    BY <1>1, <1>2, <1>13, <2>1, Zenon DEF StartUnpin, WellFormed, TypeOK, CallsOK
  <2> QED  BY <2>1, <2>2 DEF TypeInv
<1>14. CASE StartUnbump(c)
  <2>1. CallsOK'
    BY <1>1, <1>2, <1>14, MoveReturn, MoveGoto, MoveEnter, Zenon DEF StartUnbump, WellFormed, TypeOK
  <2>2. TypeOK'
    BY <1>1, <1>2, <1>14, <2>1, PropletWrite, CopyTypes, Zenon
       DEF StartUnbump, WellFormed, TypeOK, CallsOK
  <2> QED  BY <2>1, <2>2 DEF TypeInv
<1>15. CASE StartCountermand(c)
  <2>1. CallsOK'
    <3>1. Goto(c, "fail")
      BY <1>15 DEF StartCountermand
    <3> QED  BY <1>1, <1>2, <1>15, <3>1, MoveGoto DEF StartCountermand, WellFormed
  <2>2. TypeOK'
    BY <1>1, <1>2, <1>15, <2>1, SendTypes, Zenon DEF StartCountermand, WellFormed, TypeOK, CallsOK
  <2> QED  BY <2>1, <2>2 DEF TypeInv
<1>16. CASE StartFail(c)
  <2>1. CallsOK'
    BY <1>1, <1>16, MoveReturn DEF StartFail
  <2>2. TypeOK'
    BY <1>1, <1>2, <1>16, <2>1, TaskWrite, CopyTypes, Zenon
       DEF StartFail, WellFormed, TypeOK, CallsOK, States
  <2> QED  BY <2>1, <2>2 DEF TypeInv
<1> QED  BY <1>3, <1>4, <1>5, <1>6, <1>7, <1>8, <1>9, <1>10, <1>11, <1>12, <1>13, <1>14, <1>15, <1>16 DEF StartStep

(* The steps of StopTask preserve the types. *)
LEMMA TypeStop ==
    ASSUME TypeInv, NEW c \in Callers, StopStep(c)
    PROVE  TypeInv'
<1>1. c \in Threads /\ TypeOK /\ CallsOK
  BY DEF Threads, TypeInv
<1>2. call[c] \in Call /\ WellFormed(call[c])
  BY <1>1, CallShape
<1> USE DEF Pcs, TaskPcs, CopyPcs, TargetPcs, CountPcs, StartPcs, StopPcs
<1>3. CASE StopBroadcast(c)
  <2>1. CallsOK'
    BY <1>1, <1>2, <1>3, MoveReturn, MoveGoto, MoveEnter, Zenon
       DEF StopBroadcast, WellFormed, TypeOK
  <2>2. TypeOK'
    BY <1>1, <1>2, <1>3, <2>1, SendTypes, Zenon DEF StopBroadcast, WellFormed, TypeOK, CallsOK
  <2> QED  BY <2>1, <2>2 DEF TypeInv
<1>4. CASE StopGetPin(c)
  <2>1. CallsOK'
    <3>1. CASE Return(c)
      BY <1>1, <3>1, MoveReturn
    <3>2. CASE ~Return(c)
      <4>1. call[c].task \in Tasks /\ pins[call[c].task] \in Proplets
        BY <1>1, <1>2, <1>4, <3>2 DEF StopGetPin, WellFormed, TypeOK
      <4>2. Enter(c, "stop_proplet", call[c].task, None, pins[call[c].task], None)
        BY <1>4, <3>2 DEF StopGetPin
      <4>3. "stop_proplet" \in Pcs /\ "stop_proplet" \notin CountPcs /\ "stop_proplet" \notin CopyPcs
        OBVIOUS
      <4> HIDE DEF Pcs, TaskPcs, CopyPcs, TargetPcs, CountPcs
      <4> QED  BY <1>1, <4>1, <4>2, <4>3, MoveEnter
    <3> QED  BY <3>1, <3>2
  <2>2. TypeOK'
    BY <1>1, <1>2, <1>4, <2>1 DEF StopGetPin, WellFormed, TypeOK, CallsOK
  <2> QED  BY <2>1, <2>2 DEF TypeInv
<1>5. CASE StopGetProplet(c)
  <2>1. CallsOK'
    <3>1. CASE Return(c)
      BY <1>1, <3>1, MoveReturn
    <3>2. CASE ~Return(c)
      <4>1. call[c].task \in Tasks /\ call[c].prop \in Proplets /\ proplets[call[c].prop] \in PropletRec
        BY <1>1, <1>2, <1>5, <3>2, Zenon DEF StopGetProplet, WellFormed, TypeOK
      <4>2. Enter(c, "stop_publish", call[c].task, None, call[c].prop, proplets[call[c].prop])
        BY <1>5, <3>2 DEF StopGetProplet
      <4> QED  BY <1>1, <4>1, <4>2, MoveEnter
    <3> QED  BY <3>1, <3>2
  <2>2. TypeOK'
    BY <1>1, <1>2, <1>5, <2>1, Zenon DEF StopGetProplet, WellFormed, TypeOK, CallsOK
  <2> QED  BY <2>1, <2>2 DEF TypeInv
<1>6. CASE StopPublish(c)
  <2>1. CallsOK'
    BY <1>1, <1>2, <1>6, MoveReturn, MoveGoto, MoveEnter, Zenon DEF StopPublish, WellFormed, TypeOK
  <2>2. TypeOK'
    BY <1>1, <1>2, <1>6, <2>1, SendTypes, Zenon DEF StopPublish, WellFormed, TypeOK, CallsOK
  <2> QED  BY <2>1, <2>2 DEF TypeInv
<1>7. CASE StopUnpin(c)
  <2>1. CallsOK'
    BY <1>1, <1>2, <1>7, MoveReturn, MoveGoto, MoveEnter, Zenon DEF StopUnpin, WellFormed, TypeOK
  <2>2. TypeOK'
    BY <1>1, <1>2, <1>7, <2>1, Zenon DEF StopUnpin, WellFormed, TypeOK, CallsOK
  <2> QED  BY <2>1, <2>2 DEF TypeInv
<1>8. CASE StopBump(c)
  <2>1. CallsOK'
    BY <1>1, <1>2, <1>8, MoveReturn, MoveGoto, MoveEnter, Zenon DEF StopBump, WellFormed, TypeOK
  <2>2. TypeOK'
    BY <1>1, <1>2, <1>8, <2>1, PropletWrite, CopyTypes DEF StopBump, WellFormed, TypeOK, CallsOK
  <2> QED  BY <2>1, <2>2 DEF TypeInv
<1> QED  BY <1>3, <1>4, <1>5, <1>6, <1>7, <1>8 DEF StopStep

(* The steps of UpdateTask and the deletions preserve the types. *)
LEMMA TypeEdit ==
    ASSUME TypeInv, NEW c \in Callers, EditStep(c)
    PROVE  TypeInv'
<1>1. c \in Threads /\ TypeOK /\ CallsOK
  BY DEF Threads, TypeInv
<1>2. call[c] \in Call /\ WellFormed(call[c])
  BY <1>1, CallShape
<1> USE DEF Pcs, TaskPcs, CopyPcs, TargetPcs, CountPcs, StartPcs, StopPcs
<1>3. CASE UpdateWrite(c)
  <2>1. CallsOK'
    <3>1. CASE Return(c)
      BY <1>1, <3>1, MoveReturn
    <3>2. CASE ~Return(c)
      <4>1. call[c].task \in Tasks
        BY <1>1, <1>2, <1>3, <3>2 DEF UpdateWrite, WellFormed, TypeOK
      <4>2. Enter(c, "cron_get", call[c].task, None, None, None)
        BY <1>3, <3>2 DEF UpdateWrite
      <4>3. /\ "cron_get" \in Pcs /\ "cron_get" \notin CopyPcs
            /\ "cron_get" \notin CountPcs /\ "cron_get" \notin TargetPcs
        OBVIOUS
      <4> HIDE DEF Pcs, TaskPcs, CopyPcs, TargetPcs, CountPcs
      <4> QED  BY <1>1, <4>1, <4>2, <4>3, MoveEnter
    <3> QED  BY <3>1, <3>2
  <2>2. TypeOK'
    BY <1>1, <1>2, <1>3, <2>1, TaskWrite DEF UpdateWrite, WellFormed, TypeOK, CallsOK
  <2> QED  BY <2>1, <2>2 DEF TypeInv
<1>4. CASE CronGet(c)
  <2>1. CallsOK'
    <3>1. CASE Return(c)
      BY <1>1, <3>1, MoveReturn
    <3>2. CASE ~Return(c)
      <4>1. call[c].task \in Tasks /\ tasks[call[c].task] \in TaskRec
        BY <1>1, <1>2, <1>4, <3>2 DEF CronGet, WellFormed, TypeOK
      <4>2. Enter(c, "cron_put", call[c].task, tasks[call[c].task], None, None)
        BY <1>4, <3>2 DEF CronGet
      <4>3. "cron_put" \in Pcs /\ "cron_put" \notin CountPcs /\ "cron_put" \notin TargetPcs
        OBVIOUS
      <4> HIDE DEF Pcs, TaskPcs, CopyPcs, TargetPcs, CountPcs
      <4> QED  BY <1>1, <4>1, <4>2, <4>3, MoveEnter
    <3> QED  BY <3>1, <3>2
  <2>2. TypeOK'
    BY <1>1, <1>2, <1>4, <2>1, Zenon DEF CronGet, WellFormed, TypeOK, CallsOK
  <2> QED  BY <2>1, <2>2 DEF TypeInv
<1>5. CASE CronPut(c)
  <2>1. CallsOK'
    BY <1>1, <1>2, <1>5, MoveReturn, MoveGoto, MoveEnter, Zenon DEF CronPut, WellFormed, TypeOK
  <2>2. TypeOK'
    BY <1>1, <1>2, <1>5, <2>1, TaskWrite, Zenon DEF CronPut, WellFormed, TypeOK, CallsOK
  <2> QED  BY <2>1, <2>2 DEF TypeInv
<1>6. CASE DeleteUnschedule(c)
  <2>1. CallsOK'
    BY <1>1, <1>2, <1>6, MoveReturn, MoveGoto, MoveEnter, Zenon
       DEF DeleteUnschedule, WellFormed, TypeOK
  <2>2. TypeOK'
    BY <1>1, <1>2, <1>6, <2>1, TaskWrite, Zenon DEF DeleteUnschedule, WellFormed, TypeOK, CallsOK
  <2> QED  BY <2>1, <2>2 DEF TypeInv
<1>7. CASE DeleteRemove(c)
  <2>1. CallsOK'
    BY <1>1, <1>2, <1>7, MoveReturn, MoveGoto, MoveEnter, Zenon DEF DeleteRemove, WellFormed, TypeOK
  <2>2. TypeOK'
    BY <1>1, <1>2, <1>7, <2>1, PinCascade, Zenon DEF DeleteRemove, WellFormed, TypeOK, CallsOK
  <2> QED  BY <2>1, <2>2 DEF TypeInv
<1>8. CASE DeletePropletRemove(c)
  <2>1. CallsOK'
    BY <1>1, <1>2, <1>8, MoveReturn, MoveGoto, MoveEnter, Zenon
       DEF DeletePropletRemove, WellFormed, TypeOK
  <2>2. TypeOK'
    BY <1>1, <1>2, <1>8, <2>1, PinCascade DEF DeletePropletRemove, WellFormed, TypeOK, CallsOK
  <2> QED  BY <2>1, <2>2 DEF TypeInv
<1> QED  BY <1>3, <1>4, <1>5, <1>6, <1>7, <1>8 DEF EditStep

(* The calls that begin preserve the types. *)
LEMMA TypeNew ==
    ASSUME TypeInv, NEW c \in Callers, NewCall(c)
    PROVE  TypeInv'
<1>1. c \in Threads /\ TypeOK /\ CallsOK
  BY DEF Threads, TypeInv
<1>2. \A op : Begin(c, op) => calls' \in 0..MaxCalls
  BY <1>1, DispatchAssumption DEF Begin, TypeOK
<1> USE DEF Pcs, TaskPcs, CopyPcs, TargetPcs, CountPcs, StartPcs, StopPcs
<1>3. ASSUME NEW k \in Tasks, NEW p \in Proplets \cup {None}, NEW s \in NewStates,
             CreateTask(c, k, p, s)
      PROVE  TypeInv'
  <2>1. CallsOK'
    <3>1. CASE UNCHANGED call
      BY <1>1, <3>1 DEF CallsOK
    <3>2. CASE Enter(c, "cron_get", k, None, None, None)
      BY <1>1, <3>2, MoveEnter
    <3> QED  BY <1>3, <3>1, <3>2 DEF CreateTask
  <2>2. [state |-> s, proplet |-> p] \in TaskRec
    BY DispatchAssumption DEF TaskRec
  <2>3. TypeOK'
    BY <1>1, <1>2, <1>3, <2>1, <2>2 DEF CreateTask, TypeOK, CallsOK
  <2> QED  BY <2>1, <2>3 DEF TypeInv
<1>4. ASSUME NEW k \in Tasks, StartTask(c, k)
      PROVE  TypeInv'
  <2>1. CallsOK'
    <3>1. Enter(c, "start", k, None, None, None)
      BY <1>4 DEF StartTask
    <3> QED  BY <1>1, <3>1, MoveEnter
  <2>2. TypeOK'
    BY <1>1, <1>2, <1>4, <2>1 DEF StartTask, TypeOK, CallsOK
  <2> QED  BY <2>1, <2>2 DEF TypeInv
<1>5. ASSUME NEW k \in Tasks, StopTask(c, k)
      PROVE  TypeInv'
  <2>1. CallsOK'
    <3>1. CASE Enter(c, "stop_all", k, None, None, None)
      BY <1>1, <3>1, MoveEnter
    <3>2. CASE Enter(c, "stop_pin", k, None, None, None)
      BY <1>1, <3>2, MoveEnter
    <3> QED  BY <1>5, <3>1, <3>2 DEF StopTask
  <2>2. TypeOK'
    BY <1>1, <1>2, <1>5, <2>1, Zenon DEF StopTask, TypeOK, CallsOK
  <2> QED  BY <2>1, <2>2 DEF TypeInv
<1>6. ASSUME NEW k \in Tasks, UpdateTask(c, k)
      PROVE  TypeInv'
  <2>1. CallsOK'
    <3>1. Enter(c, "update", k, tasks[k], None, None) /\ tasks[k] \in TaskRec
      BY <1>1, <1>6 DEF UpdateTask, TypeOK
    <3>2. "update" \in Pcs /\ "update" \notin CountPcs /\ "update" \notin TargetPcs
      OBVIOUS
    <3> HIDE DEF Pcs, TaskPcs, CopyPcs, TargetPcs, CountPcs
    <3> QED  BY <1>1, <3>1, <3>2, MoveEnter, Zenon
  <2>2. TypeOK'
    BY <1>1, <1>2, <1>6, <2>1 DEF UpdateTask, TypeOK, CallsOK
  <2> QED  BY <2>1, <2>2 DEF TypeInv
<1>7. ASSUME NEW k \in Tasks, DeleteTask(c, k)
      PROVE  TypeInv'
  <2>1. CallsOK'
    <3>1. CASE Enter(c, "delete", k, None, None, None)
      BY <1>1, <3>1, MoveEnter
    <3>2. CASE Enter(c, "unschedule", k, tasks[k], None, None) /\ tasks[k] \in TaskRec
      BY <1>1, <3>2, MoveEnter
    <3> QED  BY <1>1, <1>7, <3>1, <3>2 DEF DeleteTask, TypeOK
  <2>2. TypeOK'
    BY <1>1, <1>2, <1>7, <2>1 DEF DeleteTask, TypeOK, CallsOK
  <2> QED  BY <2>1, <2>2 DEF TypeInv
<1>8. ASSUME NEW p \in Proplets, DeleteProplet(c, p)
      PROVE  TypeInv'
  <2>1. CallsOK'
    BY <1>1, <1>8, MoveEnter DEF DeleteProplet
  <2>2. TypeOK'
    BY <1>1, <1>2, <1>8, <2>1 DEF DeleteProplet, TypeOK, CallsOK
  <2> QED  BY <2>1, <2>2 DEF TypeInv
<1> QED  BY <1>3, <1>4, <1>5, <1>6, <1>7, <1>8 DEF NewCall

(* The MQTT handlers preserve the types. *)
LEMMA TypeMessage ==
    ASSUME TypeInv, NewMsg
    PROVE  TypeInv'
<1>1. MQTT \in Threads /\ TypeOK /\ CallsOK
  BY DEF Threads, TypeInv
<1> USE DEF Pcs, TaskPcs, CopyPcs, TargetPcs, CountPcs, StartPcs, StopPcs
<1>2. ASSUME NEW p \in Proplets, AliveMsg(p)
      PROVE  TypeInv'
  <2>1. CallsOK'
    <3>1. CASE Enter(MQTT, "lookup", None, None, p, None)
      BY <1>1, <3>1, MoveEnter
    <3>2. CASE Enter(MQTT, "alive", None, None, p, proplets[p]) /\ proplets[p] \in PropletRec
      BY <1>1, <3>2, MoveEnter
    <3> QED  BY <1>1, <1>2, <3>1, <3>2 DEF AliveMsg, TypeOK
  <2>2. TypeOK'
    BY <1>1, <1>2, <2>1 DEF AliveMsg, TypeOK, CallsOK
  <2> QED  BY <2>1, <2>2 DEF TypeInv
<1>3. ASSUME NEW p \in Proplets, DiscoveryMsg(p)
      PROVE  TypeInv'
  <2>1. CallsOK'
    <3>1. Enter(MQTT, "lookup", None, None, p, None)
      BY <1>3 DEF DiscoveryMsg
    <3> QED  BY <1>1, <3>1, MoveEnter
  <2>2. TypeOK'
    BY <1>1, <1>3, <2>1 DEF DiscoveryMsg, TypeOK, CallsOK
  <2> QED  BY <2>1, <2>2 DEF TypeInv
<1>4. ASSUME NEW r \in results, ResultMsg(r)
      PROVE  TypeInv'
  <2> DEFINE t == [tasks[r.task] EXCEPT !.state = r.state]
  <2>1. r.task \in Tasks /\ r.state \in States
    BY <1>1, <1>4, DispatchAssumption, Zenon DEF TypeOK, States
  <2>2. CallsOK'
    <3>1. CASE UNCHANGED call
      BY <1>1, <3>1 DEF CallsOK
    <3>2. CASE tasks[r.task] # None /\ Enter(MQTT, "result", r.task, t, None, None)
      <4>1. t \in TaskRec
        BY <1>1, <2>1, <3>2, CopyTypes DEF TypeOK
      <4>2. "result" \in Pcs /\ "result" \notin TargetPcs /\ "result" \notin CountPcs
        OBVIOUS
      <4> HIDE DEF t, Pcs, TaskPcs, CopyPcs, TargetPcs, CountPcs
      <4> QED  BY <1>1, <2>1, <3>2, <4>1, <4>2, MoveEnter, Zenon
    <3> QED  BY <1>4, <3>1, <3>2 DEF ResultMsg
  <2>3. TypeOK'
    BY <1>1, <1>4, <2>2 DEF ResultMsg, TypeOK, CallsOK
  <2> QED  BY <2>2, <2>3 DEF TypeInv
<1> QED  BY <1>2, <1>3, <1>4 DEF NewMsg

(* The steps of the MQTT handler preserve the types. *)
LEMMA TypeHandler ==
    ASSUME TypeInv, HandlerStep
    PROVE  TypeInv'
<1>1. MQTT \in Threads /\ TypeOK /\ CallsOK
  BY DEF Threads, TypeInv
<1>2. call[MQTT] \in Call /\ WellFormed(call[MQTT])
  BY <1>1, CallShape
<1> USE DEF Pcs, TaskPcs, CopyPcs, TargetPcs, CountPcs, StartPcs, StopPcs
<1>3. CASE AliveWrite
  <2>1. CallsOK'
    BY <1>1, <1>3, MoveReturn DEF AliveWrite
  <2>2. [call[MQTT].p EXCEPT !.fresh = TRUE] \in PropletRec
    BY <1>2, <1>3, CopyTypes, Zenon DEF AliveWrite, WellFormed
  <2>3. TypeOK'
    BY <1>1, <1>2, <1>3, <2>1, <2>2, PropletWrite, Zenon DEF AliveWrite, WellFormed, TypeOK, CallsOK
  <2> QED  BY <2>1, <2>3 DEF TypeInv
<1>4. CASE CreateLookup
  <2>1. call[MQTT].prop \in Proplets
    BY <1>2, <1>4 DEF CreateLookup, WellFormed
  <2>2. CallsOK'
    <3>1. CASE Enter(MQTT, "create", None, None, call[MQTT].prop, None)
      BY <1>1, <2>1, <3>1, MoveEnter
    <3>2. CASE /\ Enter(MQTT, "refresh", None, None, call[MQTT].prop, proplets[call[MQTT].prop])
               /\ proplets[call[MQTT].prop] \in PropletRec
      BY <1>1, <2>1, <3>2, MoveEnter
    <3> QED  BY <1>1, <1>4, <2>1, <3>1, <3>2 DEF CreateLookup, TypeOK
  <2>3. TypeOK'
    BY <1>1, <1>4, <2>2 DEF CreateLookup, TypeOK, CallsOK
  <2> QED  BY <2>2, <2>3 DEF TypeInv
<1>5. CASE CreateWrite
  <2>1. CallsOK'
    BY <1>1, <1>5, MoveReturn, Zenon DEF CreateWrite
  <2>2. [count |-> 0, fresh |-> FALSE] \in PropletRec
    BY Zenon DEF PropletRec
  <2>3. TypeOK'
    BY <1>1, <1>2, <1>5, <2>1, <2>2, PropletWrite, Zenon
       DEF CreateWrite, WellFormed, TypeOK, CallsOK
  <2> QED  BY <2>1, <2>3 DEF TypeInv
<1>6. CASE ResultWrite
  <2>1. CallsOK'
    BY <1>1, <1>6, MoveReturn, Zenon DEF ResultWrite
  <2>2. TypeOK'
    BY <1>1, <1>2, <1>6, <2>1, TaskWrite DEF ResultWrite, WellFormed, TypeOK, CallsOK
  <2> QED  BY <2>1, <2>2 DEF TypeInv
<1> QED  BY <1>3, <1>4, <1>5, <1>6 DEF HandlerStep

(* The proplets and the clock preserve the types. *)
LEMMA TypeEnvironment ==
    ASSUME TypeInv, Environment
    PROVE  TypeInv'
<1>1. TypeOK /\ CallsOK
  BY DEF TypeInv
<1>2. ASSUME NEW k \in Tasks, NEW p \in Proplets, NEW s \in Reports, PropletReports(k, p, s)
      PROVE  TypeInv'
  BY <1>1, <1>2 DEF PropletReports, TypeInv, TypeOK, CallsOK
<1>3. ASSUME NEW k \in Tasks, NEW p \in Proplets, PropletDrops(k, p)
      PROVE  TypeInv'
  BY <1>1, <1>3 DEF PropletDrops, TypeInv, TypeOK, CallsOK
<1>4. ASSUME NEW p \in Proplets, TimePasses(p)
      PROVE  TypeInv'
  <2>1. \A r \in PropletRec \cup {None} :
          /\ Stale(r) \in PropletRec \cup {None}
          /\ r \in PropletRec => Stale(r) \in PropletRec
    BY NoRecordAssumption, CopyTypes, Zenon DEF Stale
  <2>2. ASSUME NEW c \in Threads
        PROVE  call'[c] \in Call /\ WellFormed(call'[c])
    <3>1. call[c] \in Call /\ WellFormed(call[c])
      BY <1>1, CallShape
    <3>2. CASE call[c].prop = p
      <4>1. call'[c] = [call[c] EXCEPT !.p = Stale(call[c].p)]
        BY <1>4, <3>2 DEF TimePasses
      <4> QED  BY <2>1, <3>1, <4>1 DEF Call, WellFormed
    <3>3. CASE call[c].prop # p
      BY <1>4, <3>1, <3>3 DEF TimePasses
    <3> QED  BY <3>2, <3>3
  <2>3. CallsOK'
    BY <1>4, <2>2 DEF CallsOK, TimePasses
  <2>4. proplets' \in [Proplets -> PropletRec \cup {None}]
    BY <1>1, <1>4, <2>1 DEF TimePasses, TypeOK
  <2>5. TypeOK'
    BY <1>1, <1>4, <2>3, <2>4 DEF TimePasses, TypeOK, CallsOK
  <2> QED  BY <2>3, <2>5 DEF TypeInv
<1> QED  BY <1>2, <1>3, <1>4 DEF Environment

(* Every step preserves the types. *)
LEMMA TypeStep == TypeInv /\ [Next]_vars => TypeInv'
<1> SUFFICES ASSUME TypeInv, [Next]_vars PROVE TypeInv'
  OBVIOUS
<1>1. CASE UNCHANGED vars
  BY <1>1 DEF vars, TypeInv, TypeOK, CallsOK
<1>2. ASSUME NEW c \in Callers, NewCall(c) \/ CallStep(c)
      PROVE  TypeInv'
  BY <1>2, TypeNew, TypeStart, TypeStop, TypeEdit DEF CallStep
<1>3. CASE NewMsg \/ HandlerStep \/ Environment
  BY <1>3, TypeMessage, TypeHandler, TypeEnvironment
<1> QED  BY <1>1, <1>2, <1>3 DEF Next

(* The types and the shape of the calls hold throughout. *)
LEMMA TypeInvHolds == Spec => []TypeInv
BY TypeInit, TypeStep, PTL DEF Spec

(* Every variable keeps its type, for any backend, any broker and any number *)
(* of concurrent callers of the service; TaskCount never goes negative.      *)
THEOREM TypeInvariant == Spec => []TypeOK
<1>1. TypeInv => TypeOK
  BY DEF TypeInv
<1> QED  BY <1>1, TypeInvHolds, PTL
=============================================================================
