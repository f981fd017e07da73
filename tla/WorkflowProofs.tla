--------------------------- MODULE WorkflowProofs ---------------------------
(***************************************************************************)
(* For any workflow, any callers and any interleaving of their StartTask   *)
(* calls with the coordinator's: the manager keeps the promise of          *)
(* Precedence, and coordinator runs agree on what is skipped.              *)
(***************************************************************************)
EXTENDS Workflow, TLAPS

States == {"Pending", "Running", "Completed", "Failed", "Skipped", "Interrupted"}

StartPcs == {"get", "deps", "unmet", "pin", "persist", "publish", "fail", "mark"}

CheckPcs == {"list", "next"}

Frame ==
    [fn : {"StartTask", "Check"}, pc : StartPcs \cup CheckPcs, k : Tasks \cup {0}, copy : States,
     i : Nat, todo : Seq(Tasks \X BOOLEAN)]

Types ==
    /\ state \in [Tasks -> States]
    /\ pinned \subseteq Tasks
    /\ stack \in [Threads -> Seq(Frame)]
    /\ calls \in [ClientTasks -> Nat]
    /\ working \subseteq Tasks
    /\ results \subseteq Tasks \X {"Completed", "Failed"}
    /\ orders \in [Tasks -> Nat]
    /\ settled \subseteq Tasks
    /\ undone \subseteq Tasks

(* What a frame has seen.  Past the check of the dependencies they are all   *)
(* settled, and so are those of the tasks a coordinator run has listed; a    *)
(* copy of an outcome was read when the task had settled.                    *)
PastDeps == {"pin", "persist", "publish", "fail", "mark"}

Deps(k) == Range1(DependsOn[k])

FrameInv(f) ==
    /\ f.fn = "StartTask" =>
         /\ f.k \in Tasks /\ f.pc \in StartPcs
         /\ f.pc = "get" => f.i = 1
         /\ f.pc = "deps" => /\ f.i \in 1..Len(DependsOn[f.k])
                             /\ \A j \in 1..Len(DependsOn[f.k]) : j < f.i => DependsOn[f.k][j] \in settled
         /\ f.pc \in PastDeps => Deps(f.k) \subseteq settled
         /\ IsTerminal(f.copy) => f.k \in settled
    /\ f.fn = "Check" =>
         /\ f.pc \in CheckPcs
         /\ \A e \in Range1(f.todo) : Deps(e[1]) \subseteq settled

Frames(c) == Range1(stack[c])

FramesInv == \A c \in Threads : \A f \in Frames(c) : FrameInv(f)

(* What is stored, worked on or reported has its dependencies settled. *)
StoreInv ==
    /\ \A k \in Tasks : IsTerminal(state[k]) => k \in settled
    /\ \A k \in Tasks : state[k] # "Pending" => Deps(k) \subseteq settled
    /\ \A k \in working : Deps(k) \subseteq settled
    /\ \A r \in results : Deps(r[1]) \subseteq settled

Base == Types /\ FramesInv /\ StoreInv

(* The thread that pinned k and has not published its start command yet. *)
Holds(c, k) ==
    stack[c] # <<>> /\ Top(c).fn = "StartTask" /\ Top(c).k = k /\ Top(c).pc \in {"persist", "publish"}

(* Only the innermost call of a thread can be the holder: the others wait    *)
(* for the call they made.                                                   *)
Outer ==
    \A c \in Threads : stack[c] # <<>> =>
        \A f \in Range1(Tail(stack[c])) : f.pc \in {"unmet", "next"}

(* A pin has one holder, until the task is ordered. *)
PinInv ==
    /\ \A k \in Tasks : orders[k] = 0 \/ (orders[k] = 1 /\ k \in pinned)
    /\ \A k \in Tasks, c \in Threads : Holds(c, k) =>
         k \in pinned /\ orders[k] = 0 /\ \A d \in Threads : Holds(d, k) => d = c

(* Nobody asked for k by hand, and no outcome it depends on was overwritten. *)
Untouched(k) ==
    /\ k \in ClientTasks => calls[k] = 0
    /\ Deps(k) \cap undone = {}

(* The outcomes of what k depends on are there, and run_if says b. *)
Decided(k, b) ==
    /\ \A d \in Deps(k) : IsTerminal(state[d])
    /\ EvaluateConditionalExecution(k, state) = b

(* What a call does about k is what run_if says now. *)
FrameAgrees(f, k) ==
    /\ f.fn = "StartTask" /\ f.k = k => Decided(k, TRUE) /\ f.copy # "Skipped"
    /\ f.fn = "Check" => \A e \in Range1(f.todo) : e[1] = k => Decided(k, e[2])

(* So is what was done with it. *)
Agree(k) ==
    /\ state[k] = "Skipped" => Decided(k, FALSE)
    /\ orders[k] > 0 => Decided(k, TRUE)
    /\ \A c \in Threads : \A f \in Frames(c) : FrameAgrees(f, k)

Agreement == \A k \in Tasks : Untouched(k) => Agree(k)

-----------------------------------------------------------------------------
(* The parts of a stack that is not empty. *)
LEMMA StackParts ==
    ASSUME NEW S, NEW s \in Seq(S), s # <<>>
    PROVE  /\ Head(s) \in S /\ Tail(s) \in Seq(S)
           /\ Range1(s) = {Head(s)} \cup Range1(Tail(s))
<1>1. Head(s) \in S /\ Tail(s) \in Seq(S) /\ Len(s) \in Nat \ {0} /\ Len(Tail(s)) = Len(s) - 1
  OBVIOUS
<1>2. \A i \in 1..Len(Tail(s)) : Tail(s)[i] = s[i + 1]
  OBVIOUS
<1>3. \A i \in 1..Len(s) : s[i] = Head(s) \/ (i - 1 \in 1..Len(Tail(s)) /\ s[i] = Tail(s)[i - 1])
  BY <1>1, <1>2
<1>4. Range1(s) \subseteq {Head(s)} \cup Range1(Tail(s))
  BY <1>3 DEF Range1
<1>5. {Head(s)} \cup Range1(Tail(s)) \subseteq Range1(s)
  BY <1>1, <1>2 DEF Range1
<1> QED  BY <1>1, <1>4, <1>5

(* A stack with one more frame. *)
LEMMA StackCons ==
    ASSUME NEW S, NEW s \in Seq(S), NEW f \in S
    PROVE  /\ <<f>> \o s \in Seq(S) /\ <<f>> \o s # <<>>
           /\ Head(<<f>> \o s) = f /\ Tail(<<f>> \o s) = s
           /\ Range1(<<f>> \o s) = {f} \cup Range1(s)
<1>1. <<f>> \o s \in Seq(S) /\ <<f>> \o s # <<>> /\ Head(<<f>> \o s) = f
  OBVIOUS
<1>2. Tail(<<f>> \o s) = s
  OBVIOUS
<1>3. Range1(<<f>> \o s) = {f} \cup Range1(s)
  BY Zenon, <1>1, <1>2, StackParts
<1> QED  BY <1>1, <1>2, <1>3

(* Every element of the stack is a frame. *)
LEMMA StackRange ==
    ASSUME NEW S, NEW s \in Seq(S)
    PROVE  Range1(s) \subseteq S
BY DEF Range1

(* What the moves of a thread do to its stack. *)
LEMMA Moves ==
    ASSUME Types, NEW c \in Threads
    PROVE  /\ \A f \in Frame : SetTop(c, f) /\ stack[c] # <<>> =>
                /\ stack' \in [Threads -> Seq(Frame)] /\ stack'[c] # <<>>
                /\ Head(stack'[c]) = f /\ Tail(stack'[c]) = Tail(stack[c])
                /\ \A d \in Threads \ {c} : stack'[d] = stack[d]
           /\ \A f \in Frame : Push(c, f) =>
                /\ stack' \in [Threads -> Seq(Frame)] /\ stack'[c] # <<>>
                /\ Head(stack'[c]) = f /\ Tail(stack'[c]) = stack[c]
                /\ \A d \in Threads \ {c} : stack'[d] = stack[d]
           /\ \A f, g \in Frame : CallFrom(c, g, f) /\ stack[c] # <<>> =>
                /\ stack' \in [Threads -> Seq(Frame)] /\ stack'[c] # <<>>
                /\ Head(stack'[c]) = f /\ Tail(stack'[c]) = <<g>> \o Tail(stack[c])
                /\ \A d \in Threads \ {c} : stack'[d] = stack[d]
           /\ Return(c) /\ stack[c] # <<>> =>
                /\ stack' \in [Threads -> Seq(Frame)]
                /\ stack'[c] = Tail(stack[c])
                /\ \A d \in Threads \ {c} : stack'[d] = stack[d]
<1>1. stack \in [Threads -> Seq(Frame)] /\ stack[c] \in Seq(Frame)
  BY DEF Types
<1>2. ASSUME NEW f \in Frame, SetTop(c, f), stack[c] # <<>>
      PROVE  /\ stack' \in [Threads -> Seq(Frame)] /\ stack'[c] # <<>>
             /\ Head(stack'[c]) = f /\ Tail(stack'[c]) = Tail(stack[c])
             /\ \A d \in Threads \ {c} : stack'[d] = stack[d]
  <2>1. Tail(stack[c]) \in Seq(Frame)
    BY <1>1, <1>2, StackParts
  <2>2. /\ <<f>> \o Tail(stack[c]) \in Seq(Frame) /\ <<f>> \o Tail(stack[c]) # <<>>
        /\ Head(<<f>> \o Tail(stack[c])) = f /\ Tail(<<f>> \o Tail(stack[c])) = Tail(stack[c])
    BY <2>1, StackCons
  <2>3. stack' = [stack EXCEPT ![c] = <<f>> \o Tail(stack[c])]
    BY <1>2 DEF SetTop
  <2> QED  BY <1>1, <2>2, <2>3
<1>3. ASSUME NEW f \in Frame, Push(c, f)
      PROVE  /\ stack' \in [Threads -> Seq(Frame)] /\ stack'[c] # <<>>
             /\ Head(stack'[c]) = f /\ Tail(stack'[c]) = stack[c]
             /\ \A d \in Threads \ {c} : stack'[d] = stack[d]
  <2>2. /\ <<f>> \o stack[c] \in Seq(Frame) /\ <<f>> \o stack[c] # <<>>
        /\ Head(<<f>> \o stack[c]) = f /\ Tail(<<f>> \o stack[c]) = stack[c]
    BY <1>1, StackCons
  <2>3. stack' = [stack EXCEPT ![c] = <<f>> \o stack[c]]
    BY <1>3 DEF Push
  <2> QED  BY <1>1, <2>2, <2>3
<1>4. ASSUME NEW f \in Frame, NEW g \in Frame, CallFrom(c, g, f), stack[c] # <<>>
      PROVE  /\ stack' \in [Threads -> Seq(Frame)] /\ stack'[c] # <<>>
             /\ Head(stack'[c]) = f /\ Tail(stack'[c]) = <<g>> \o Tail(stack[c])
             /\ \A d \in Threads \ {c} : stack'[d] = stack[d]
  <2>1. Tail(stack[c]) \in Seq(Frame)
    BY <1>1, <1>4, StackParts
  <2>2. <<g>> \o Tail(stack[c]) \in Seq(Frame)
    BY <2>1, StackCons
  <2> DEFINE t == <<g>> \o Tail(stack[c])
  <2>4. stack' = [stack EXCEPT ![c] = <<f>> \o t]
    BY <1>4 DEF CallFrom
  <2>5. t \in Seq(Frame)
    BY <2>2
  <2> HIDE DEF t
  <2>6. /\ <<f>> \o t \in Seq(Frame) /\ <<f>> \o t # <<>>
        /\ Head(<<f>> \o t) = f /\ Tail(<<f>> \o t) = t
    BY <2>5, StackCons
  <2>7. /\ stack' \in [Threads -> Seq(Frame)] /\ stack'[c] # <<>>
        /\ Head(stack'[c]) = f /\ Tail(stack'[c]) = t
        /\ \A d \in Threads \ {c} : stack'[d] = stack[d]
    BY <1>1, <2>4, <2>6
  <2> QED  BY Zenon, <2>7 DEF t
<1>5. ASSUME Return(c), stack[c] # <<>>
      PROVE  /\ stack' \in [Threads -> Seq(Frame)]
             /\ stack'[c] = Tail(stack[c])
             /\ \A d \in Threads \ {c} : stack'[d] = stack[d]
  <2>1. Tail(stack[c]) \in Seq(Frame)
    BY <1>1, <1>5, StackParts
  <2> QED  BY <1>1, <1>5, <2>1 DEF Return
<1> QED  BY <1>2, <1>3, <1>4, <1>5

(* The frames there are after a move were there before, or are the new ones. *)
LEMMA NewFrames ==
    ASSUME Types, NEW c \in Threads
    PROVE  /\ \A f \in Frame : SetTop(c, f) /\ stack[c] # <<>> =>
                \A d \in Threads : Frames(d)' \subseteq Frames(d) \cup {f}
           /\ \A f \in Frame : Push(c, f) =>
                \A d \in Threads : Frames(d)' \subseteq Frames(d) \cup {f}
           /\ \A f, g \in Frame : CallFrom(c, g, f) /\ stack[c] # <<>> =>
                \A d \in Threads : Frames(d)' \subseteq Frames(d) \cup {f, g}
           /\ Return(c) /\ stack[c] # <<>> =>
                \A d \in Threads : Frames(d)' \subseteq Frames(d)
<1>1. \A d \in Threads : stack[d] \in Seq(Frame)
  BY DEF Types
<1>2. stack[c] # <<>> => /\ Frames(c) = {Top(c)} \cup Range1(Tail(stack[c]))
                         /\ Tail(stack[c]) \in Seq(Frame)
  BY <1>1, StackParts DEF Frames, Top
<1>3. ASSUME NEW f \in Frame, SetTop(c, f), stack[c] # <<>>
      PROVE  \A d \in Threads : Frames(d)' \subseteq Frames(d) \cup {f}
  <2>1. /\ stack'[c] \in Seq(Frame) /\ stack'[c] # <<>>
        /\ Head(stack'[c]) = f /\ Tail(stack'[c]) = Tail(stack[c])
        /\ \A d \in Threads \ {c} : stack'[d] = stack[d]
    BY <1>3, Moves
  <2>2. Range1(stack'[c]) = {f} \cup Range1(Tail(stack[c]))
    BY <2>1, StackParts
  <2> QED  BY <1>2, <1>3, <2>1, <2>2 DEF Frames
<1>4. ASSUME NEW f \in Frame, Push(c, f)
      PROVE  \A d \in Threads : Frames(d)' \subseteq Frames(d) \cup {f}
  <2>1. /\ stack'[c] \in Seq(Frame) /\ stack'[c] # <<>>
        /\ Head(stack'[c]) = f /\ Tail(stack'[c]) = stack[c]
        /\ \A d \in Threads \ {c} : stack'[d] = stack[d]
    BY <1>4, Moves
  <2>2. Range1(stack'[c]) = {f} \cup Range1(stack[c])
    BY <2>1, StackParts
  <2> QED  BY <2>1, <2>2 DEF Frames
<1>5. ASSUME NEW f \in Frame, NEW g \in Frame, CallFrom(c, g, f), stack[c] # <<>>
      PROVE  \A d \in Threads : Frames(d)' \subseteq Frames(d) \cup {f, g}
  <2>1. /\ stack'[c] \in Seq(Frame) /\ stack'[c] # <<>>
        /\ Head(stack'[c]) = f /\ Tail(stack'[c]) = <<g>> \o Tail(stack[c])
        /\ \A d \in Threads \ {c} : stack'[d] = stack[d]
    BY <1>5, Moves
  <2>2. Range1(stack'[c]) = {f} \cup Range1(<<g>> \o Tail(stack[c]))
    BY Zenon, <2>1, StackParts
  <2>3. Range1(<<g>> \o Tail(stack[c])) = {g} \cup Range1(Tail(stack[c]))
    BY Zenon, <1>2, <1>5, StackCons
  <2> QED  BY Zenon, <1>2, <1>5, <2>1, <2>2, <2>3 DEF Frames
<1>6. ASSUME Return(c), stack[c] # <<>>
      PROVE  \A d \in Threads : Frames(d)' \subseteq Frames(d)
  BY <1>2, <1>6, Moves DEF Frames
<1> QED  BY <1>3, <1>4, <1>5, <1>6

(* The frames that calls begin with. *)
LEMMA BeginFrames ==
    /\ \A k \in Tasks : StartFrame(k) \in Frame /\ FrameInv(StartFrame(k))
    /\ CheckFrame \in Frame /\ FrameInv(CheckFrame)
<1>1. \A k \in Tasks : StartFrame(k) \in Frame /\ FrameInv(StartFrame(k))
  BY DEF StartFrame, Frame, FrameInv, StartPcs, States, PastDeps, IsTerminal
<1>2. CheckFrame \in Frame /\ FrameInv(CheckFrame)
  BY DEF CheckFrame, Frame, FrameInv, CheckPcs, States, Range1
<1> QED  BY <1>1, <1>2

(* The innermost frame. *)
LEMMA TopFrame ==
    ASSUME Types, NEW c \in Threads, stack[c] # <<>>
    PROVE  Top(c) \in Frame /\ Top(c) \in Frames(c)
<1>1. stack[c] \in Seq(Frame)
  BY DEF Types
<1> QED  BY <1>1, StackParts DEF Top, Frames

(* A frame with a field changed. *)
LEMMA FrameFields ==
    ASSUME NEW f \in Frame
    PROVE  /\ \A l \in StartPcs \cup CheckPcs :
                /\ [f EXCEPT !.pc = l] \in Frame
                /\ [f EXCEPT !.pc = l].pc = l
                /\ [f EXCEPT !.pc = l].k = f.k /\ [f EXCEPT !.pc = l].fn = f.fn
                /\ [f EXCEPT !.pc = l].copy = f.copy /\ [f EXCEPT !.pc = l].todo = f.todo
           /\ f.k \in Tasks \cup {0} /\ f.todo \in Seq(Tasks \X BOOLEAN) /\ f.i \in Nat /\ f.copy \in States
BY DEF Frame

(* What a frame has seen stays so while more settles. *)
LEMMA FrameStays ==
    ASSUME settled \subseteq settled'
    PROVE  \A f : FrameInv(f) => FrameInv(f)'
BY DEF FrameInv

(* So do the frames of all threads under the four moves. *)
LEMMA FramesKept ==
    ASSUME Types, FramesInv, settled \subseteq settled', NEW c \in Threads
    PROVE  /\ \A f \in Frame : SetTop(c, f) /\ stack[c] # <<>> /\ FrameInv(f)' =>
                FramesInv' /\ stack' \in [Threads -> Seq(Frame)]
           /\ \A f \in Frame : Push(c, f) /\ FrameInv(f)' =>
                FramesInv' /\ stack' \in [Threads -> Seq(Frame)]
           /\ \A f, g \in Frame : CallFrom(c, g, f) /\ stack[c] # <<>> /\ FrameInv(f)' /\ FrameInv(g)' =>
                FramesInv' /\ stack' \in [Threads -> Seq(Frame)]
           /\ Return(c) /\ stack[c] # <<>> =>
                FramesInv' /\ stack' \in [Threads -> Seq(Frame)]
<1>1. ASSUME NEW f \in Frame, SetTop(c, f), stack[c] # <<>>, FrameInv(f)'
      PROVE  FramesInv' /\ stack' \in [Threads -> Seq(Frame)]
  <2>1. \A d \in Threads : Frames(d)' \subseteq Frames(d) \cup {f}
    BY <1>1, NewFrames
  <2>2. \A h \in {f} : FrameInv(h)'
    BY <1>1
  <2>3. FramesInv'
    BY <2>1, <2>2, FrameStays DEF FramesInv
  <2> QED  BY <1>1, <2>3, Moves
<1>2. ASSUME NEW f \in Frame, Push(c, f), FrameInv(f)'
      PROVE  FramesInv' /\ stack' \in [Threads -> Seq(Frame)]
  <2>1. \A d \in Threads : Frames(d)' \subseteq Frames(d) \cup {f}
    BY <1>2, NewFrames
  <2>2. \A h \in {f} : FrameInv(h)'
    BY <1>2
  <2>3. FramesInv'
    BY <2>1, <2>2, FrameStays DEF FramesInv
  <2> QED  BY <1>2, <2>3, Moves
<1>3. ASSUME NEW f \in Frame, NEW g \in Frame, CallFrom(c, g, f), stack[c] # <<>>,
             FrameInv(f)', FrameInv(g)'
      PROVE  FramesInv' /\ stack' \in [Threads -> Seq(Frame)]
  <2>1. \A d \in Threads : Frames(d)' \subseteq Frames(d) \cup {f, g}
    BY <1>3, NewFrames
  <2>2. \A h \in {f, g} : FrameInv(h)'
    BY <1>3
  <2>3. FramesInv'
    BY <2>1, <2>2, FrameStays DEF FramesInv
  <2> QED  BY Zenon, <1>3, <2>3, Moves
<1>4. ASSUME Return(c), stack[c] # <<>>
      PROVE  FramesInv' /\ stack' \in [Threads -> Seq(Frame)]
  <2>1. \A d \in Threads : Frames(d)' \subseteq Frames(d) \cup {}
    BY <1>4, NewFrames
  <2>2. \A h \in {} : FrameInv(h)'
    BY <1>4
  <2>3. FramesInv'
    BY <2>1, <2>2, FrameStays DEF FramesInv
  <2> QED  BY <1>4, <2>3, Moves
<1> QED  BY <1>1, <1>2, <1>3, <1>4

-----------------------------------------------------------------------------
(* A write of taskRepo. *)
LEMMA WriteFacts ==
    ASSUME Types, NEW k \in Tasks, NEW s \in States, Write(k, s)
    PROVE  /\ state' \in [Tasks -> States] /\ undone' \subseteq Tasks /\ undone \subseteq undone'
           /\ state'[k] = s /\ \A j \in Tasks \ {k} : state'[j] = state[j]
           /\ \A j \in Tasks : IsTerminal(state[j]) /\ j \notin undone' => state'[j] = state[j]
BY DEF Types, Write

(* The frame a Goto leaves. *)
LEMMA GotoFrame ==
    ASSUME Types, NEW c \in Threads, stack[c] # <<>>, NEW l \in StartPcs \cup CheckPcs, Goto(c, l)
    PROVE  \E f \in Frame : /\ SetTop(c, f)
                            /\ f.pc = l /\ f.fn = Top(c).fn /\ f.k = Top(c).k
                            /\ f.copy = Top(c).copy /\ f.todo = Top(c).todo
<1>1. Top(c) \in Frame
  BY TopFrame
<1>2. SetTop(c, [Top(c) EXCEPT !.pc = l])
  BY DEF Goto
<1> QED  BY Zenon, <1>1, <1>2, FrameFields

(* StartTask past its reads. *)
LEMMA GetFrame ==
    ASSUME Base, NEW c \in Threads, StartGet(c), ~ shuttingDown
    PROVE  \E f \in Frame : /\ SetTop(c, f) /\ FrameInv(f)
                            /\ f.fn = "StartTask" /\ f.k = Top(c).k /\ f.copy = state[f.k]
                            /\ f.pc \in {"pin", "deps"}
<1> DEFINE t == Top(c)
           l == IF DependsOn[t.k] = <<>> THEN "pin" ELSE "deps"
           f == [t EXCEPT !.copy = state[t.k], !.pc = l]
<1>1. t \in Frame /\ FrameInv(t) /\ t.fn = "StartTask" /\ t.pc = "get" /\ stack[c] # <<>>
  BY TopFrame DEF Base, StartGet, At, FramesInv
<1>2. SetTop(c, f)
  BY DEF StartGet
<1>3. t.k \in Tasks /\ t.i = 1
  BY <1>1 DEF FrameInv
<1>4. state[t.k] \in States /\ (IsTerminal(state[t.k]) => t.k \in settled)
  BY <1>3 DEF Base, Types, StoreInv
<1>5. f \in Frame /\ f.fn = "StartTask" /\ f.k = t.k /\ f.i = 1 /\ f.copy = state[t.k] /\ f.pc = l
  BY Zenon, <1>1, <1>3, <1>4 DEF Frame, StartPcs
<1>6. DependsOn[t.k] \in Seq(Tasks)
  BY Zenon, <1>3, WorkflowAssumption
<1>7. l = "pin" => Deps(t.k) \subseteq settled
  BY <1>6 DEF Deps, Range1
<1>8. l = "deps" => 1 \in 1..Len(DependsOn[t.k])
  BY <1>6
<1>9. l \in {"pin", "deps"}
  OBVIOUS
<1> HIDE DEF f, l
<1>10. FrameInv(f)
  BY <1>3, <1>4, <1>5, <1>7, <1>8, <1>9 DEF FrameInv, StartPcs, PastDeps
<1> QED  BY <1>2, <1>5, <1>9, <1>10

(* The check of one dependency. *)
LEMMA DepFrame ==
    ASSUME Base, NEW c \in Threads, StartDep(c)
    PROVE  \/ \E f \in Frame : /\ SetTop(c, f) /\ FrameInv(f)
                               /\ f.fn = "StartTask" /\ f.k = Top(c).k /\ f.copy = Top(c).copy
                               /\ f.pc \in {"pin", "deps"}
           \/ \E g \in Frame : /\ CallFrom(c, g, CheckFrame) /\ FrameInv(g)
                               /\ g.fn = "StartTask" /\ g.k = Top(c).k /\ g.copy = Top(c).copy
                               /\ g.pc = "unmet"
<1> DEFINE t == Top(c)
           D == DependsOn[t.k]
           l == IF t.i = Len(D) THEN "pin" ELSE "deps"
           f == [t EXCEPT !.i = t.i + 1, !.pc = l]
           g == [t EXCEPT !.pc = "unmet"]
<1>1. t \in Frame /\ FrameInv(t) /\ t.fn = "StartTask" /\ t.pc = "deps" /\ stack[c] # <<>>
  BY TopFrame DEF Base, StartDep, At, FramesInv
<1>2. t.k \in Tasks /\ t.i \in 1..Len(D) /\ \A j \in 1..Len(D) : j < t.i => D[j] \in settled
  BY <1>1 DEF FrameInv
<1>0. t.k \in Tasks
  BY <1>2
<1>3. D \in Seq(Tasks) /\ Len(D) \in Nat
  <2>1. D \in Seq(Tasks)
    BY ZenonT(30), <1>0, WorkflowAssumption
  <2> QED  BY <2>1
<1>4. IsTerminal(t.copy) => t.k \in settled
  BY <1>1 DEF FrameInv
<1>5. CASE state[D[t.i]] \in {"Completed", "Failed", "Skipped"}
  <2>1. SetTop(c, f)
    BY <1>5 DEF StartDep
  <2>0. l \in StartPcs /\ t.i + 1 \in Nat
    BY <1>2, <1>3 DEF StartPcs
  <2>2. f \in Frame /\ f.fn = "StartTask" /\ f.k = t.k /\ f.i = t.i + 1 /\ f.copy = t.copy /\ f.pc = l
    <3> HIDE DEF t, l
    <3> QED  BY ZenonT(30), <1>1, <2>0 DEF Frame
  <2>3. D[t.i] \in settled
    <3>1. D[t.i] \in Tasks
      BY <1>2, <1>3
    <3> QED  BY <1>5, <3>1 DEF Base, StoreInv, IsTerminal
  <2>4. \A j \in 1..Len(D) : j < t.i + 1 => D[j] \in settled
    BY <1>2, <1>3, <2>3
  <2>5. l = "pin" => Deps(t.k) \subseteq settled
    BY <1>2, <1>3, <2>4 DEF Deps, Range1
  <2>6. l = "deps" => t.i + 1 \in 1..Len(D)
    BY <1>2, <1>3
  <2>7. l \in {"pin", "deps"}
    OBVIOUS
  <2> HIDE DEF f, l
  <2>8. FrameInv(f)
    BY <1>2, <1>4, <2>2, <2>4, <2>5, <2>6, <2>7 DEF FrameInv, StartPcs, PastDeps
  <2> QED  BY <2>1, <2>2, <2>7, <2>8
<1>6. CASE state[D[t.i]] \notin {"Completed", "Failed", "Skipped"}
  <2>1. CallFrom(c, g, CheckFrame)
    BY <1>6 DEF StartDep
  <2>2. g \in Frame /\ g.fn = "StartTask" /\ g.k = t.k /\ g.copy = t.copy /\ g.pc = "unmet"
    BY <1>1 DEF Frame, StartPcs
  <2> HIDE DEF g
  <2>3. FrameInv(g)
    BY <1>2, <1>4, <2>2 DEF FrameInv, StartPcs, PastDeps
  <2> QED  BY <2>1, <2>2, <2>3
<1> QED  BY ZenonT(30), <1>5, <1>6

(* The listing of a coordinator run. *)
LEMMA ListFrame ==
    ASSUME Base, NEW c \in Threads, CheckList(c)
    PROVE  \E f \in Frame : /\ SetTop(c, f) /\ FrameInv(f) /\ f.fn = "Check" /\ f.pc = "next"
                            /\ \A e \in Range1(f.todo) : Decided(e[1], e[2])
<1> DEFINE t == Top(c)
           e(r, i) == <<r[i], EvaluateConditionalExecution(r[i], state)>>
           l(r) == [i \in 1..Len(r) |-> e(r, i)]
           f(r) == [t EXCEPT !.pc = "next", !.todo = l(r)]
<1>1. t \in Frame /\ t.fn = "Check" /\ stack[c] # <<>>
  BY TopFrame DEF Base, CheckList, At
<1>2. PICK r \in GetReadyTasks(state) : SetTop(c, f(r))
  BY Zenon DEF CheckList
<1>3. Ready(state) \subseteq Tasks /\ \A k \in Ready(state) : \A d \in Deps(k) : IsTerminal(state[d])
  BY DEF Ready, Deps
<1>4. PICK n \in 0..Cardinality(Tasks) : r \in [1..n -> Ready(state)]
  BY <1>2 DEF GetReadyTasks
<1>5. n \in Nat
  BY <1>4, WorkflowAssumption
<1>6. Len(r) \in Nat /\ \A i \in 1..Len(r) : r[i] \in Ready(state)
  BY <1>4, <1>5
<1>7. \A k \in Tasks : EvaluateConditionalExecution(k, state) \in BOOLEAN
  BY DEF EvaluateConditionalExecution
<1>8. \A i \in 1..Len(r) :
         /\ e(r, i) \in Tasks \X BOOLEAN /\ e(r, i)[1] \in Ready(state)
         /\ e(r, i)[2] = EvaluateConditionalExecution(e(r, i)[1], state)
  BY <1>3, <1>6, <1>7
<1> HIDE DEF e
<1>9. /\ l(r) \in Seq(Tasks \X BOOLEAN) /\ Len(l(r)) = Len(r)
      /\ \A i \in 1..Len(r) : l(r)[i] = e(r, i)
  BY <1>6, <1>8
<1> HIDE DEF l
<1>10. \A x \in Range1(l(r)) : /\ x[1] \in Ready(state)
                               /\ x[2] = EvaluateConditionalExecution(x[1], state)
  BY <1>8, <1>9 DEF Range1
<1>11. \A x \in Range1(l(r)) : Decided(x[1], x[2])
  BY <1>3, <1>10 DEF Decided
<1>12. \A x \in Range1(l(r)) : Deps(x[1]) \subseteq settled
  <2> SUFFICES ASSUME NEW x \in Range1(l(r)), NEW d \in Deps(x[1]) PROVE d \in settled
    OBVIOUS
  <2>1. x[1] \in Tasks /\ IsTerminal(state[d])
    BY <1>3, <1>10
  <2>2. DependsOn[x[1]] \in Seq(Tasks)
    BY Zenon, <2>1, WorkflowAssumption
  <2>3. d \in Tasks
    BY <2>2, StackRange DEF Deps
  <2> QED  BY <2>1, <2>3 DEF Base, StoreInv
<1>13. f(r) \in Frame /\ f(r).fn = "Check" /\ f(r).pc = "next" /\ f(r).todo = l(r)
  BY Zenon, <1>1, <1>9 DEF Frame, CheckPcs
<1> HIDE DEF f
<1>14. FrameInv(f(r))
  BY <1>12, <1>13 DEF FrameInv, CheckPcs
<1> QED  BY <1>2, <1>11, <1>13, <1>14

(* One task of the listing taken off. *)
LEMMA TodoFrame ==
    ASSUME Base, NEW c \in Threads, At(c, "Check", "next"), Top(c).todo # <<>>
    PROVE  LET f == [Top(c) EXCEPT !.todo = Tail(Top(c).todo)]
               h == Head(Top(c).todo) IN
           /\ f \in Frame /\ FrameInv(f) /\ f.fn = "Check" /\ f.pc = "next"
           /\ h[1] \in Tasks /\ h[2] \in BOOLEAN /\ Deps(h[1]) \subseteq settled
           /\ h \in Range1(Top(c).todo) /\ Range1(f.todo) \subseteq Range1(Top(c).todo)
<1> DEFINE t == Top(c)
           f == [t EXCEPT !.todo = Tail(t.todo)]
           h == Head(t.todo)
<1>1. t \in Frame /\ FrameInv(t) /\ t.fn = "Check" /\ t.pc = "next"
  BY TopFrame DEF Base, At, FramesInv
<1>2. t.todo \in Seq(Tasks \X BOOLEAN)
  BY <1>1 DEF Frame
<1>3. \A x \in Range1(t.todo) : Deps(x[1]) \subseteq settled
  BY <1>1 DEF FrameInv
<1> HIDE DEF t
<1>4. /\ h \in Tasks \X BOOLEAN /\ Tail(t.todo) \in Seq(Tasks \X BOOLEAN)
      /\ Range1(t.todo) = {h} \cup Range1(Tail(t.todo))
  BY <1>2, StackParts DEF t
<1>5. f \in Frame /\ f.fn = "Check" /\ f.pc = "next" /\ f.todo = Tail(t.todo)
  BY ZenonT(30), <1>1, <1>4 DEF Frame
<1> HIDE DEF f, h
<1>6. FrameInv(f)
  BY <1>3, <1>4, <1>5 DEF FrameInv, CheckPcs
<1>7. h[1] \in Tasks /\ h[2] \in BOOLEAN /\ Deps(h[1]) \subseteq settled
  BY <1>3, <1>4
<1>8. /\ f \in Frame /\ FrameInv(f) /\ f.fn = "Check" /\ f.pc = "next"
      /\ h \in Range1(t.todo) /\ Range1(f.todo) \subseteq Range1(t.todo)
  BY <1>4, <1>5, <1>6
<1> QED  BY <1>7, <1>8 DEF f, h, t

-----------------------------------------------------------------------------
(* A step that writes no task. *)
LEMMA BaseReads ==
    ASSUME Base, FramesInv', stack' \in [Threads -> Seq(Frame)], pinned' \subseteq Tasks,
           UNCHANGED <<state, calls, working, results, orders, settled, undone>>
    PROVE  Base'
<1>1. Types'
  BY DEF Base, Types
<1>2. StoreInv'
  BY DEF Base, StoreInv
<1> QED  BY <1>1, <1>2 DEF Base

(* A step that writes one. *)
LEMMA BaseWrites ==
    ASSUME Base, FramesInv', stack' \in [Threads -> Seq(Frame)],
           NEW k \in Tasks, NEW s \in States, Write(k, s),
           Deps(k) \subseteq settled, IsTerminal(s) => k \in settled',
           settled \subseteq settled', settled' \subseteq Tasks, results' \subseteq results,
           UNCHANGED <<pinned, calls, working, orders>>
    PROVE  Base'
<1>1. /\ state' \in [Tasks -> States] /\ undone' \subseteq Tasks
      /\ state'[k] = s /\ \A j \in Tasks \ {k} : state'[j] = state[j]
  BY WriteFacts DEF Base
<1>2. Types'
  BY <1>1 DEF Base, Types
<1>3. \A j \in Tasks : IsTerminal(state[j]) => j \in settled
  BY DEF Base, StoreInv
<1>4. \A j \in Tasks : state[j] # "Pending" => Deps(j) \subseteq settled
  BY DEF Base, StoreInv
<1>5. \A j \in Tasks : IsTerminal(state'[j]) => j \in settled'
  BY <1>1, <1>3
<1>6. \A j \in Tasks : state'[j] # "Pending" => Deps(j) \subseteq settled'
  BY <1>1, <1>4
<1>7. (\A j \in working' : Deps(j) \subseteq settled') /\ (\A r \in results' : Deps(r[1]) \subseteq settled')
  BY DEF Base, StoreInv
<1>8. StoreInv'
  BY ZenonT(30), <1>5, <1>6, <1>7 DEF StoreInv, Deps, IsTerminal
<1> QED  BY <1>2, <1>8 DEF Base

(* Every step of a thread keeps the invariant. *)
LEMMA StepBase ==
    ASSUME Base, NEW c \in Threads, Step(c)
    PROVE  Base'
<1> DEFINE t == Top(c)
<1>1. stack[c] # <<>>
  BY ZenonT(30) DEF Step, StartGet, StartDep, StartUnmet, StartPin, StartVetoed, StartPersist, StartPublish,
         StartLost, StartFail, StartMark, CheckList, CheckSkip, CheckStart, CheckDone, At
<1>2. t \in Frame /\ FrameInv(t) /\ Types /\ FramesInv /\ pinned \subseteq Tasks /\ settled \subseteq Tasks
  BY <1>1, TopFrame DEF Base, FramesInv, Types
<1>3. ASSUME Return(c), UNCHANGED <<state, pinned, calls, working, results, orders, settled, undone>>
      PROVE  Base'
  <2>1. FramesInv' /\ stack' \in [Threads -> Seq(Frame)]
    BY ZenonT(30), <1>1, <1>2, <1>3, FramesKept
  <2> QED  BY <1>2, <1>3, <2>1, BaseReads
<1>4. ASSUME NEW f \in Frame, SetTop(c, f), FrameInv(f), pinned' \subseteq Tasks,
             UNCHANGED <<state, calls, working, results, orders, settled, undone>>
      PROVE  Base'
  <2>1. FrameInv(f)'
    BY <1>4, FrameStays
  <2>2. FramesInv' /\ stack' \in [Threads -> Seq(Frame)]
    BY <1>1, <1>2, <1>4, <2>1, FramesKept
  <2> QED  BY <1>4, <2>2, BaseReads
<1>5. ASSUME NEW f \in Frame, NEW g \in Frame, CallFrom(c, g, f), FrameInv(f), FrameInv(g),
             UNCHANGED <<state, pinned, calls, working, results, orders, settled, undone>>
      PROVE  Base'
  <2>1. FrameInv(f)' /\ FrameInv(g)'
    BY <1>5, FrameStays
  <2>2. FramesInv' /\ stack' \in [Threads -> Seq(Frame)]
    BY ZenonT(30), <1>1, <1>2, <1>5, <2>1, FramesKept
  <2> QED  BY <1>2, <1>5, <2>2, BaseReads
<1>6. CASE StartGet(c)
  <2>1. CASE shuttingDown
    BY <1>3, <1>6, <2>1 DEF StartGet
  <2>2. CASE ~ shuttingDown
    BY ZenonT(30), <1>2, <1>4, <1>6, <2>2, GetFrame DEF StartGet
  <2> QED  BY <2>1, <2>2
<1>7. CASE StartDep(c)
  BY Zenon, <1>2, <1>4, <1>5, <1>7, DepFrame, BeginFrames DEF StartDep
<1>8. CASE StartUnmet(c)
  BY <1>3, <1>8 DEF StartUnmet
<1>9. CASE StartPin(c)
  <2>1. t.fn = "StartTask" /\ t.pc = "pin" /\ t.k \in Tasks
    BY ZenonT(30), <1>2, <1>9 DEF StartPin, At, FrameInv
  <2>2. CASE t.k \in pinned /\ ExclusivePins
    BY <1>3, <1>9, <2>2 DEF StartPin
  <2>3. CASE ~(t.k \in pinned /\ ExclusivePins)
    <3>1. pinned' = pinned \cup {t.k} /\ Goto(c, "persist")
      BY <1>9, <2>3 DEF StartPin
    <3>2. PICK f \in Frame : SetTop(c, f) /\ f.pc = "persist" /\ f.fn = t.fn /\ f.k = t.k /\ f.copy = t.copy
      BY <1>1, <1>2, <3>1, GotoFrame DEF StartPcs
    <3>3. FrameInv(f)
      BY ZenonT(30), <1>2, <2>1, <3>2 DEF FrameInv, StartPcs, PastDeps
    <3> QED  BY <1>2, <1>4, <1>9, <2>1, <3>1, <3>2, <3>3 DEF StartPin
  <2> QED  BY <2>2, <2>3
<1>10. CASE StartVetoed(c)
  BY <1>3, <1>10 DEF StartVetoed
<1>11. CASE StartPersist(c)
  <2>1. t.fn = "StartTask" /\ t.pc = "persist" /\ Goto(c, "publish") /\ Write(t.k, t.copy) /\ settled' = settled
    BY ZenonT(30), <1>11 DEF StartPersist, At
  <2>2. t.k \in Tasks /\ t.copy \in States /\ Deps(t.k) \subseteq settled /\ (IsTerminal(t.copy) => t.k \in settled)
    BY ZenonT(30), <1>2, <2>1 DEF Frame, FrameInv, PastDeps
  <2>3. PICK f \in Frame : SetTop(c, f) /\ f.pc = "publish" /\ f.fn = t.fn /\ f.k = t.k /\ f.copy = t.copy
    BY <1>1, <1>2, <2>1, GotoFrame DEF StartPcs
  <2>4. FrameInv(f)
    BY ZenonT(30), <2>1, <2>2, <2>3 DEF FrameInv, StartPcs, PastDeps
  <2>5. FrameInv(f)'
    BY <2>1, <2>4, FrameStays
  <2>6. FramesInv' /\ stack' \in [Threads -> Seq(Frame)]
    BY ZenonT(30), <1>1, <1>2, <2>1, <2>3, <2>5, FramesKept
  <2> QED  BY <1>2, <1>11, <2>1, <2>2, <2>6, BaseWrites DEF StartPersist
<1>12. CASE StartPublish(c)
  <2>1. t.fn = "StartTask" /\ t.pc = "publish" /\ Goto(c, "mark") /\ settled' = settled
    BY ZenonT(30), <1>12 DEF StartPublish, At
  <2>2. t.k \in Tasks /\ Deps(t.k) \subseteq settled /\ (IsTerminal(t.copy) => t.k \in settled)
    BY <1>2, <2>1 DEF FrameInv, PastDeps
  <2>3. PICK f \in Frame : SetTop(c, f) /\ f.pc = "mark" /\ f.fn = t.fn /\ f.k = t.k /\ f.copy = t.copy
    BY <1>1, <1>2, <2>1, GotoFrame DEF StartPcs
  <2>4. FrameInv(f)
    BY ZenonT(30), <2>1, <2>2, <2>3 DEF FrameInv, StartPcs, PastDeps
  <2>5. FrameInv(f)'
    BY <2>1, <2>4, FrameStays
  <2>6. FramesInv' /\ stack' \in [Threads -> Seq(Frame)]
    BY ZenonT(30), <1>1, <1>2, <2>1, <2>3, <2>5, FramesKept
  <2>7. Types'
    BY <1>12, <2>2, <2>6 DEF Base, Types, StartPublish
  <2>8. StoreInv'
    BY ZenonT(30), <1>12, <2>2 DEF Base, StoreInv, StartPublish
  <2> QED  BY <2>6, <2>7, <2>8 DEF Base
<1>13. CASE StartLost(c)
  <2>1. t.fn = "StartTask" /\ t.pc = "publish" /\ Goto(c, "fail")
    BY <1>13 DEF StartLost, At
  <2>2. t.k \in Tasks /\ Deps(t.k) \subseteq settled /\ (IsTerminal(t.copy) => t.k \in settled)
    BY ZenonT(30), <1>2, <2>1 DEF FrameInv, PastDeps
  <2>3. PICK f \in Frame : SetTop(c, f) /\ f.pc = "fail" /\ f.fn = t.fn /\ f.k = t.k /\ f.copy = t.copy
    BY SMTT(30), <1>1, <1>2, <2>1, GotoFrame DEF StartPcs
  <2>4. FrameInv(f)
    BY <2>1, <2>2, <2>3 DEF FrameInv, StartPcs, PastDeps
  <2> QED  BY <1>2, <1>4, <1>13, <2>3, <2>4 DEF StartLost
<1>14. CASE StartFail(c) \/ StartMark(c)
  <2>1. t.fn = "StartTask" /\ t.pc \in {"fail", "mark"} /\ Return(c) /\ settled \subseteq settled'
    BY <1>14 DEF StartFail, StartMark, At
  <2>2. t.k \in Tasks /\ Deps(t.k) \subseteq settled
    BY <1>2, <2>1 DEF FrameInv, PastDeps
  <2>3. FramesInv' /\ stack' \in [Threads -> Seq(Frame)]
    BY ZenonT(30), <1>1, <1>2, <2>1, FramesKept
  <2>4. CASE StartFail(c)
    BY <1>2, <2>1, <2>2, <2>3, <2>4, BaseWrites DEF StartFail, States
  <2>5. CASE StartMark(c)
    <3>1. ~ IsTerminal("Running")
      BY DEF IsTerminal
    <3> QED  BY <1>2, <2>1, <2>2, <2>3, <2>5, <3>1, BaseWrites DEF StartMark, States
  <2> QED  BY <1>14, <2>4, <2>5
<1>15. CASE CheckList(c)
  BY ZenonT(30), <1>2, <1>4, <1>15, ListFrame DEF CheckList
<1>16. CASE CheckSkip(c)
  <2> DEFINE g == [t EXCEPT !.todo = Tail(t.todo)]
             k == Head(t.todo)[1]
  <2>1. At(c, "Check", "next") /\ t.todo # <<>> /\ SetTop(c, g) /\ Write(k, "Skipped") /\ settled' = settled \cup {k}
    BY <1>16 DEF CheckSkip
  <2>2. g \in Frame /\ FrameInv(g) /\ k \in Tasks /\ Deps(k) \subseteq settled
    BY ZenonT(30), <2>1, TodoFrame
  <2> HIDE DEF g, k
  <2>5. PICK f \in Frame : SetTop(c, f) /\ FrameInv(f)
    BY <2>1, <2>2
  <2>3. FrameInv(f)'
    BY <2>1, <2>5, FrameStays
  <2>4. FramesInv' /\ stack' \in [Threads -> Seq(Frame)]
    BY ZenonT(30), <1>1, <1>2, <2>1, <2>3, <2>5, FramesKept
  <2> QED  BY <1>2, <1>16, <2>1, <2>2, <2>4, BaseWrites DEF CheckSkip, States
<1>17. CASE CheckStart(c)
  <2> DEFINE g == [t EXCEPT !.todo = Tail(t.todo)]
             k == Head(t.todo)[1]
  <2>1. At(c, "Check", "next") /\ t.todo # <<>> /\ CallFrom(c, g, StartFrame(k))
    BY <1>17 DEF CheckStart
  <2>2. g \in Frame /\ FrameInv(g) /\ k \in Tasks
    BY Zenon, <2>1, TodoFrame
  <2> HIDE DEF g, k
  <2>3. StartFrame(k) \in Frame /\ FrameInv(StartFrame(k))
    BY <2>2, BeginFrames
  <2> QED  BY <1>5, <1>17, <2>1, <2>2, <2>3 DEF CheckStart
<1>18. CASE CheckDone(c)
  BY <1>3, <1>18 DEF CheckDone
<1> QED  BY <1>6, <1>7, <1>8, <1>9, <1>10, <1>11, <1>12, <1>13, <1>14, <1>15, <1>16, <1>17, <1>18 DEF Step

-----------------------------------------------------------------------------
(* The invariant holds in the beginning. *)
LEMMA BaseInit == Init => Base
<1> SUFFICES ASSUME Init PROVE Base
  OBVIOUS
<1>1. \A c \in Threads : stack[c] = <<>>
  BY DEF Init
<1>2. FramesInv
  BY <1>1 DEF FramesInv, Frames, Range1
<1>3. Types
  BY DEF Init, Types, States
<1>4. StoreInv
  BY DEF Init, StoreInv, IsTerminal
<1> QED  BY <1>2, <1>3, <1>4 DEF Base

(* Every step keeps it. *)
LEMMA BaseNext == Base /\ [Next]_vars => Base'
<1> SUFFICES ASSUME Base, [Next]_vars PROVE Base'
  OBVIOUS
<1>0. Types /\ FramesInv /\ pinned \subseteq Tasks /\ settled \subseteq Tasks /\ stack \in [Threads -> Seq(Frame)]
  BY DEF Base, Types
<1>1. CASE UNCHANGED vars
  <2>1. FramesInv'
    BY <1>0, <1>1, FrameStays DEF FramesInv, Frames, vars
  <2> QED  BY <1>0, <1>1, <2>1, BaseReads DEF vars
<1>2. ASSUME NEW c \in Callers, NEW k \in ClientTasks, StartTask(c, k)
      PROVE  Base'
  <2>1. k \in Tasks /\ c \in Threads
    BY WorkflowAssumption DEF Threads
  <2>2. Push(c, StartFrame(k)) /\ settled' = settled /\ calls' = [calls EXCEPT ![k] = @ + 1]
    BY <1>2 DEF StartTask
  <2>3. PICK f \in Frame : Push(c, f) /\ FrameInv(f)
    BY <2>1, <2>2, BeginFrames
  <2>4. FrameInv(f)'
    BY <2>2, <2>3, FrameStays
  <2>5. FramesInv' /\ stack' \in [Threads -> Seq(Frame)]
    BY <1>0, <2>1, <2>2, <2>3, <2>4, FramesKept
  <2>6. calls' \in [ClientTasks -> Nat]
    BY <2>2 DEF Base, Types
  <2>7. Types'
    BY <1>2, <2>5, <2>6 DEF Base, Types, StartTask
  <2>8. StoreInv'
    BY <1>2 DEF Base, StoreInv, StartTask
  <2> QED  BY <2>5, <2>7, <2>8 DEF Base
<1>3. ASSUME NEW c \in Threads, Step(c)
      PROVE  Base'
  BY <1>3, StepBase
<1>4. CASE Shutdown
  <2>1. FramesInv'
    BY <1>0, <1>4, FrameStays DEF FramesInv, Frames, Shutdown
  <2> QED  BY <1>0, <1>4, <2>1, BaseReads DEF Shutdown
<1>5. ASSUME NEW k \in Tasks, Interrupt(k)
      PROVE  Base'
  <2>1. state[k] = "Running" /\ Write(k, "Interrupted") /\ settled' = settled \cup {k} /\ stack' = stack
    BY <1>5 DEF Interrupt
  <2>2. Deps(k) \subseteq settled
    BY <2>1 DEF Base, StoreInv
  <2>3. FramesInv'
    BY <1>0, <2>1, FrameStays DEF FramesInv, Frames
  <2> QED  BY <1>0, <1>5, <2>1, <2>2, <2>3, BaseWrites DEF Interrupt, States
<1>6. ASSUME NEW k \in Tasks, NEW s \in {"Completed", "Failed"}, PropletReports(k, s)
      PROVE  Base'
  <2>1. FramesInv'
    BY <1>0, <1>6, FrameStays DEF FramesInv, Frames, PropletReports
  <2>2. Types'
    BY <1>6 DEF Base, Types, PropletReports
  <2>3. \A r \in results' : Deps(r[1]) \subseteq settled
    BY <1>6 DEF Base, StoreInv, PropletReports
  <2>4. StoreInv'
    BY <1>6, <2>3 DEF Base, StoreInv, PropletReports
  <2> QED  BY <2>1, <2>2, <2>4 DEF Base
<1>7. ASSUME NEW k \in Tasks, NEW s \in {"Completed", "Failed"}, UpdateResultsHandler(k, s)
      PROVE  Base'
  <2>1. <<k, s>> \in results /\ Write(k, s) /\ settled' = settled \cup {k} /\ Push(MQTT, CheckFrame)
    BY <1>7 DEF UpdateResultsHandler
  <2>2. Deps(k) \subseteq settled
    BY <2>1 DEF Base, StoreInv
  <2>3. MQTT \in Threads
    BY DEF Threads
  <2>4. PICK f \in Frame : Push(MQTT, f) /\ FrameInv(f)
    BY <2>1, BeginFrames
  <2>5. FrameInv(f)'
    BY <2>1, <2>4, FrameStays
  <2>6. FramesInv' /\ stack' \in [Threads -> Seq(Frame)]
    BY <1>0, <2>1, <2>3, <2>4, <2>5, FramesKept
  <2> QED  BY Zenon, <1>0, <1>7, <2>1, <2>2, <2>6, BaseWrites DEF UpdateResultsHandler, States
<1> QED  BY <1>1, <1>2, <1>3, <1>4, <1>5, <1>6, <1>7 DEF Next

-----------------------------------------------------------------------------
(* Where a step leaves its thread. *)
LEMMA StepShape ==
    ASSUME Base, NEW c \in Threads, Step(c)
    PROVE  /\ stack[c] # <<>>
           /\ \/ Return(c)
              \/ \E f \in Frame :
                   /\ SetTop(c, f)
                   /\ f.pc \in {"persist", "publish"} => f.fn = "StartTask" /\ f.k = Top(c).k
                   /\ f.pc = "persist" => StartPin(c) /\ ~(Top(c).k \in pinned /\ ExclusivePins)
                   /\ f.pc = "publish" => StartPersist(c)
              \/ \E f, g \in Frame : /\ CallFrom(c, g, f) /\ g.pc \in {"unmet", "next"}
                                     /\ f.pc \in {"get", "list"}
<1> DEFINE t == Top(c)
           Set == \E f \in Frame :
                   /\ SetTop(c, f)
                   /\ f.pc \in {"persist", "publish"} => f.fn = "StartTask" /\ f.k = Top(c).k
                   /\ f.pc = "persist" => StartPin(c) /\ ~(Top(c).k \in pinned /\ ExclusivePins)
                   /\ f.pc = "publish" => StartPersist(c)
           Call == \E f, g \in Frame : /\ CallFrom(c, g, f) /\ g.pc \in {"unmet", "next"}
                                       /\ f.pc \in {"get", "list"}
<1> SUFFICES stack[c] # <<>> /\ (Return(c) \/ Set \/ Call)
  BY ZenonT(30)
<1>1. stack[c] # <<>>
  BY Zenon DEF Step, StartGet, StartDep, StartUnmet, StartPin, StartVetoed, StartPersist, StartPublish,
         StartLost, StartFail, StartMark, CheckList, CheckSkip, CheckStart, CheckDone, At
<1>2. Types /\ CheckFrame \in Frame /\ CheckFrame.pc = "list"
  BY BeginFrames DEF Base, CheckFrame
<1>3. CASE StartGet(c)
  <2>1. CASE shuttingDown
    BY <1>1, <1>3, <2>1 DEF StartGet
  <2>2. CASE ~ shuttingDown
    BY ZenonT(30), <1>1, <1>3, <2>2, GetFrame
  <2> QED  BY Zenon, <2>1, <2>2
<1>4. CASE StartDep(c)
  BY ZenonT(30), <1>1, <1>2, <1>4, DepFrame
<1>5. CASE StartUnmet(c) \/ StartVetoed(c) \/ StartFail(c) \/ StartMark(c) \/ CheckDone(c)
  BY ZenonT(30), <1>1, <1>5 DEF StartUnmet, StartVetoed, StartFail, StartMark, CheckDone
<1>6. CASE StartPin(c)
  <2>1. CASE t.k \in pinned /\ ExclusivePins
    BY ZenonT(30), <1>1, <1>6, <2>1 DEF StartPin
  <2>2. CASE ~(t.k \in pinned /\ ExclusivePins)
    <3>1. Goto(c, "persist") /\ t.fn = "StartTask"
      BY <1>6, <2>2 DEF StartPin, At
    <3>2. \E f \in Frame : SetTop(c, f) /\ f.pc = "persist" /\ f.fn = t.fn /\ f.k = t.k
      BY <1>1, <1>2, <3>1, GotoFrame DEF StartPcs
    <3> QED  BY ZenonT(30), <1>1, <1>6, <2>2, <3>1, <3>2
  <2> QED  BY ZenonT(30), <2>1, <2>2
<1>7. CASE StartPersist(c)
  <2>1. Goto(c, "publish") /\ t.fn = "StartTask"
    BY <1>7 DEF StartPersist, At
  <2>2. \E f \in Frame : SetTop(c, f) /\ f.pc = "publish" /\ f.fn = t.fn /\ f.k = t.k
    BY <1>1, <1>2, <2>1, GotoFrame DEF StartPcs
  <2> QED  BY <1>1, <1>7, <2>1, <2>2
<1>8. CASE StartPublish(c)
  <2>1. \E f \in Frame : SetTop(c, f) /\ f.pc = "mark"
    BY ZenonT(30), <1>1, <1>2, <1>8, GotoFrame DEF StartPcs, StartPublish
  <2> QED  BY <1>1, <2>1
<1>9. CASE StartLost(c)
  <2>1. \E f \in Frame : SetTop(c, f) /\ f.pc = "fail"
    BY SMTT(30), <1>1, <1>2, <1>9, GotoFrame DEF StartPcs, StartLost
  <2> QED  BY <1>1, <2>1
<1>10. CASE CheckList(c)
  BY <1>1, <1>10, ListFrame
<1>11. CASE CheckSkip(c)
  <2>1. \E f \in Frame : SetTop(c, f) /\ f.pc = "next"
    BY Zenon, <1>11, TodoFrame DEF CheckSkip
  <2> QED  BY <1>1, <2>1
<1>12. CASE CheckStart(c)
  <2> DEFINE g == [t EXCEPT !.todo = Tail(t.todo)]
             k == Head(t.todo)[1]
  <2>1. At(c, "Check", "next") /\ t.todo # <<>> /\ CallFrom(c, g, StartFrame(k))
    BY <1>12 DEF CheckStart
  <2>2. g \in Frame /\ g.pc = "next" /\ k \in Tasks
    BY SMTT(30), <2>1, TodoFrame
  <2> HIDE DEF g, k
  <2>3. StartFrame(k) \in Frame /\ StartFrame(k).pc = "get"
    BY <2>2, BeginFrames DEF StartFrame
  <2> QED  BY Zenon, <1>1, <2>1, <2>2, <2>3
<1> QED  BY ZenonT(30), <1>3, <1>4, <1>5, <1>6, <1>7, <1>8, <1>9, <1>10, <1>11, <1>12 DEF Step

(* The calls under the innermost one still wait, and the thread holds a pin  *)
(* after its step only if it took it or goes on holding it.                  *)
LEMMA StepOuter ==
    ASSUME Base, Outer, NEW c \in Threads, Step(c)
    PROVE  /\ Outer'
           /\ \A d \in Threads \ {c}, k \in Tasks : Holds(d, k)' <=> Holds(d, k)
           /\ \A k \in Tasks : Holds(c, k)' =>
                /\ k = Top(c).k
                /\ \/ StartPin(c) /\ ~(k \in pinned /\ ExclusivePins)
                   \/ StartPersist(c)
<1> DEFINE Still(d) == stack'[d] # <<>> => \A f \in Range1(Tail(stack'[d])) : f.pc \in {"unmet", "next"}
           Hold(k) == /\ k = Top(c).k
                      /\ \/ StartPin(c) /\ ~(k \in pinned /\ ExclusivePins)
                         \/ StartPersist(c)
<1>1. Types /\ stack[c] # <<>> /\ stack[c] \in Seq(Frame) /\ Tail(stack[c]) \in Seq(Frame)
  BY StepShape, StackParts DEF Base, Types
<1>2. \A f \in Range1(Tail(stack[c])) : f.pc \in {"unmet", "next"}
  BY <1>1 DEF Outer
<1>3. SUFFICES /\ \A d \in Threads \ {c} : stack'[d] = stack[d]
               /\ Still(c)
               /\ \A k \in Tasks : Holds(c, k)' => Hold(k)
  <2>1. Outer'
    <3> SUFFICES ASSUME NEW d \in Threads PROVE Still(d)
      BY SMTT(30) DEF Outer
    <3> QED  BY <1>3 DEF Outer
  <2>2. \A d \in Threads \ {c}, k \in Tasks : Holds(d, k)' <=> Holds(d, k)
    BY <1>3 DEF Holds, Top
  <2> QED  BY <1>3, <2>1, <2>2
<1>4. CASE Return(c)
  <2>1. stack'[c] = Tail(stack[c]) /\ \A d \in Threads \ {c} : stack'[d] = stack[d]
    BY <1>1, <1>4, Moves
  <2>2. Tail(stack[c]) # <<>> => /\ Head(Tail(stack[c])) \in Range1(Tail(stack[c]))
                                 /\ Range1(Tail(Tail(stack[c]))) \subseteq Range1(Tail(stack[c]))
    BY ZenonT(30), <1>1, StackParts
  <2>3. Still(c)
    BY <1>2, <2>1, <2>2
  <2>4. \A k \in Tasks : ~ Holds(c, k)'
    BY <1>2, <2>1, <2>2 DEF Holds, Top
  <2> QED  BY SMTT(30), <2>1, <2>3, <2>4
<1>5. ASSUME NEW f \in Frame, SetTop(c, f),
             f.pc \in {"persist", "publish"} => f.fn = "StartTask" /\ f.k = Top(c).k,
             f.pc = "persist" => StartPin(c) /\ ~(Top(c).k \in pinned /\ ExclusivePins),
             f.pc = "publish" => StartPersist(c)
      PROVE  /\ \A d \in Threads \ {c} : stack'[d] = stack[d]
             /\ Still(c)
             /\ \A k \in Tasks : Holds(c, k)' => Hold(k)
  <2>1. /\ Head(stack'[c]) = f /\ Tail(stack'[c]) = Tail(stack[c])
        /\ \A d \in Threads \ {c} : stack'[d] = stack[d]
    BY SMTT(30), <1>1, <1>5, Moves
  <2>2. Still(c)
    BY <1>2, <2>1
  <2>3. \A k \in Tasks : Holds(c, k)' => f.k = k /\ f.pc \in {"persist", "publish"}
    BY <2>1 DEF Holds, Top
  <2> QED  BY Zenon, <1>5, <2>1, <2>2, <2>3
<1>6. ASSUME NEW f \in Frame, NEW g \in Frame, CallFrom(c, g, f), g.pc \in {"unmet", "next"},
             f.pc \in {"get", "list"}
      PROVE  /\ \A d \in Threads \ {c} : stack'[d] = stack[d]
             /\ Still(c)
             /\ \A k \in Tasks : Holds(c, k)' => Hold(k)
  <2>1. /\ Head(stack'[c]) = f /\ Tail(stack'[c]) = <<g>> \o Tail(stack[c])
        /\ \A d \in Threads \ {c} : stack'[d] = stack[d]
    BY Zenon, <1>1, <1>6, Moves
  <2>2. Range1(<<g>> \o Tail(stack[c])) = {g} \cup Range1(Tail(stack[c]))
    BY Zenon, <1>1, StackCons
  <2>3. Still(c)
    BY Zenon, <1>2, <1>6, <2>1, <2>2
  <2>4. \A k \in Tasks : ~ Holds(c, k)'
    BY <1>6, <2>1 DEF Holds, Top
  <2> QED  BY <2>1, <2>3, <2>4
<1> QED  BY Zenon, <1>4, <1>5, <1>6, StepShape

(* What a step of a thread does to pins and orders. *)
LEMMA StepOrders ==
    ASSUME Base, NEW c \in Threads, Step(c)
    PROVE  \/ UNCHANGED <<pinned, orders>>
           \/ /\ StartPin(c) /\ Top(c).k \in Tasks /\ pinned' = pinned \cup {Top(c).k}
              /\ UNCHANGED orders
           \/ /\ StartPublish(c) /\ Holds(c, Top(c).k) /\ Top(c).k \in Tasks /\ Deps(Top(c).k) \subseteq settled
              /\ orders' = [orders EXCEPT ![Top(c).k] = @ + 1]
              /\ UNCHANGED <<pinned, settled>>
           \/ /\ StartLost(c) /\ Holds(c, Top(c).k) /\ Top(c).k \in Tasks
              /\ pinned' = pinned \ {Top(c).k}
              /\ UNCHANGED orders
<1>1. stack[c] # <<>>
  BY ZenonT(30), StepShape
<1>2. Top(c) \in Frame /\ FrameInv(Top(c))
  BY <1>1, TopFrame DEF Base, FramesInv
<1>3. CASE StartPin(c)
  BY ZenonT(30), <1>2, <1>3 DEF StartPin, At, FrameInv
<1>4. CASE StartPublish(c)
  BY Zenon, <1>2, <1>4 DEF StartPublish, At, FrameInv, Holds, PastDeps
<1>5. CASE StartLost(c)
  BY Zenon, <1>2, <1>5 DEF StartLost, At, FrameInv, Holds
<1>6. CASE ~(StartPin(c) \/ StartPublish(c) \/ StartLost(c))
  BY ZenonT(30), <1>6 DEF Step, StartGet, StartDep, StartUnmet, StartVetoed, StartPersist,
       StartFail, StartMark, CheckList, CheckSkip, CheckStart, CheckDone
<1> QED  BY ZenonT(30), <1>3, <1>4, <1>5, <1>6

(* A thread that holds a pin takes no other one. *)
LEMMA HolderSteps ==
    ASSUME NEW c \in Threads, NEW k
    PROVE  /\ StartPin(c) => ~ Holds(c, k)
           /\ StartPersist(c) => Holds(c, Top(c).k)
BY Zenon DEF StartPin, StartPersist, At, Holds

(* Exclusive pins have one holder, whatever a thread does. *)
LEMMA StepPins ==
    ASSUME ExclusivePins, Base, Outer, PinInv, NEW c \in Threads, Step(c)
    PROVE  PinInv'
<1> DEFINE t == Top(c)
<1>1. /\ \A d \in Threads \ {c}, k \in Tasks : Holds(d, k)' <=> Holds(d, k)
      /\ \A k \in Tasks : Holds(c, k)' =>
           k = t.k /\ ((StartPin(c) /\ k \notin pinned) \/ StartPersist(c))
  BY StepOuter
<1>2. /\ \A k \in Tasks : orders[k] = 0 \/ (orders[k] = 1 /\ k \in pinned)
      /\ \A k \in Tasks, d \in Threads : Holds(d, k) =>
           k \in pinned /\ orders[k] = 0 /\ \A e \in Threads : Holds(e, k) => e = d
      /\ orders \in [Tasks -> Nat]
  BY DEF PinInv, Base, Types
<1>3. StartPersist(c) => Holds(c, t.k)
  BY HolderSteps
<1>4. CASE UNCHANGED <<pinned, orders>> /\ ~ StartPin(c)
  <2>1. \A k \in Tasks, d \in Threads : Holds(d, k)' => Holds(d, k)
    BY <1>1, <1>3, <1>4
  <2> QED  BY <1>2, <1>4, <2>1 DEF PinInv
<1>5. CASE /\ StartPin(c) /\ t.k \in Tasks /\ pinned' = pinned \cup {t.k} /\ UNCHANGED orders
  <2>1. \A k \in Tasks, d \in Threads : Holds(d, k)' =>
           \/ d # c /\ Holds(d, k)
           \/ d = c /\ k = t.k /\ k \notin pinned
    BY Zenon, <1>1, <1>5 DEF StartPin, StartPersist, At
  <2>2. \A k \in Tasks, d \in Threads : Holds(d, k)' =>
           k \in pinned' /\ orders'[k] = 0 /\ \A e \in Threads : Holds(e, k)' => e = d
    BY <1>2, <1>5, <2>1
  <2> QED  BY <1>2, <1>5, <2>2 DEF PinInv
<1>6. CASE StartPin(c) /\ UNCHANGED <<pinned, orders>>
  <2>1. \A k \in Tasks, d \in Threads : Holds(d, k)' =>
           \/ d # c /\ Holds(d, k)
           \/ d = c /\ k = t.k /\ k \notin pinned
    BY <1>1, <1>6 DEF StartPin, StartPersist, At
  <2>2. t.k \in pinned
    BY <1>6 DEF StartPin
  <2>3. \A k \in Tasks, d \in Threads : Holds(d, k)' => Holds(d, k)
    BY <2>1, <2>2
  <2> QED  BY SMTT(30), <1>2, <1>6, <2>3 DEF PinInv
<1>7. CASE /\ StartPublish(c) /\ Holds(c, t.k) /\ t.k \in Tasks
           /\ orders' = [orders EXCEPT ![t.k] = @ + 1] /\ UNCHANGED pinned
  <2>1. ~ StartPin(c) /\ ~ StartPersist(c)
    BY <1>7 DEF StartPin, StartPersist, StartPublish, At
  <2>2. \A k \in Tasks, d \in Threads : Holds(d, k)' => d # c /\ Holds(d, k)
    BY <1>1, <2>1
  <2>3. \A k \in Tasks, d \in Threads : Holds(d, k)' => k # t.k
    BY <1>2, <1>7, <2>2
  <2>4. \A k \in Tasks : orders'[k] = IF k = t.k THEN 1 ELSE orders[k]
    BY <1>2, <1>7
  <2> QED  BY SMTT(30), <1>2, <1>7, <2>2, <2>3, <2>4 DEF PinInv
<1>8. CASE /\ StartLost(c) /\ Holds(c, t.k) /\ t.k \in Tasks
           /\ pinned' = pinned \ {t.k} /\ UNCHANGED orders
  <2>1. ~ StartPin(c) /\ ~ StartPersist(c)
    BY Zenon, <1>8 DEF StartPin, StartPersist, StartLost, At
  <2>2. \A k \in Tasks, d \in Threads : Holds(d, k)' => d # c /\ Holds(d, k)
    BY <1>1, <2>1
  <2>3. \A k \in Tasks, d \in Threads : Holds(d, k)' => k # t.k
    BY SMTT(30), <1>2, <1>8, <2>2
  <2> QED  BY <1>2, <1>8, <2>2, <2>3 DEF PinInv
<1> QED  BY <1>4, <1>5, <1>6, <1>7, <1>8, StepOrders

(* A thread that begins a call holds no pin. *)
LEMMA BeginOuter ==
    ASSUME Types, Outer, NEW c \in Threads, stack[c] = <<>>, NEW f \in Frame,
           f.pc \in {"get", "list"}, Push(c, f)
    PROVE  Outer' /\ \A d \in Threads, k \in Tasks : Holds(d, k)' => Holds(d, k)
<1>1. /\ Head(stack'[c]) = f /\ Tail(stack'[c]) = <<>>
      /\ \A d \in Threads \ {c} : stack'[d] = stack[d]
  BY Zenon, Moves
<1>2. Outer'
  <2> SUFFICES ASSUME NEW d \in Threads, stack'[d] # <<>>, NEW g \in Range1(Tail(stack'[d]))
               PROVE  g.pc \in {"unmet", "next"}
    BY DEF Outer
  <2>0. Range1(<<>>) = {}
    BY DEF Range1
  <2>1. CASE d = c
    BY Zenon, <1>1, <2>0, <2>1
  <2>2. CASE d # c
    BY <1>1, <2>2 DEF Outer
  <2> QED  BY <2>1, <2>2
<1>3. ASSUME NEW d \in Threads, NEW k \in Tasks, Holds(d, k)'
      PROVE  Holds(d, k)
  <2>1. d # c
    BY <1>1, <1>3 DEF Holds, Top
  <2> QED  BY <1>1, <1>3, <2>1 DEF Holds, Top
<1> QED  BY <1>2, <1>3

(* A step that leaves the stacks alone changes nothing here. *)
LEMMA StillOuter ==
    ASSUME Outer, UNCHANGED stack
    PROVE  Outer' /\ \A d \in Threads, k \in Tasks : Holds(d, k)' => Holds(d, k)
BY DEF Outer, Holds, Top

(* Every step that is not a thread's begins at most a call. *)
LEMMA OtherSteps ==
    ASSUME Base, Outer, [Next]_vars, ~ \E c \in Threads : Step(c)
    PROVE  /\ Outer' /\ \A d \in Threads, k \in Tasks : Holds(d, k)' => Holds(d, k)
           /\ UNCHANGED <<pinned, orders>>
<1>0. Types
  BY DEF Base
<1>1. CASE UNCHANGED vars
  BY <1>1, StillOuter DEF vars
<1>2. ASSUME NEW c \in Callers, NEW k \in ClientTasks, StartTask(c, k)
      PROVE  /\ Outer' /\ \A d \in Threads, j \in Tasks : Holds(d, j)' => Holds(d, j)
             /\ UNCHANGED <<pinned, orders>>
  <2>1. k \in Tasks /\ c \in Threads
    BY WorkflowAssumption DEF Threads
  <2>2. StartFrame(k) \in Frame /\ StartFrame(k).pc = "get"
    BY <2>1, BeginFrames DEF StartFrame
  <2>3. stack[c] = <<>> /\ Push(c, StartFrame(k)) /\ UNCHANGED <<pinned, orders>>
    BY <1>2 DEF StartTask
  <2> QED  BY Zenon, <1>0, <2>1, <2>2, <2>3, BeginOuter
<1>3. CASE Shutdown
  BY <1>3, StillOuter DEF Shutdown
<1>4. ASSUME NEW k \in Tasks, Interrupt(k)
      PROVE  /\ Outer' /\ \A d \in Threads, j \in Tasks : Holds(d, j)' => Holds(d, j)
             /\ UNCHANGED <<pinned, orders>>
  BY <1>4, StillOuter DEF Interrupt
<1>5. ASSUME NEW k \in Tasks, NEW s \in {"Completed", "Failed"}, PropletReports(k, s)
      PROVE  /\ Outer' /\ \A d \in Threads, j \in Tasks : Holds(d, j)' => Holds(d, j)
             /\ UNCHANGED <<pinned, orders>>
  BY <1>5, StillOuter DEF PropletReports
<1>6. ASSUME NEW k \in Tasks, NEW s \in {"Completed", "Failed"}, UpdateResultsHandler(k, s)
      PROVE  /\ Outer' /\ \A d \in Threads, j \in Tasks : Holds(d, j)' => Holds(d, j)
             /\ UNCHANGED <<pinned, orders>>
  <2>1. MQTT \in Threads /\ CheckFrame \in Frame /\ CheckFrame.pc = "list"
    BY BeginFrames DEF Threads, CheckFrame
  <2>2. stack[MQTT] = <<>> /\ Push(MQTT, CheckFrame) /\ UNCHANGED <<pinned, orders>>
    BY <1>6 DEF UpdateResultsHandler
  <2> QED  BY <1>0, <2>1, <2>2, BeginOuter
<1> QED  BY <1>1, <1>2, <1>3, <1>4, <1>5, <1>6 DEF Next

(* The invariant behind the precedence. *)
OrderInv == Base /\ Outer /\ PinInv

LEMMA OrderInit == Init => OrderInv
<1> SUFFICES ASSUME Init PROVE OrderInv
  OBVIOUS
<1>1. \A c \in Threads : stack[c] = <<>>
  BY DEF Init
<1>2. Outer /\ \A c \in Threads, k \in Tasks : ~ Holds(c, k)
  BY <1>1 DEF Outer, Holds
<1>3. PinInv
  BY <1>2 DEF PinInv, Init
<1> QED  BY <1>2, <1>3, BaseInit DEF OrderInv

(* Every step keeps it. *)
LEMMA OrderNext ==
    ASSUME ExclusivePins
    PROVE  OrderInv /\ [Next]_vars => OrderInv'
<1> SUFFICES ASSUME OrderInv, [Next]_vars PROVE OrderInv'
  OBVIOUS
<1>1. Base /\ Outer /\ PinInv /\ Base'
  BY BaseNext DEF OrderInv
<1>2. ASSUME NEW c \in Threads, Step(c) PROVE Outer' /\ PinInv'
  BY <1>1, <1>2, StepOuter, StepPins
<1>3. CASE ~ \E c \in Threads : Step(c)
  <2>1. /\ Outer' /\ \A d \in Threads, k \in Tasks : Holds(d, k)' => Holds(d, k)
        /\ UNCHANGED <<pinned, orders>>
    BY <1>1, <1>3, OtherSteps
  <2>2. PinInv'
    BY <1>1, <2>1 DEF PinInv
  <2> QED  BY <1>1, <2>1, <2>2 DEF OrderInv
<1> QED  BY <1>1, <1>2, <1>3 DEF OrderInv

-----------------------------------------------------------------------------
(* What a step of a thread settles. *)
LEMMA StepSettles ==
    ASSUME Base, NEW c \in Threads, Step(c), settled' # settled
    PROVE  UNCHANGED orders /\ \E k \in Tasks : Deps(k) \subseteq settled /\ settled' = settled \cup {k}
<1>1. StartFail(c) \/ CheckSkip(c)
  BY Zenon DEF Step, StartGet, StartDep, StartUnmet, StartPin, StartVetoed, StartPersist, StartPublish,
         StartLost, StartMark, CheckList, CheckStart, CheckDone
<1>2. stack[c] # <<>>
  BY StepShape
<1>3. Top(c) \in Frame /\ FrameInv(Top(c))
  BY <1>2, TopFrame DEF Base, FramesInv
<1>4. CASE StartFail(c)
  BY Zenon, <1>3, <1>4 DEF StartFail, At, FrameInv, PastDeps
<1>5. CASE CheckSkip(c)
  BY Zenon, <1>5, TodoFrame DEF CheckSkip
<1> QED  BY <1>1, <1>4, <1>5

(* Every step of the manager orders one task, settles one, or neither. *)
LEMMA StepRefines ==
    ASSUME OrderInv, [Next]_vars
    PROVE  [P!Next]_<<orders, settled>>
<1>0. Base /\ Outer /\ PinInv /\ orders \in [Tasks -> Nat]
  BY DEF OrderInv, Base, Types
<1>1. \A k : P!DepsOf(k) = Deps(k)
  BY DEF P!DepsOf, Deps, Range1
<1>2. ASSUME NEW k \in Tasks, Deps(k) \subseteq settled, settled' = settled \cup {k}, UNCHANGED orders
      PROVE  P!Next
  BY <1>1, <1>2 DEF P!Next, P!Settle
<1>3. ASSUME NEW c \in Threads, Step(c)
      PROVE  [P!Next]_<<orders, settled>>
  <2>1. CASE settled' # settled
    BY <1>0, <1>2, <1>3, <2>1, StepSettles
  <2>2. CASE settled' = settled /\ orders' # orders
    <3>1. /\ Holds(c, Top(c).k) /\ Top(c).k \in Tasks /\ Deps(Top(c).k) \subseteq settled
          /\ orders' = [orders EXCEPT ![Top(c).k] = @ + 1]
      BY <1>0, <1>3, <2>2, StepOrders
    <3>2. orders[Top(c).k] = 0
      BY <1>0, <3>1 DEF PinInv
    <3>3. P!Order(Top(c).k)
      BY <1>1, <2>2, <3>1, <3>2 DEF P!Order
    <3> QED  BY <3>1, <3>3 DEF P!Next
  <2> QED  BY <2>1, <2>2
<1>4. CASE ~ \E c \in Threads : Step(c)
  <2>1. UNCHANGED orders
    BY SMTT(30), <1>0, <1>4, OtherSteps
  <2>2. ASSUME NEW k \in Tasks, Interrupt(k)
        PROVE  P!Next
    BY <1>0, <1>2, <2>1, <2>2 DEF Interrupt, Base, StoreInv
  <2>3. ASSUME NEW k \in Tasks, NEW s, UpdateResultsHandler(k, s)
        PROVE  P!Next
    <3>1. <<k, s>> \in results /\ settled' = settled \cup {k}
      BY <2>3 DEF UpdateResultsHandler
    <3>2. Deps(k) \subseteq settled
      BY <1>0, <3>1 DEF Base, StoreInv
    <3> QED  BY SMTT(30), <1>2, <2>1, <3>1, <3>2
  <2> QED  BY Zenon, <1>4, <2>1, <2>2, <2>3 DEF Next, vars, StartTask, Shutdown, PropletReports
<1> QED  BY <1>3, <1>4

(* With pins that are exclusive (sqlite, postgres and the in-memory store),  *)
(* for any workflow, any callers and any interleaving of StartTask calls,    *)
(* coordinator runs, results and shutdown, the manager implements            *)
(* Precedence: a task is ordered at most once, and ordered or settled only   *)
(* after everything it depends on has settled.                               *)
THEOREM KeepsPrecedence ==
    ASSUME ExclusivePins
    PROVE  Spec => RefinesPrecedence
<1>1. Init => P!Init
  BY DEF Init, P!Init
<1>2. OrderInv /\ [Next]_vars => [P!Next]_<<orders, settled>>
  BY StepRefines
<1> QED  BY <1>1, <1>2, OrderInit, OrderNext, PTL DEF Spec, RefinesPrecedence, P!Spec

-----------------------------------------------------------------------------
(* A stored outcome stays, or its task is undone from then on; calls of      *)
(* clients are not forgotten.                                                *)
LEMMA OutcomesStay ==
    ASSUME Base, [Next]_vars
    PROVE  /\ undone \subseteq undone'
           /\ \A j \in Tasks : IsTerminal(state[j]) /\ j \notin undone' => state'[j] = state[j]
           /\ \A j \in ClientTasks : calls'[j] = 0 => calls[j] = 0
<1> DEFINE Goal == /\ undone \subseteq undone'
                   /\ \A j \in Tasks : IsTerminal(state[j]) /\ j \notin undone' => state'[j] = state[j]
                   /\ \A j \in ClientTasks : calls'[j] = 0 => calls[j] = 0
<1>0. Types
  BY DEF Base
<1>1. ASSUME UNCHANGED <<state, undone, calls>> PROVE Goal
  BY <1>1
<1>2. ASSUME NEW k \in Tasks, NEW s \in States, Write(k, s), UNCHANGED calls PROVE Goal
  BY <1>0, <1>2, WriteFacts
<1> HIDE DEF Goal
<1>3. ASSUME NEW c \in Callers, NEW k \in ClientTasks, StartTask(c, k) PROVE Goal
  BY <1>0, <1>3 DEF StartTask, Types, Goal
<1>4. ASSUME NEW c \in Threads, Step(c) PROVE Goal
  <2>1. stack[c] # <<>>
    BY <1>4, StepShape
  <2>2. Top(c) \in Frame /\ FrameInv(Top(c))
    BY <1>0, <2>1, TopFrame DEF Base, FramesInv
  <2>3. CASE StartPersist(c)
    <3>1. Top(c).k \in Tasks /\ Top(c).copy \in States
      BY Zenon, <2>2, <2>3 DEF StartPersist, At, FrameInv, Frame
    <3> QED  BY <1>2, <2>3, <3>1 DEF StartPersist
  <2>4. CASE StartFail(c) \/ StartMark(c)
    <3>1. Top(c).k \in Tasks /\ "Failed" \in States /\ "Running" \in States
      BY Zenon, <2>2, <2>4 DEF StartFail, StartMark, At, FrameInv, States
    <3> QED  BY <1>2, <2>4, <3>1 DEF StartFail, StartMark
  <2>5. CASE CheckSkip(c)
    <3>1. Head(Top(c).todo)[1] \in Tasks /\ "Skipped" \in States
      BY <2>5, TodoFrame DEF CheckSkip, States
    <3> QED  BY <1>2, <2>5, <3>1 DEF CheckSkip
  <2> QED  BY ZenonT(30), <1>1, <1>4, <2>3, <2>4, <2>5 DEF Step, StartGet, StartDep, StartUnmet, StartPin,
             StartVetoed, StartPublish, StartLost, CheckList, CheckStart, CheckDone
<1>5. ASSUME NEW k \in Tasks, Interrupt(k) PROVE Goal
  BY <1>2, <1>5 DEF Interrupt, States
<1>6. ASSUME NEW k \in Tasks, NEW s \in {"Completed", "Failed"}, UpdateResultsHandler(k, s) PROVE Goal
  BY <1>2, <1>6 DEF UpdateResultsHandler, States
<1>7. Goal
  BY <1>1, <1>3, <1>4, <1>5, <1>6 DEF Next, vars, Shutdown, PropletReports
<1> QED  BY <1>7 DEF Goal

(* What is decided of an untouched task stays decided. *)
LEMMA DecidedStays ==
    ASSUME Base, [Next]_vars, NEW k \in Tasks, Untouched(k)'
    PROVE  /\ Untouched(k)
           /\ \A b \in BOOLEAN : Decided(k, b) => Decided(k, b)'
<1>1. Deps(k) \cap undone' = {}
  BY DEF Untouched, Deps
<1>2. DependsOn[k] \in Seq(Tasks)
  BY WorkflowAssumption
<1>3. Deps(k) \subseteq Tasks
  BY <1>2, StackRange DEF Deps
<1>4. Untouched(k)
  BY <1>1, OutcomesStay DEF Untouched
<1>5. ASSUME NEW b \in BOOLEAN, Decided(k, b)
      PROVE  Decided(k, b)'
  <2>1. \A d \in Deps(k) : IsTerminal(state[d]) /\ state'[d] = state[d]
    BY <1>1, <1>3, <1>5, OutcomesStay DEF Decided
  <2>2. EvaluateConditionalExecution(k, state') <=> EvaluateConditionalExecution(k, state)
    BY <2>1 DEF EvaluateConditionalExecution, Deps
  <2>3. \A d \in Deps(k) : IsTerminal(state'[d])
    BY <2>1
  <2>4. EvaluateConditionalExecution(k, state) = b
    BY <1>5 DEF Decided
  <2>5. EvaluateConditionalExecution(k, state') = b
    BY Zenon, <2>2, <2>4 DEF EvaluateConditionalExecution
  <2> QED  BY <2>3, <2>5 DEF Decided, Deps
<1> QED  BY <1>4, <1>5

(* The frames a thread's step makes agree with what is decided. *)
LEMMA StepFrames ==
    ASSUME Base, NEW c \in Threads, Step(c), NEW k \in Tasks, Agree(k)
    PROVE  \A d \in Threads : \A f \in Frames(d)' : f \in Frames(d) \/ FrameAgrees(f, k)
<1> DEFINE t == Top(c)
           Goal == \A d \in Threads : \A f \in Frames(d)' : f \in Frames(d) \/ FrameAgrees(f, k)
<1> SUFFICES Goal
  OBVIOUS
<1>1. stack[c] # <<>> /\ Types
  BY SMTT(30), StepShape DEF Base
<1>2. t \in Frame /\ FrameAgrees(t, k)
  BY <1>1, TopFrame DEF Agree
<1>3. ASSUME Return(c) PROVE Goal
  BY ZenonT(30), <1>1, <1>3, NewFrames
<1>4. ASSUME NEW f \in Frame, SetTop(c, f), FrameAgrees(f, k) PROVE Goal
  BY ZenonT(30), <1>1, <1>4, NewFrames
<1>5. ASSUME NEW f \in Frame, NEW g \in Frame, CallFrom(c, g, f), FrameAgrees(f, k), FrameAgrees(g, k)
      PROVE  Goal
  <2>1. \A d \in Threads : Frames(d)' \subseteq Frames(d) \cup {f, g}
    BY Zenon, <1>1, <1>5, NewFrames
  <2> QED  BY Zenon, <1>5, <2>1
<1> HIDE DEF Goal
<1>6. FrameAgrees(CheckFrame, k) /\ CheckFrame \in Frame
  BY BeginFrames DEF FrameAgrees, CheckFrame, Range1
<1>7. \A f \in Frame : f.fn = t.fn /\ f.k = t.k /\ f.copy = t.copy /\ f.todo = t.todo => FrameAgrees(f, k)
  BY Zenon, <1>2 DEF FrameAgrees
<1>8. ASSUME NEW l \in StartPcs \cup CheckPcs, Goto(c, l) PROVE Goal
  BY Zenon, <1>1, <1>4, <1>7, <1>8, GotoFrame
<1>9. CASE StartGet(c)
  <2>1. CASE shuttingDown
    BY <1>3, <1>9, <2>1 DEF StartGet
  <2>2. CASE ~ shuttingDown
    <3>1. PICK f \in Frame : /\ SetTop(c, f) /\ f.fn = "StartTask" /\ f.k = t.k /\ f.copy = state[f.k]
      BY Zenon, <1>9, <2>2, GetFrame
    <3>2. t.fn = "StartTask"
      BY <1>9 DEF StartGet, At
    <3>3. f.k = k => Decided(k, TRUE)
      BY Zenon, <1>2, <3>1, <3>2 DEF FrameAgrees
    <3>4. f.k = k => f.copy # "Skipped"
      BY Zenon, <3>1, <3>3 DEF Agree, Decided
    <3>5. FrameAgrees(f, k)
      BY Zenon, <3>1, <3>3, <3>4 DEF FrameAgrees
    <3> QED  BY ZenonT(30), <1>4, <3>1, <3>5
  <2> QED  BY <2>1, <2>2
<1>10. CASE StartDep(c)
  <2>1. t.fn = "StartTask"
    BY <1>10 DEF StartDep, At
  <2>2. \A f \in Frame : f.fn = "StartTask" /\ f.k = t.k /\ f.copy = t.copy => FrameAgrees(f, k)
    BY Zenon, <1>2, <2>1 DEF FrameAgrees
  <2> QED  BY ZenonT(30), <1>4, <1>5, <1>6, <1>10, <2>2, DepFrame
<1>11. CASE StartUnmet(c) \/ StartVetoed(c) \/ StartFail(c) \/ StartMark(c) \/ CheckDone(c)
  BY Zenon, <1>3, <1>11 DEF StartUnmet, StartVetoed, StartFail, StartMark, CheckDone
<1>12. CASE StartPin(c)
  BY SMTT(30), <1>3, <1>8, <1>12 DEF StartPin, StartPcs
<1>13. CASE StartPersist(c) \/ StartPublish(c) \/ StartLost(c)
  BY <1>8, <1>13 DEF StartPersist, StartPublish, StartLost, StartPcs
<1>14. CASE CheckList(c)
  <2>1. PICK f \in Frame : /\ SetTop(c, f) /\ f.fn = "Check"
                           /\ \A e \in Range1(f.todo) : Decided(e[1], e[2])
    BY <1>14, ListFrame
  <2>2. FrameAgrees(f, k)
    BY <2>1 DEF FrameAgrees
  <2> QED  BY <1>4, <2>1, <2>2
<1>15. CASE CheckSkip(c) \/ CheckStart(c)
  <2> DEFINE g == [t EXCEPT !.todo = Tail(t.todo)]
             h == Head(t.todo)
  <2>1. At(c, "Check", "next") /\ t.todo # <<>>
    BY <1>15 DEF CheckSkip, CheckStart
  <2>2. /\ g \in Frame /\ g.fn = "Check" /\ h[1] \in Tasks /\ h[2] \in BOOLEAN
        /\ h \in Range1(t.todo) /\ Range1(g.todo) \subseteq Range1(t.todo)
    BY ZenonT(30), <2>1, TodoFrame
  <2>3. t.fn = "Check"
    BY <2>1 DEF At
  <2>4. CheckSkip(c) => SetTop(c, g)
    BY DEF CheckSkip
  <2>5. CheckStart(c) => h[2] /\ CallFrom(c, g, StartFrame(h[1]))
    BY DEF CheckStart
  <2> HIDE DEF g, h
  <2>6. FrameAgrees(g, k)
    BY <1>2, <2>2, <2>3 DEF FrameAgrees
  <2>7. h[1] = k => Decided(k, h[2])
    BY SMTT(30), <1>2, <2>2, <2>3 DEF FrameAgrees
  <2>8. CASE CheckSkip(c)
    BY SMTT(30), <1>4, <2>2, <2>4, <2>6, <2>8
  <2>9. CASE CheckStart(c)
    <3>1. h[2] = TRUE
      BY SMTT(30), <2>2, <2>5, <2>9
    <3>2. StartFrame(h[1]) \in Frame
      BY <2>2, BeginFrames
    <3>3. FrameAgrees(StartFrame(h[1]), k)
      BY ZenonT(30), <2>7, <3>1 DEF FrameAgrees, StartFrame
    <3> QED  BY SMTT(30), <1>5, <2>2, <2>5, <2>6, <2>9, <3>2, <3>3
  <2> QED  BY <1>15, <2>8, <2>9
<1> QED  BY <1>9, <1>10, <1>11, <1>12, <1>13, <1>14, <1>15 DEF Step

(* A thread's step orders or skips a task only as decided. *)
LEMMA StepDoes ==
    ASSUME Base, NEW c \in Threads, Step(c), NEW k \in Tasks, Agree(k)
    PROVE  /\ state'[k] = "Skipped" => Decided(k, FALSE)
           /\ orders'[k] > 0 => Decided(k, TRUE)
<1> DEFINE t == Top(c)
           Goal == (state'[k] = "Skipped" => Decided(k, FALSE)) /\ (orders'[k] > 0 => Decided(k, TRUE))
<1> SUFFICES Goal
  BY Zenon
<1>1. stack[c] # <<>> /\ Types
  BY StepShape DEF Base
<1>2. t \in Frame /\ FrameAgrees(t, k) /\ FrameInv(t)
  BY <1>1, TopFrame DEF Agree, Base, FramesInv
<1>3. (state[k] = "Skipped" => Decided(k, FALSE)) /\ (orders[k] > 0 => Decided(k, TRUE))
  BY Zenon DEF Agree
<1>4. ASSUME NEW j \in Tasks, NEW s \in States, Write(j, s), UNCHANGED orders,
             s = "Skipped" /\ j = k => Decided(k, FALSE)
      PROVE  Goal
  BY Zenon, <1>1, <1>3, <1>4, WriteFacts
<1>5. ASSUME UNCHANGED <<state, orders>> PROVE Goal
  BY ZenonT(30), <1>3, <1>5
<1>6. CASE StartPersist(c)
  <2>1. t.fn = "StartTask" /\ t.k \in Tasks /\ t.copy \in States
    BY Zenon, <1>2, <1>6 DEF StartPersist, At, FrameInv, Frame
  <2>2. t.k = k => t.copy # "Skipped"
    BY <1>2, <2>1 DEF FrameAgrees
  <2> QED  BY Zenon, <1>4, <1>6, <2>1, <2>2 DEF StartPersist
<1>7. CASE StartPublish(c)
  <2>1. t.fn = "StartTask" /\ t.k \in Tasks /\ state' = state /\ orders' = [orders EXCEPT ![t.k] = @ + 1]
    BY Zenon, <1>2, <1>7 DEF StartPublish, At, FrameInv
  <2>2. t.k = k => Decided(k, TRUE)
    BY ZenonT(30), <1>2, <2>1 DEF FrameAgrees
  <2>3. t.k # k => orders'[k] = orders[k]
    BY <1>1, <2>1 DEF Types
  <2> QED  BY Zenon, <1>3, <2>1, <2>2, <2>3
<1>8. CASE StartFail(c) \/ StartMark(c)
  <2>1. t.k \in Tasks /\ "Failed" \in States /\ "Running" \in States
    BY ZenonT(30), <1>2, <1>8 DEF StartFail, StartMark, At, FrameInv, States
  <2> QED  BY Zenon, <1>4, <1>8, <2>1 DEF StartFail, StartMark
<1>9. CASE CheckSkip(c)
  <2> DEFINE h == Head(t.todo)
  <2>1. At(c, "Check", "next") /\ t.todo # <<>> /\ ~h[2] /\ Write(h[1], "Skipped") /\ UNCHANGED orders
    BY <1>9 DEF CheckSkip
  <2>2. h[1] \in Tasks /\ h[2] \in BOOLEAN /\ h \in Range1(t.todo) /\ t.fn = "Check"
    BY Zenon, <2>1, TodoFrame DEF At
  <2> HIDE DEF h
  <2>3. h[2] = FALSE
    BY <2>1, <2>2
  <2>4. h[1] = k => Decided(k, FALSE)
    BY ZenonT(30), <1>2, <2>2, <2>3 DEF FrameAgrees
  <2> QED  BY Zenon, <1>4, <2>1, <2>2, <2>4 DEF States
<1> QED  BY Zenon, <1>5, <1>6, <1>7, <1>8, <1>9 DEF Step, StartGet, StartDep, StartUnmet, StartPin,
           StartVetoed, StartLost, CheckList, CheckStart, CheckDone

(* A step that is not a thread's orders and skips nothing, and begins no     *)
(* call about a task nobody asked for.                                       *)
LEMMA OthersAgree ==
    ASSUME Base, [Next]_vars, ~ \E c \in Threads : Step(c), NEW k \in Tasks, Agree(k), Untouched(k)'
    PROVE  /\ \A d \in Threads : \A f \in Frames(d)' : f \in Frames(d) \/ FrameAgrees(f, k)
           /\ state'[k] = "Skipped" => Decided(k, FALSE)
           /\ orders'[k] > 0 => Decided(k, TRUE)
<1> DEFINE Made == \A d \in Threads : \A f \in Frames(d)' : f \in Frames(d) \/ FrameAgrees(f, k)
           Done == (state'[k] = "Skipped" => Decided(k, FALSE)) /\ (orders'[k] > 0 => Decided(k, TRUE))
<1> SUFFICES Made /\ Done
  BY Zenon
<1>1. Types
  BY DEF Base
<1>2. (state[k] = "Skipped" => Decided(k, FALSE)) /\ (orders[k] > 0 => Decided(k, TRUE))
  BY Zenon DEF Agree
<1>3. UNCHANGED stack => Made
  BY DEF Frames
<1>4. ASSUME NEW c \in Threads, NEW f \in Frame, Push(c, f), FrameAgrees(f, k) PROVE Made
  BY ZenonT(30), <1>1, <1>4, NewFrames
<1>5. UNCHANGED <<state, orders>> => Done
  BY Zenon, <1>2
<1>6. ASSUME NEW j \in Tasks, NEW s \in States, s # "Skipped", Write(j, s), UNCHANGED orders PROVE Done
  BY ZenonT(30), <1>1, <1>2, <1>6, WriteFacts
<1> HIDE DEF Made, Done
<1>7. ASSUME NEW c \in Callers, NEW j \in ClientTasks, StartTask(c, j) PROVE Made /\ Done
  <2>1. j \in Tasks /\ c \in Threads
    BY WorkflowAssumption DEF Threads
  <2>2. Push(c, StartFrame(j)) /\ calls' = [calls EXCEPT ![j] = @ + 1] /\ UNCHANGED <<state, orders>>
    BY <1>7 DEF StartTask
  <2>3. calls'[j] > 0
    BY <1>1, <2>2 DEF Types
  <2>4. j # k
    BY <2>3 DEF Untouched
  <2>5. FrameAgrees(StartFrame(j), k) /\ StartFrame(j) \in Frame
    BY Zenon, <2>1, <2>4, BeginFrames DEF FrameAgrees, StartFrame
  <2> QED  BY <1>4, <1>5, <2>1, <2>2, <2>5
<1>8. ASSUME NEW j \in Tasks, Interrupt(j) PROVE Made /\ Done
  BY <1>3, <1>6, <1>8 DEF Interrupt, States
<1>9. ASSUME NEW j \in Tasks, NEW s \in {"Completed", "Failed"}, UpdateResultsHandler(j, s)
      PROVE  Made /\ Done
  <2>1. MQTT \in Threads /\ CheckFrame \in Frame
    BY SMTT(30), BeginFrames DEF Threads
  <2>2. FrameAgrees(CheckFrame, k)
    BY SMTT(30) DEF FrameAgrees, CheckFrame, Range1
  <2>3. Push(MQTT, CheckFrame) /\ Write(j, s) /\ UNCHANGED orders /\ s \in States /\ s # "Skipped"
    BY <1>9 DEF UpdateResultsHandler, States
  <2> QED  BY <1>4, <1>6, <2>1, <2>2, <2>3
<1> QED  BY <1>3, <1>5, <1>7, <1>8, <1>9 DEF Next, vars, Shutdown, PropletReports

(* Every step keeps the agreement. *)
LEMMA AgreementNext == Base /\ Agreement /\ [Next]_vars => Agreement'
<1> SUFFICES ASSUME Base, Agreement, [Next]_vars, NEW k \in Tasks, Untouched(k)'
             PROVE  Agree(k)'
  BY DEF Agreement
<1>1. Untouched(k) /\ \A b \in BOOLEAN : Decided(k, b) => Decided(k, b)'
  BY DecidedStays
<1>2. Agree(k)
  BY <1>1 DEF Agreement
<1>3. /\ \A d \in Threads : \A f \in Frames(d)' : f \in Frames(d) \/ FrameAgrees(f, k)
      /\ state'[k] = "Skipped" => Decided(k, FALSE)
      /\ orders'[k] > 0 => Decided(k, TRUE)
  BY Zenon, <1>2, StepFrames, StepDoes, OthersAgree
<1>4. \A d \in Threads : \A f \in Frames(d)' : FrameAgrees(f, k)
  BY <1>2, <1>3 DEF Agree
<1>5. Base'
  BY BaseNext
<1>6. ASSUME NEW d \in Threads, NEW f \in Frames(d)'
      PROVE  FrameAgrees(f, k)'
  <2>1. FrameAgrees(f, k)
    BY <1>4, <1>6
  <2>2. stack'[d] \in Seq(Frame)
    BY <1>5 DEF Base, Types
  <2>3. f \in Frame
    BY <1>6, <2>2, StackRange DEF Frames
  <2>4. f.todo \in Seq(Tasks \X BOOLEAN)
    BY <2>3, FrameFields
  <2>5. \A e \in Range1(f.todo) : e[2] \in BOOLEAN
    BY <2>4, StackRange
  <2> QED  BY Zenon, <1>1, <2>1, <2>5 DEF FrameAgrees
<1> QED  BY Zenon, <1>1, <1>3, <1>6 DEF Agree

(* For any workflow, any callers and any backend: a task the coordinator     *)
(* skipped was never ordered, as long as nobody started it by hand and no    *)
(* outcome it depends on was overwritten.  So two runs of                    *)
(* CheckAndStartReadyTasks that list the workflow at different times cannot  *)
(* disagree about run_if.                                                    *)
THEOREM RunsAgree == Spec => []SkippedNotOrdered
<1>1. Init => Agreement
  <2> SUFFICES ASSUME Init, NEW k \in Tasks PROVE Agree(k)
    BY DEF Agreement
  <2>1. \A c \in Threads : Frames(c) = {}
    BY DEF Init, Frames, Range1
  <2> QED  BY <2>1 DEF Init, Agree
<1>2. Base /\ Agreement => SkippedNotOrdered
  <2> SUFFICES ASSUME Base, Agreement, NEW k \in Tasks, state[k] = "Skipped", Untouched(k)
               PROVE  orders[k] = 0
    BY DEF SkippedNotOrdered, Untouched, Deps
  <2>1. Decided(k, FALSE) /\ (orders[k] > 0 => Decided(k, TRUE)) /\ orders[k] \in Nat
    BY Zenon DEF Agreement, Agree, Base, Types
  <2>2. ~(Decided(k, FALSE) /\ Decided(k, TRUE))
    BY DEF Decided
  <2>3. ~(orders[k] > 0)
    BY <2>1, <2>2, Zenon
  <2> QED  BY <2>1, <2>3
<1> QED  BY <1>1, <1>2, BaseInit, BaseNext, AgreementNext, PTL DEF Spec
=============================================================================
