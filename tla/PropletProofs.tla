--------------------------- MODULE PropletProofs ----------------------------
(***************************************************************************)
(* The proplet's tables describe what it executes, for any tasks and any   *)
(* number of commands.  ExecutionsTracked is not inductive: that a         *)
(* component keeps its entry needs to know who may remove the entry of a   *)
(* latent task (OneClaim), which needs that a stop finds no handle of its  *)
(* own (HandlesPlaced); that starts overlap only after a stop needs how a  *)
(* start in progress can lose its entry (EntryLost).                       *)
(***************************************************************************)
EXTENDS Proplet, TLAPS

(* What a command is: its type, and the places its tokio task can be at.     *)
Pcs == {"received", "fetch", "precompile", "launch", "register", "await", "unregister", "answer",
        "free", "reply", "abort", "release", "done"}

Guests == {"none", "live", "ended", "sent", "aborted"}

Command ==
    [kind : {"start", "stop", "invoke"}, task : Tasks, pc : Pcs, guest : Guests,
     abort : BOOLEAN, latent : BOOLEAN, answers : Nat]

CommandsOK == cmd \in Seq(Command) /\ Len(cmd) <= MaxCommands /\ handles \in [Keys -> Nat]

(* Which kinds of commands and of tasks reach which program counter.         *)
PlacesOK ==
    \A r \in DOMAIN cmd :
        /\ cmd[r].pc \in {"fetch", "precompile", "answer", "free"} => cmd[r].kind = "start"
        /\ cmd[r].pc \in {"abort", "release"} => cmd[r].kind = "stop"
        /\ cmd[r].pc = "precompile" => Task(r) \in Latent
        /\ cmd[r].pc \in {"launch", "register", "await", "unregister"} =>
              cmd[r].kind = "invoke" \/ (cmd[r].kind = "start" /\ Task(r) \notin Latent)
        /\ cmd[r].pc \in {"answer", "free"} => Task(r) \notin Latent

(* A handle is where its command registers it; a latent task has none of its *)
(* own, so a stop finds only the component and the invocations.              *)
HandlesPlaced ==
    \A k \in Keys : handles[k] # 0 =>
        /\ handles[k] \in DOMAIN cmd /\ k = Key(handles[k])
        /\ cmd[handles[k]].kind = "invoke" \/ Task(handles[k]) \notin Latent

(* Command r is deploying its latent task, or has taken the component away.  *)
Claims(r) ==
    /\ Task(r) \in Latent
    /\ \/ cmd[r].pc \in {"fetch", "precompile"}
       \/ cmd[r].pc \in {"abort", "release"} /\ cmd[r].latent

(* The entry of a latent task belongs to one of: the cached component, the   *)
(* start that deploys it, the stop that took it away.                        *)
OneClaim ==
    /\ precompiled \subseteq Latent \cap running
    /\ \A r \in DOMAIN cmd :
          /\ Claims(r) => Task(r) \in running /\ Task(r) \notin precompiled
          /\ Task(r) \in Latent /\ cmd[r].pc = "release" => cmd[r].latent
    /\ \A r, q \in DOMAIN cmd : Claims(r) /\ Claims(q) /\ Task(r) = Task(q) => r = q

(* A start in progress loses its entry only to a stop, directly or through   *)
(* another start that the stop let in.                                       *)
EntryLost == \A r \in DOMAIN cmd : Occupies(r) /\ Task(r) \notin running => Stopped(Task(r))

IInv ==
    /\ CommandsOK /\ PlacesOK /\ HandlesPlaced /\ OneClaim
    /\ EntriesOwned /\ HandlesOwned /\ EntryLost /\ OneStart

(* Besides command r, which is now at pc x, no command has changed anything  *)
(* the invariant speaks of.                                                  *)
Moved(r, x) ==
    /\ cmd' \in Seq(Command) /\ Len(cmd') <= MaxCommands
    /\ DOMAIN cmd' = DOMAIN cmd
    /\ cmd'[r].pc = x
    /\ \A q \in DOMAIN cmd :
          /\ cmd'[q].kind = cmd[q].kind /\ cmd'[q].task = cmd[q].task
          /\ q # r => cmd'[q].pc = cmd[q].pc /\ cmd'[q].latent = cmd[q].latent

(* A command's own latent flag, which only StopLatent sets. *)
Kept(r) == cmd'[r].latent = cmd[r].latent

-----------------------------------------------------------------------------
(* A command whose fields are updated within their types is still a command, *)
(* and the others are as they were.                                          *)
LEMMA Updated ==
    ASSUME CommandsOK, NEW r \in DOMAIN cmd, NEW c \in Command,
           cmd' = [cmd EXCEPT ![r] = c], c.kind = cmd[r].kind, c.task = cmd[r].task
    PROVE  Moved(r, c.pc) /\ cmd'[r] = c
<1>1. DOMAIN cmd = 1..Len(cmd) /\ Len(cmd) \in Nat  BY DEF CommandsOK
<1>2. cmd' \in Seq(Command) /\ Len(cmd') = Len(cmd)  BY <1>1 DEF CommandsOK
<1> QED  BY <1>1, <1>2 DEF CommandsOK, Moved

(* A step of one command and its guest leaves the other commands alone.      *)
LEMMA OneMoves ==
    ASSUME CommandsOK, NEW r \in DOMAIN cmd, NEW x \in Pcs, NEW g \in Guests, NEW n \in Nat,
           cmd' = [cmd EXCEPT ![r] = [cmd[r] EXCEPT !.pc = x, !.guest = g, !.answers = n]]
    PROVE  Moved(r, x) /\ Kept(r)
<1> DEFINE c == [cmd[r] EXCEPT !.pc = x, !.guest = g, !.answers = n]
<1>1. cmd[r] \in Command  BY DEF CommandsOK
<1>2. c \in Command /\ c.pc = x /\ c.kind = cmd[r].kind /\ c.task = cmd[r].task
      /\ c.latent = cmd[r].latent
  BY Zenon, <1>1 DEF Command
<1> HIDE DEF c
<1>3. cmd' = [cmd EXCEPT ![r] = c]  BY DEF c
<1> QED  BY Zenon, <1>2, <1>3, Updated DEF Kept

(* Goto changes only a program counter. *)
LEMMA GotoMoves ==
    ASSUME CommandsOK, NEW r \in DOMAIN cmd, NEW x \in Pcs, Goto(r, x)
    PROVE  Moved(r, x) /\ Kept(r)
<1>1. cmd[r] \in Command  BY DEF CommandsOK
<1>2. cmd' = [cmd EXCEPT ![r] = [cmd[r] EXCEPT !.pc = x, !.guest = cmd[r].guest,
                                                !.answers = cmd[r].answers]]
  BY Zenon, <1>1 DEF Goto, Command
<1> QED  BY Zenon, <1>1, <1>2, OneMoves DEF Command

(* Launch spawns the guest and goes on to register it. *)
LEMMA LaunchMoves ==
    ASSUME CommandsOK, NEW r \in DOMAIN cmd, Launch(r)
    PROVE  Moved(r, "register") /\ Kept(r)
<1>1. cmd[r] \in Command  BY DEF CommandsOK
<1>2. cmd' = [cmd EXCEPT ![r] = [cmd[r] EXCEPT !.pc = "register", !.guest = "live",
                                                !.answers = cmd[r].answers]]
  BY Zenon, <1>1 DEF Launch, Command
<1> QED  BY Zenon, <1>1, <1>2, OneMoves DEF Command, Pcs, Guests

(* A guest's step leaves the program counters alone. *)
GuestTo(r, g) == cmd' = [cmd EXCEPT ![r].guest = g]

(* So the invariant's fields of the command are as they were. *)
LEMMA GuestMoves ==
    ASSUME CommandsOK, NEW r \in DOMAIN cmd, NEW g \in Guests, GuestTo(r, g)
    PROVE  Moved(r, cmd[r].pc) /\ Kept(r)
<1> DEFINE x == cmd[r].pc
<1>1. cmd[r] \in Command  BY DEF CommandsOK
<1>2. cmd' = [cmd EXCEPT ![r] = [cmd[r] EXCEPT !.pc = x, !.guest = g, !.answers = cmd[r].answers]]
  BY Zenon, <1>1 DEF GuestTo, Command
<1>3. x \in Pcs /\ cmd[r].answers \in Nat  BY <1>1 DEF Command
<1> HIDE DEF x
<1>4. Moved(r, x) /\ Kept(r)  BY Zenon, <1>2, <1>3, OneMoves
<1> QED  BY <1>4 DEF x

(* An answer is counted once, and a start goes on to free its entry. *)
LEMMA AnswerMoves ==
    ASSUME CommandsOK, NEW r \in DOMAIN cmd, Answer(r)
    PROVE  Moved(r, IF cmd[r].pc = "answer" THEN "free" ELSE "done") /\ Kept(r)
<1> DEFINE x == IF cmd[r].pc = "answer" THEN "free" ELSE "done"
<1>1. cmd[r] \in Command /\ x \in Pcs  BY DEF CommandsOK, Pcs
<1>2. cmd' = [cmd EXCEPT ![r] = [cmd[r] EXCEPT !.pc = x, !.guest = cmd[r].guest,
                                                !.answers = cmd[r].answers + 1]]
  BY Zenon, <1>1 DEF Answer, Command
<1>3. cmd[r].guest \in Guests /\ cmd[r].answers + 1 \in Nat  BY <1>1 DEF Command
<1> HIDE DEF x
<1>4. Moved(r, x) /\ Kept(r)  BY Zenon, <1>1, <1>2, <1>3, OneMoves
<1> QED  BY <1>4 DEF x

-----------------------------------------------------------------------------
(* A stop that is through stays so.                                          *)
LEMMA StoppedStays ==
    ASSUME NEW r \in DOMAIN cmd, NEW x, Moved(r, x), cmd[r].pc # "done" \/ x = cmd[r].pc
    PROVE  \A t : Stopped(t) => Stopped(t)'
BY DEF Moved, Stopped, Task

(* A move of r that neither admits a start nor ends one, and leaves the      *)
(* entries and the components alone.                                         *)
Quiet(r, x) ==
    /\ Moved(r, x) /\ Kept(r)
    /\ UNCHANGED <<running, precompiled>>
    /\ Occupies(r)' = Occupies(r) /\ Claims(r)' = Claims(r)
    /\ \/ x = cmd[r].pc
       \/ cmd[r].pc \notin {"abort", "release", "done"} /\ x \notin {"abort", "release"}

(* Such a move keeps what is said of the entries of running_tasks. *)
LEMMA QuietEntries ==
    ASSUME IInv, NEW r \in DOMAIN cmd, NEW x, Quiet(r, x)
    PROVE  OneClaim' /\ EntriesOwned' /\ EntryLost' /\ OneStart'
<1> USE DEF IInv, Task
<1>1. \A t : Stopped(t) => Stopped(t)'  BY StoppedStays DEF Quiet
<1>2. \A q \in DOMAIN cmd : Occupies(q)' = Occupies(q) /\ Claims(q)' = Claims(q)
  BY DEF Quiet, Moved, Occupies, Claims
<1>3. OneClaim'  BY <1>2 DEF Quiet, OneClaim, Moved, Kept
<1>4. EntriesOwned'  BY <1>2 DEF Quiet, EntriesOwned, Moved, Kept
<1>5. EntryLost' /\ OneStart'  BY <1>1, <1>2 DEF Quiet, EntryLost, OneStart, Moved
<1> QED  BY <1>3, <1>4, <1>5

(* A move that leaves the handles alone keeps what is said of them, unless   *)
(* the waiter goes away with it.                                             *)
LEMMA QuietHandles ==
    ASSUME IInv, NEW r \in DOMAIN cmd, NEW x, Moved(r, x), UNCHANGED handles,
           cmd[r].pc \in {"await", "unregister"} => x \in {"await", "unregister"}
    PROVE  CommandsOK' /\ HandlesPlaced' /\ HandlesOwned'
<1> USE DEF IInv, Task
<1>1. CommandsOK'  BY DEF CommandsOK, Moved
<1>2. HandlesPlaced'  BY DEF HandlesPlaced, Moved, Key
<1>3. HandlesOwned'  BY DEF HandlesOwned, HandlesPlaced, Moved
<1> QED  BY <1>1, <1>2, <1>3

(* The steps that touch no table. *)
LEMMA QuietSteps ==
    ASSUME IInv, NEW r \in DOMAIN cmd,
           \/ RefuseStart(r) \/ FetchBinary(r) \/ LookUp(r) \/ Launch(r) \/ LaunchFails(r)
           \/ AwaitResult(r) \/ Answer(r) \/ GuestEnds(r) \/ GuestDies(r)
    PROVE  IInv'
<1> USE DEF IInv, Task
<1> DEFINE Fine(x) ==
        /\ Quiet(r, x) /\ PlacesOK' /\ UNCHANGED handles
        /\ cmd[r].pc \in {"await", "unregister"} => x \in {"await", "unregister"}
<1>0. ASSUME NEW x, Fine(x) PROVE IInv'
  <2>1. OneClaim' /\ EntriesOwned' /\ EntryLost' /\ OneStart'  BY <1>0, QuietEntries
  <2>2. CommandsOK' /\ HandlesPlaced' /\ HandlesOwned'  BY <1>0, QuietHandles DEF Quiet
  <2> QED  BY <1>0, <2>1, <2>2
<1>1. CASE RefuseStart(r)
  <2> DEFINE x == "reply"
  <2>1. Moved(r, x) /\ Kept(r)  BY <1>1, GotoMoves DEF RefuseStart, Pcs
  <2>2. PlacesOK'  BY <1>1, <2>1 DEF RefuseStart, Moved, PlacesOK, At
  <2>3. Quiet(r, x)
    BY <1>1, <2>1 DEF RefuseStart, Quiet, Moved, Kept, Occupies, Claims, At, PlacesOK
  <2>4. Fine(x)  BY <1>1, <2>2, <2>3 DEF RefuseStart, At
  <2> QED  BY <1>0, <2>4
<1>2. CASE FetchBinary(r)
  <2> DEFINE x == IF Task(r) \in Latent THEN "precompile" ELSE "launch"
  <2>1. Moved(r, x) /\ Kept(r)  BY <1>2, GotoMoves DEF FetchBinary, Pcs
  <2>2. PlacesOK'  BY <1>2, <2>1 DEF FetchBinary, Moved, PlacesOK, At
  <2>3. Quiet(r, x)
    BY <1>2, <2>1 DEF FetchBinary, Quiet, Moved, Kept, Occupies, Claims, At, PlacesOK
  <2>4. Fine(x)  BY <1>2, <2>2, <2>3 DEF FetchBinary, At
  <2> QED  BY <1>0, <2>4
<1>3. CASE LookUp(r)
  <2> DEFINE x == IF Task(r) \in precompiled THEN "launch" ELSE "reply"
  <2>1. Moved(r, x) /\ Kept(r)  BY <1>3, GotoMoves DEF LookUp, Pcs
  <2>2. PlacesOK'  BY <1>3, <2>1 DEF LookUp, Moved, PlacesOK, At
  <2>3. Quiet(r, x)
    BY <1>3, <2>1 DEF LookUp, Quiet, Moved, Kept, Occupies, Claims, At, PlacesOK
  <2>4. Fine(x)  BY <1>3, <2>2, <2>3 DEF LookUp, At
  <2> QED  BY <1>0, <2>4
<1>4. CASE Launch(r)
  <2> DEFINE x == "register"
  <2>1. Moved(r, x) /\ Kept(r)  BY <1>4, LaunchMoves
  <2>2. PlacesOK'  BY <1>4, <2>1 DEF Launch, Moved, PlacesOK, At
  <2>3. Quiet(r, x)
    BY Zenon, <1>4, <2>1 DEF Launch, Quiet, Moved, Kept, Occupies, Claims, At, PlacesOK
  <2>4. Fine(x)  BY <1>4, <2>2, <2>3 DEF Launch, At
  <2> QED  BY <1>0, <2>4
<1>5. CASE LaunchFails(r)
  <2> DEFINE x == IF cmd[r].kind = "start" THEN "answer" ELSE "reply"
  <2>1. Moved(r, x) /\ Kept(r)  BY <1>5, GotoMoves DEF LaunchFails, Pcs
  <2>2. PlacesOK'  BY <1>5, <2>1 DEF LaunchFails, Moved, PlacesOK, At
  <2>3. Quiet(r, x)
    BY <1>5, <2>1 DEF LaunchFails, Quiet, Moved, Kept, Occupies, Claims, At, PlacesOK
  <2>4. Fine(x)  BY <1>5, <2>2, <2>3 DEF LaunchFails, At
  <2> QED  BY <1>0, <2>4
<1>6. CASE AwaitResult(r)
  <2> DEFINE x == "unregister"
  <2>1. Moved(r, x) /\ Kept(r)  BY <1>6, GotoMoves DEF AwaitResult, Pcs
  <2>2. PlacesOK'  BY <1>6, <2>1 DEF AwaitResult, Moved, PlacesOK, At
  <2>3. Quiet(r, x)
    BY <1>6, <2>1 DEF AwaitResult, Quiet, Moved, Kept, Occupies, Claims, At, PlacesOK
  <2>4. Fine(x)  BY <1>6, <2>2, <2>3 DEF AwaitResult, At
  <2> QED  BY <1>0, <2>4
<1>7. CASE Answer(r)
  <2> DEFINE x == IF cmd[r].pc = "answer" THEN "free" ELSE "done"
  <2>1. Moved(r, x) /\ Kept(r)  BY <1>7, AnswerMoves
  <2>2. PlacesOK'  BY <1>7, <2>1 DEF Answer, Moved, PlacesOK, At
  <2>3. Quiet(r, x)
    <3>1. CASE cmd[r].pc = "answer"
      BY Zenon, <1>7, <2>1, <3>1 DEF Answer, Quiet, Moved, Kept, Occupies, Claims, PlacesOK
    <3>2. CASE cmd[r].pc = "reply"
      BY <1>7, <2>1, <3>2 DEF Answer, Quiet, Moved, Kept, Occupies, Claims
    <3> QED  BY <1>7, <3>1, <3>2 DEF Answer
  <2>4. Fine(x)  BY <1>7, <2>2, <2>3 DEF Answer, At
  <2> QED  BY <1>0, <2>4
<1>8. CASE GuestEnds(r)
  <2> DEFINE x == cmd[r].pc
  <2>1. Moved(r, x) /\ Kept(r)  BY Zenon, <1>8, GuestMoves DEF GuestEnds, Guests, GuestTo
  <2>2. PlacesOK'  BY <1>8, <2>1 DEF GuestEnds, Moved, PlacesOK, At
  <2>3. Quiet(r, x)
    BY Zenon, <1>8, <2>1 DEF GuestEnds, Quiet, Moved, Kept, Occupies, Claims, At, PlacesOK
  <2>4. Fine(x)  BY <1>8, <2>2, <2>3 DEF GuestEnds, At
  <2> QED  BY <1>0, <2>4
<1>9. CASE GuestDies(r)
  <2> DEFINE x == cmd[r].pc
  <2>1. Moved(r, x) /\ Kept(r)  BY Zenon, <1>9, GuestMoves DEF GuestDies, Guests, GuestTo
  <2>2. PlacesOK'  BY <1>9, <2>1 DEF GuestDies, Moved, PlacesOK, At
  <2>3. Quiet(r, x)
    BY Zenon, <1>9, <2>1 DEF GuestDies, Quiet, Moved, Kept, Occupies, Claims, At, PlacesOK
  <2>4. Fine(x)  BY <1>9, <2>2, <2>3 DEF GuestDies, At
  <2> QED  BY <1>0, <2>4
<1> QED  BY <1>1, <1>2, <1>3, <1>4, <1>5, <1>6, <1>7, <1>8, <1>9

-----------------------------------------------------------------------------
(* The steps that enter a task in running_tasks, free its entry, or cache    *)
(* its component; a command that waits for a guest takes none of them.       *)
LEMMA EntrySteps ==
    ASSUME IInv, NEW r \in DOMAIN cmd,
           AdmitStart(r) \/ StartFails(r) \/ Precompile(r) \/ FreeEntry(r) \/ Release(r)
    PROVE  IInv'
<1> USE DEF IInv, Task
<1>1. CASE AdmitStart(r)
  <2> DEFINE x == IF Task(r) \in running THEN "done" ELSE "fetch"
  <2>1. Moved(r, x) /\ Kept(r)  BY <1>1, GotoMoves DEF AdmitStart, Pcs
  <2>2. PlacesOK'  BY <1>1, <2>1 DEF AdmitStart, Moved, PlacesOK, At
  <2>3. CommandsOK' /\ HandlesPlaced' /\ HandlesOwned'
    BY <1>1, <2>1, QuietHandles DEF AdmitStart, At
  <2>4. OneClaim'
    BY <1>1, <2>1 DEF AdmitStart, Moved, Kept, OneClaim, Claims, At, PlacesOK
  <2>5. EntriesOwned'
    BY <1>1, <2>1 DEF AdmitStart, Moved, Kept, EntriesOwned, Occupies, At, PlacesOK
  <2>6. \A t : Stopped(t) => Stopped(t)'  BY <1>1, <2>1, StoppedStays DEF AdmitStart, At
  <2>8. EntryLost' /\ OneStart'
    BY <1>1, <2>1, <2>6 DEF AdmitStart, Moved, EntryLost, OneStart, Occupies, At, PlacesOK
  <2> QED  BY <2>2, <2>3, <2>4, <2>5, <2>8
<1>2. CASE StartFails(r)
  <2> DEFINE x == "reply"
  <2>1. Moved(r, x) /\ Kept(r)  BY <1>2, GotoMoves DEF StartFails, Pcs
  <2>2. PlacesOK'  BY <1>2, <2>1 DEF StartFails, Moved, PlacesOK, At
  <2>3. CommandsOK' /\ HandlesPlaced' /\ HandlesOwned'
    BY <1>2, <2>1, QuietHandles DEF StartFails, At
  <2>4. OneClaim'
    BY <1>2, <2>1 DEF StartFails, Moved, Kept, OneClaim, Claims, At, PlacesOK
  <2>5. EntriesOwned'
    BY <1>2, <2>1 DEF StartFails, Moved, Kept, EntriesOwned, Occupies, At, PlacesOK
  <2>6. \A t : Stopped(t) => Stopped(t)'  BY <1>2, <2>1, StoppedStays DEF StartFails, At
  <2>8. EntryLost' /\ OneStart'
    BY <1>2, <2>1, <2>6 DEF StartFails, Moved, EntryLost, OneStart, Occupies, At, PlacesOK
  <2> QED  BY <2>2, <2>3, <2>4, <2>5, <2>8
<1>3. CASE Precompile(r)
  <2> DEFINE x == "done"
  <2>1. Moved(r, x) /\ Kept(r)  BY <1>3, GotoMoves DEF Precompile, Pcs
  <2>2. PlacesOK'  BY <1>3, <2>1 DEF Precompile, Moved, PlacesOK, At
  <2>3. CommandsOK' /\ HandlesPlaced' /\ HandlesOwned'
    BY <1>3, <2>1, QuietHandles DEF Precompile, At
  <2>4. OneClaim'
    BY <1>3, <2>1 DEF Precompile, Moved, Kept, OneClaim, Claims, At, PlacesOK
  <2>5. EntriesOwned'
    BY <1>3, <2>1 DEF Precompile, Moved, Kept, EntriesOwned, Occupies, At, PlacesOK
  <2>6. \A t : Stopped(t) => Stopped(t)'  BY <1>3, <2>1, StoppedStays DEF Precompile, At
  <2>8. EntryLost' /\ OneStart'
    BY <1>3, <2>1, <2>6 DEF Precompile, Moved, EntryLost, OneStart, Occupies, At, PlacesOK
  <2> QED  BY <2>2, <2>3, <2>4, <2>5, <2>8
<1>4. CASE FreeEntry(r)
  <2> DEFINE x == "done"
  <2>1. Moved(r, x) /\ Kept(r)  BY <1>4, GotoMoves DEF FreeEntry, Pcs
  <2>2. PlacesOK'  BY <1>4, <2>1 DEF FreeEntry, Moved, PlacesOK, At
  <2>3. CommandsOK' /\ HandlesPlaced' /\ HandlesOwned'
    BY <1>4, <2>1, QuietHandles DEF FreeEntry, At
  <2>4. OneClaim'
    BY <1>4, <2>1 DEF FreeEntry, Moved, Kept, OneClaim, Claims, At, PlacesOK
  <2>5. EntriesOwned'
    BY <1>4, <2>1 DEF FreeEntry, Moved, Kept, EntriesOwned, Occupies, At, PlacesOK
  <2>6. \A t : Stopped(t) => Stopped(t)'  BY <1>4, <2>1, StoppedStays DEF FreeEntry, At
  <2>8. EntryLost' /\ OneStart'
    BY <1>4, <2>1, <2>6 DEF FreeEntry, Moved, EntryLost, OneStart, Occupies, At, PlacesOK
  <2> QED  BY <2>2, <2>3, <2>4, <2>5, <2>8
<1>5. CASE Release(r)
  <2> DEFINE x == "done"
  <2>1. Moved(r, x) /\ Kept(r)  BY <1>5, GotoMoves DEF Release, Pcs
  <2>2. PlacesOK'  BY <1>5, <2>1 DEF Release, Moved, PlacesOK, At
  <2>3. CommandsOK' /\ HandlesPlaced' /\ HandlesOwned'
    BY <1>5, <2>1, QuietHandles DEF Release, At
  <2>4. OneClaim'
    BY <1>5, <2>1 DEF Release, Moved, Kept, OneClaim, Claims, At, PlacesOK
  <2>5. EntriesOwned'
    BY <1>5, <2>1 DEF Release, Moved, Kept, EntriesOwned, Occupies, At, PlacesOK
  <2>6. \A t : Stopped(t) => Stopped(t)'  BY <1>5, <2>1, StoppedStays DEF Release, At
  <2>7. Stopped(Task(r))'  BY <1>5, <2>1 DEF Release, Moved, Stopped, At
  <2>8. EntryLost' /\ OneStart'
    BY <1>5, <2>1, <2>6, <2>7 DEF Release, Moved, EntryLost, OneStart, Occupies, At, PlacesOK
  <2> QED  BY <2>2, <2>3, <2>4, <2>5, <2>8
<1> QED  BY <1>1, <1>2, <1>3, <1>4, <1>5

(* The steps of a guest and of its waiter that change the table of handles.  *)
LEMMA HandleSteps ==
    ASSUME IInv, NEW r \in DOMAIN cmd,
           Register(r) \/ GuestReports(r) \/ Unregister(r)
    PROVE  IInv'
<1> USE DEF IInv, Task
<1>0. r \in Nat \ {0} /\ Key(r) \in Keys
  <2>1. DOMAIN cmd = 1..Len(cmd) /\ Len(cmd) \in Nat /\ cmd[r] \in Command  BY DEF CommandsOK
  <2>2. r \in 1..MaxCommands /\ cmd[r].task \in Tasks  BY <2>1, CommandBound DEF CommandsOK, Command
  <2> QED  BY <2>1, <2>2 DEF Key, Keys
<1>1. CASE Register(r)
  <2> DEFINE x == IF cmd[r].kind = "start" /\ Task(r) \in Daemon THEN "answer" ELSE "await"
  <2>1. Moved(r, x) /\ Kept(r)  BY <1>1, GotoMoves DEF Register, Pcs
  <2>2. CommandsOK'  BY <1>0, <1>1, <2>1 DEF Register, Moved, CommandsOK
  <2>3. PlacesOK'  BY <1>1, <2>1 DEF Register, Moved, PlacesOK, At
  <2>4. HandlesPlaced'
    <3>1. /\ handles'[Key(r)] = r
          /\ \A k \in Keys : k # Key(r) => handles'[k] = handles[k]
      BY <1>0, <1>1 DEF Register, CommandsOK
    <3>2. \A q \in DOMAIN cmd : Key(q)' = Key(q)  BY <2>1 DEF Moved, Key
    <3>3. cmd[r].kind = "invoke" \/ Task(r) \notin Latent  BY <1>1 DEF Register, PlacesOK
    <3> QED  BY <2>1, <3>1, <3>2, <3>3 DEF HandlesPlaced, Moved
  <2>5. HandlesOwned'
    BY <1>0, <1>1, <2>1 DEF Register, Moved, HandlesOwned, HandlesPlaced, PlacesOK, CommandsOK
  <2>6. Quiet(r, x)
    BY <1>1, <2>1 DEF Register, Quiet, Moved, Kept, Occupies, Claims, PlacesOK
  <2>7. OneClaim' /\ EntriesOwned' /\ EntryLost' /\ OneStart'  BY <2>6, QuietEntries
  <2> QED  BY <2>2, <2>3, <2>4, <2>5, <2>7
<1>2. CASE GuestReports(r)
  <2> DEFINE x == cmd[r].pc
  <2>1. Moved(r, x) /\ Kept(r)  BY Zenon, <1>2, GuestMoves DEF GuestReports, Guests, GuestTo
  <2>2. CommandsOK'  BY <1>0, <1>2, <2>1 DEF GuestReports, Moved, CommandsOK
  <2>3. PlacesOK'  BY <1>2, <2>1 DEF GuestReports, Moved, PlacesOK, At
  <2>4. HandlesPlaced'
    BY <1>0, <1>2, <2>1 DEF GuestReports, Moved, HandlesPlaced, Key, PlacesOK, CommandsOK
  <2>5. HandlesOwned'
    BY <1>0, <1>2, <2>1 DEF GuestReports, Moved, HandlesOwned, HandlesPlaced, PlacesOK, CommandsOK
  <2>6. Quiet(r, x)
    BY Zenon, <1>2, <2>1 DEF GuestReports, Quiet, Moved, Kept, Occupies, Claims, PlacesOK
  <2>7. OneClaim' /\ EntriesOwned' /\ EntryLost' /\ OneStart'  BY <2>6, QuietEntries
  <2> QED  BY <2>2, <2>3, <2>4, <2>5, <2>7
<1>3. CASE Unregister(r)
  <2> DEFINE x == IF cmd[r].kind = "start" THEN "answer" ELSE "reply"
  <2>1. Moved(r, x) /\ Kept(r)  BY <1>3, GotoMoves DEF Unregister, Pcs
  <2>2. CommandsOK'  BY <1>0, <1>3, <2>1 DEF Unregister, Moved, CommandsOK
  <2>3. PlacesOK'  BY <1>3, <2>1 DEF Unregister, Moved, PlacesOK, At
  <2>4. HandlesPlaced'
    BY <1>0, <1>3, <2>1 DEF Unregister, Moved, HandlesPlaced, Key, PlacesOK, CommandsOK
  <2>5. HandlesOwned'
    BY <1>0, <1>3, <2>1 DEF Unregister, Moved, HandlesOwned, HandlesPlaced, PlacesOK, CommandsOK
  <2>6. Quiet(r, x)
    BY <1>3, <2>1 DEF Unregister, Quiet, Moved, Kept, Occupies, Claims, PlacesOK
  <2>7. OneClaim' /\ EntriesOwned' /\ EntryLost' /\ OneStart'  BY <2>6, QuietEntries
  <2> QED  BY <2>2, <2>3, <2>4, <2>5, <2>7
<1> QED  BY <1>1, <1>2, <1>3

-----------------------------------------------------------------------------
(* A stop takes the component of a deployed task away, and the claim on the  *)
(* entry with it.                                                            *)
LEMMA StopLatentKeeps ==
    ASSUME IInv, NEW r \in DOMAIN cmd, StopLatent(r)
    PROVE  IInv'
<1> USE DEF IInv, Task
<1> DEFINE l == Task(r) \in precompiled
           c == [cmd[r] EXCEPT !.pc = "abort", !.latent = l]
<1>1. Moved(r, "abort") /\ cmd'[r].latent = l
  <2>1. cmd[r] \in Command /\ l \in BOOLEAN  BY DEF CommandsOK
  <2>2. cmd' = [cmd EXCEPT ![r] = c]  BY Zenon DEF StopLatent
  <2> HIDE DEF l
  <2>3. c \in Command /\ c.pc = "abort" /\ c.kind = cmd[r].kind /\ c.task = cmd[r].task
        /\ c.latent = l
    BY Zenon, <2>1 DEF Command, Pcs
  <2> HIDE DEF c
  <2> QED  BY Zenon, <2>2, <2>3, Updated
<1>2. CommandsOK' /\ HandlesPlaced' /\ HandlesOwned'  BY <1>1, QuietHandles DEF StopLatent, At
<1>3. PlacesOK'  BY <1>1 DEF StopLatent, Moved, PlacesOK, At
<1>4. OneClaim'
  <2>1. CASE l  BY <1>1, <2>1 DEF StopLatent, Moved, OneClaim, Claims, At
  <2>2. CASE ~l
    <3>1. ~cmd'[r].latent /\ UNCHANGED running  BY Zenon, <1>1, <2>2 DEF StopLatent
    <3>2. precompiled' = precompiled  BY <2>2 DEF StopLatent
    <3>3. ~Claims(r)' /\ cmd'[r].pc = "abort"  BY <1>1, <3>1 DEF Moved, Claims
    <3>4. \A q \in DOMAIN cmd : Claims(q)' => Claims(q)  BY <1>1, <3>3 DEF Moved, Claims
    <3> QED  BY <1>1, <3>1, <3>2, <3>3, <3>4 DEF Moved, OneClaim
  <2> QED  BY <2>1, <2>2
<1>5. EntriesOwned'
  <2>1. UNCHANGED running /\ precompiled' = precompiled \ {Task(r)}  BY DEF StopLatent
  <2>2. Task(r) \in precompiled => cmd'[r].pc = "abort" /\ cmd'[r].latent  BY Zenon, <1>1 DEF Moved
  <2>3. \A q \in DOMAIN cmd : q # r => Occupies(q)' = Occupies(q)  BY <1>1 DEF Moved, Occupies
  <2>4. ~Occupies(r) /\ cmd[r].pc = "received"  BY DEF StopLatent, Occupies, At
  <2> QED  BY <1>1, <2>1, <2>2, <2>3, <2>4 DEF Moved, EntriesOwned
<1>6. \A t : Stopped(t) => Stopped(t)'  BY <1>1, StoppedStays DEF StopLatent, At
<1>7. EntryLost' /\ OneStart'
  BY <1>1, <1>6 DEF StopLatent, Moved, EntryLost, OneStart, Occupies, At
<1> QED  BY <1>2, <1>3, <1>4, <1>5, <1>7

(* A stop only removes handles, and goes on to free the entry of a latent    *)
(* task only if it took the component: the task has no handle of its own.    *)
LEMMA StopTasksKeeps ==
    ASSUME IInv, NEW r \in DOMAIN cmd, StopTasks(r)
    PROVE  IInv'
<1> USE DEF IInv, Task
<1> DEFINE own == <<"task", Task(r)>>
           victims == {k \in Keys : /\ handles[k] # 0
                                    /\ \/ k = own
                                       \/ k[1] = "inv" /\ cmd[r].latent /\ Task(k[2]) = Task(r)}
           x == IF cmd[r].latent \/ own \in victims THEN "release" ELSE "done"
           hit(q) == \E k \in victims : handles[k] = q
<1>1. /\ handles' = [k \in Keys |-> IF k \in victims THEN 0 ELSE handles[k]]
      /\ cmd' = [q \in DOMAIN cmd |-> IF q = r THEN [cmd[q] EXCEPT !.pc = x]
                                      ELSE [cmd[q] EXCEPT !.abort = @ \/ hit(q)]]
      /\ UNCHANGED <<running, precompiled>> /\ cmd[r].kind = "stop" /\ cmd[r].pc = "abort"
  BY DEF StopTasks, At
<1>2. own \in victims => own \in Keys /\ handles[own] # 0  OBVIOUS
<1>3. x \in {"release", "done"} /\ (x = "release" => cmd[r].latent \/ own \in victims)  OBVIOUS
<1> HIDE DEF x, victims, hit
<1>4. Moved(r, x) /\ Kept(r)
  <2>1. DOMAIN cmd = 1..Len(cmd) /\ Len(cmd) \in Nat  BY DEF CommandsOK
  <2>2. ASSUME NEW q \in DOMAIN cmd
        PROVE  /\ cmd'[q] \in Command
               /\ cmd'[q].kind = cmd[q].kind /\ cmd'[q].task = cmd[q].task
               /\ cmd'[q].latent = cmd[q].latent
               /\ cmd'[q].pc = IF q = r THEN x ELSE cmd[q].pc
    <3>1. cmd[q] \in Command  BY DEF CommandsOK
    <3>2. CASE q = r  BY <1>1, <1>3, <3>1, <3>2 DEF Command, Pcs
    <3>3. CASE q # r  BY Zenon, <1>1, <3>1, <3>3 DEF Command
    <3> QED  BY <3>2, <3>3
  <2>3. DOMAIN cmd' = DOMAIN cmd  BY <1>1
  <2>4. cmd' \in [1..Len(cmd) -> Command]  BY Zenon, <1>1, <2>1, <2>2
  <2>5. cmd' \in Seq(Command) /\ Len(cmd') = Len(cmd)  BY <2>1, <2>4
  <2> QED  BY <2>2, <2>3, <2>5 DEF Moved, Kept, CommandsOK
<1>5. \A k \in Keys : handles'[k] \in {0, handles[k]}  BY <1>1
<1>6. CommandsOK'
  BY <1>1, <1>4 DEF Moved, CommandsOK
<1>7. PlacesOK'  BY <1>1, <1>3, <1>4 DEF Moved, PlacesOK
<1>8. HandlesPlaced'  BY <1>1, <1>4, <1>5 DEF Moved, HandlesPlaced, Key
<1>9. HandlesOwned'  BY <1>1, <1>4, <1>5 DEF Moved, HandlesOwned, HandlesPlaced
<1>10. Task(r) \in Latent /\ x = "release" => cmd[r].latent
  <2>1. SUFFICES ASSUME Task(r) \in Latent, own \in Keys, handles[own] # 0
                 PROVE  FALSE
    BY <1>2, <1>3
  <2>2. PICK q \in DOMAIN cmd : own = Key(q) /\ (cmd[q].kind = "invoke" \/ Task(q) \notin Latent)
    BY <2>1 DEF HandlesPlaced
  <2> QED  BY <2>1, <2>2 DEF Key
<1>11. OneClaim'
  BY <1>1, <1>3, <1>4, <1>10 DEF Moved, Kept, OneClaim, Claims
<1>12. EntriesOwned'
  BY <1>1, <1>3, <1>4 DEF Moved, Kept, EntriesOwned, Occupies, x
<1>13. \A t : Stopped(t) => Stopped(t)'  BY <1>1, <1>4, StoppedStays
<1>14. EntryLost' /\ OneStart'
  BY <1>1, <1>4, <1>13 DEF Moved, EntryLost, OneStart, Occupies
<1> QED  BY <1>6, <1>7, <1>8, <1>9, <1>11, <1>12, <1>14

(* A new command holds nothing yet. *)
LEMMA ReceiveKeeps ==
    ASSUME IInv, NEW kind \in {"start", "stop", "invoke"}, NEW t \in Tasks,
           Receive(kind, t)
    PROVE  IInv'
<1> USE DEF IInv, Task
<1> DEFINE c == [kind |-> kind, task |-> t, pc |-> "received", guest |-> "none",
                 abort |-> FALSE, latent |-> FALSE, answers |-> 0]
           n == Len(cmd) + 1
<1>1. /\ Len(cmd) \in Nat /\ DOMAIN cmd = 1..Len(cmd) /\ c \in Command
      /\ cmd' = Append(cmd, c) /\ Len(cmd) < MaxCommands
      /\ UNCHANGED <<running, handles, precompiled>>
  BY DEF Receive, CommandsOK, Command, Pcs, Guests
<1>2. cmd' \in Seq(Command) /\ Len(cmd') = n /\ cmd'[n] = c
      /\ DOMAIN cmd' = DOMAIN cmd \cup {n} /\ n \notin DOMAIN cmd
      /\ \A q \in DOMAIN cmd : cmd'[q] = cmd[q]
  BY <1>1 DEF CommandsOK
<1>3. cmd'[n].pc = "received"  BY <1>2
<1>4. CommandsOK'  BY <1>1, <1>2, CommandBound DEF CommandsOK
<1> HIDE DEF c, n
<1>5. PlacesOK'  BY <1>2, <1>3 DEF PlacesOK
<1>6. HandlesPlaced' /\ HandlesOwned'  BY <1>1, <1>2 DEF HandlesPlaced, HandlesOwned, Key
<1>7. OneClaim'  BY <1>1, <1>2, <1>3 DEF OneClaim, Claims
<1>8. EntriesOwned'  BY <1>1, <1>2 DEF EntriesOwned, Occupies
<1>9. \A u : Stopped(u) => Stopped(u)'  BY <1>2 DEF Stopped
<1>10. EntryLost' /\ OneStart'
  BY <1>1, <1>2, <1>3, <1>9 DEF EntryLost, OneStart, Occupies
<1> QED  BY <1>4, <1>5, <1>6, <1>7, <1>8, <1>10

-----------------------------------------------------------------------------
(* Nothing is entered, cached, registered or received at the start.          *)
LEMMA IInvInit ==
    ASSUME Init
    PROVE  IInv
<1>1. cmd = <<>> /\ DOMAIN cmd = {} /\ running = {} /\ precompiled = {}
      /\ \A k \in Keys : handles[k] = 0
  BY DEF Init
<1>2. CommandsOK
  <2>1. cmd \in Seq(Command) /\ Len(cmd) = 0  BY <1>1
  <2> QED  BY <2>1, CommandBound DEF Init, CommandsOK
<1>3. PlacesOK /\ HandlesPlaced /\ OneClaim  BY <1>1 DEF PlacesOK, HandlesPlaced, OneClaim
<1>4. EntriesOwned /\ HandlesOwned /\ EntryLost /\ OneStart
  BY <1>1 DEF EntriesOwned, HandlesOwned, EntryLost, OneStart
<1> QED  BY <1>2, <1>3, <1>4 DEF IInv

(* Every step keeps the invariant. *)
LEMMA IInvNext ==
    ASSUME IInv, [Next]_vars
    PROVE  IInv'
<1>1. ASSUME NEW kind \in {"start", "stop", "invoke"}, NEW t \in Tasks, Receive(kind, t)
      PROVE  IInv'
  BY <1>1, ReceiveKeeps
<1>2. ASSUME NEW r \in DOMAIN cmd, Step(r) \/ GuestEnds(r) \/ GuestReports(r) \/ GuestDies(r)
      PROVE  IInv'
  BY <1>2, QuietSteps, EntrySteps, HandleSteps, StopLatentKeeps, StopTasksKeeps DEF Step
<1>3. CASE UNCHANGED vars
  BY <1>3 DEF vars, IInv, CommandsOK, PlacesOK, HandlesPlaced, OneClaim, Claims, EntriesOwned,
              HandlesOwned, EntryLost, OneStart, Stopped, Occupies, Task, Key
<1> QED  BY <1>1, <1>2, <1>3 DEF Next

(* The proplet's tables describe what it executes: no entry of running_tasks *)
(* is orphaned, a deployed component keeps its entry, no handle outlives its *)
(* command unless a daemon's, and starts of one task overlap only after a    *)
(* stop, for any tasks, any mix of latent and daemon ones, and any number of *)
(* start, stop and invoke commands interleaved at every await.               *)
THEOREM TablesTrackExecutions ==
    Spec => []ExecutionsTracked
<1>1. IInv => ExecutionsTracked
  BY DEF IInv, ExecutionsTracked, DeployedReserved, OneClaim
<1>2. IInv /\ [Next]_vars => IInv'  BY IInvNext
<1>3. Init => IInv  BY IInvInit
<1> QED  BY <1>1, <1>2, <1>3, PTL DEF Spec

=============================================================================
