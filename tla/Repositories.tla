---------------------------- MODULE Repositories ----------------------------
(***************************************************************************)
(* The manager's repositories (pkg/storage), as functions from ids to      *)
(* records or None, and what Create, Update and Delete do to them in each  *)
(* of the four backends the factory can build.  Every repository call is   *)
(* atomic: the in-memory store holds a mutex, the others run one statement *)
(* or one transaction.                                                     *)
(*                                                                         *)
(* The backends differ exactly where a record is missing or already there: *)
(*                                                                         *)
(*                          memory    sqlite    postgres   badger          *)
(*   task Update, absent     error     no-op     error      error          *)
(*   proplet Update, absent  error     no-op     no-op      inserts        *)
(*   Create, present         error     error     error      overwrites     *)
(*   pin, task/proplet gone  pins      pins      error      pins           *)
(*   Delete task/proplet     -         -         unpins     -              *)
(***************************************************************************)
EXTENDS Naturals

CONSTANTS
    Tasks,      \* task ids (uuids, never issued twice)
    Proplets,   \* proplet ids
    None,       \* "no record", "no proplet"
    Backend     \* MANAGER_STORAGE_TYPE

Backends == {"memory", "sqlite", "postgres", "badger"}

ASSUME BackendAssumption == Backend \in Backends

ASSUME NoneAssumption == None \notin Tasks /\ None \notin Proplets

States ==
    {"Pending", "Scheduled", "Running", "Completed", "Failed", "Skipped", "Interrupted"}

(* State.IsTerminal *)
IsTerminal(s) == s \in {"Completed", "Failed", "Skipped", "Interrupted"}

(* What Running and Scheduled have in common for shutdown and job stopping. *)
IsActive(s) == s \in {"Running", "Scheduled"}

(* A stored task: its state and the proplet it names ("" is None). *)
TaskRec == [state : States, proplet : Proplets \cup {None}]

(* A stored proplet: TaskCount, and whether the last entry of AliveHistory  *)
(* is younger than AliveTimeout.                                            *)
PropletRec == [count : Nat, fresh : BOOLEAN]

ASSUME NoRecordAssumption == None \notin TaskRec /\ None \notin PropletRec

-----------------------------------------------------------------------------
(* taskRepo.Update *)

TaskUpdateErr(tasks, k) == tasks[k] = None /\ Backend # "sqlite"

TaskUpdated(tasks, k, t) ==
    IF tasks[k] = None THEN tasks ELSE [tasks EXCEPT ![k] = t]

(* propletRepo.Update *)

PropletUpdateErr(proplets, p) == proplets[p] = None /\ Backend = "memory"

PropletUpdated(proplets, p, rec) ==
    IF proplets[p] = None /\ Backend # "badger"
    THEN proplets
    ELSE [proplets EXCEPT ![p] = rec]

(* propletRepo.Create *)

PropletCreated(proplets, p, rec) ==
    IF proplets[p] # None /\ Backend # "badger"
    THEN proplets
    ELSE [proplets EXCEPT ![p] = rec]

(* taskPropletRepo.Create: the pin of a task to a proplet.  Postgres also   *)
(* checks the two foreign keys of task_proplets; sqlite declares them but   *)
(* never switches them on.                                                  *)

PinCreateErr(tasks, proplets, pins, k, p) ==
    \/ pins[k] # None /\ Backend # "badger"
    \/ Backend = "postgres" /\ (tasks[k] = None \/ proplets[p] = None)

(* What ON DELETE CASCADE does to the pins. *)

PinsAfterTaskDelete(pins, k) ==
    IF Backend = "postgres" THEN [pins EXCEPT ![k] = None] ELSE pins

PinsAfterPropletDelete(pins, p) ==
    IF Backend = "postgres"
    THEN [k \in Tasks |-> IF pins[k] = p THEN None ELSE pins[k]]
    ELSE pins
=============================================================================
