------------------------------ MODULE Migrations ------------------------------
(***************************************************************************)
(* How the server process starts (main.go) and brings the database's       *)
(* schema up to date (ApplyMigrations, storage/store.go).  A file of       *)
(* migrations is executed statement by statement, with no transaction      *)
(* around it, and recorded in schema_migrations by a statement of its own; *)
(* the process may stop between any two of them, and is started again.     *)
(***************************************************************************)
EXTENDS Naturals

CONSTANTS
    Files,       \* number of *.sql files, sorted by name
    Statements,  \* number of statements of each
    MaxStops     \* bound: how often the process stops

ASSUME FilesAssumption == Files \in Nat /\ Statements \in Nat \ {0}
ASSUME MaxStopsAssumption == MaxStops \in Nat

File == 1 .. Files

VARIABLES
    boot,        \* "down", "migrating", "serving"
    file,        \* ApplyMigrations: the file it is at
    next,        \* next statement of that file, 0 before isMigrationApplied
    executed,    \* statements whose effect is in the database
    recorded,    \* rows of schema_migrations
    stops        \* how often the process stopped

bootVars == <<boot, file, next, executed, recorded, stops>>

BootInit ==
    /\ boot = "down"
    /\ file = 1
    /\ next = 0
    /\ executed = {}
    /\ recorded = {}
    /\ stops = 0

(* Open, and CREATE TABLE IF NOT EXISTS schema_migrations.                 *)
OpenStore ==
    /\ boot = "down"
    /\ boot' = "migrating" /\ file' = 1 /\ next' = 0
    /\ UNCHANGED <<executed, recorded, stops>>

(* isMigrationApplied                                                      *)
SelectMigration ==
    /\ boot = "migrating" /\ file \in File /\ next = 0
    /\ IF file \in recorded THEN file' = file + 1 /\ UNCHANGED next
                            ELSE next' = 1 /\ UNCHANGED file
    /\ UNCHANGED <<boot, executed, recorded, stops>>

(* Mutant: a statement fails when its effect is there already.              *)
ExecuteOnce ==
    /\ boot = "migrating" /\ next \in 1 .. Statements
    /\ <<file, next>> \notin executed
    /\ executed' = executed \cup {<<file, next>>}
    /\ next' = next + 1
    /\ UNCHANGED <<boot, file, recorded, stops>>

(* One statement of the file; each is CREATE ... IF NOT EXISTS, so that    *)
(* what an interrupted run has done already is no error.                   *)
ExecuteStatement ==
    /\ boot = "migrating" /\ next \in 1 .. Statements
    /\ executed' = executed \cup {<<file, next>>}
    /\ next' = next + 1
    /\ UNCHANGED <<boot, file, recorded, stops>>

(* Mutant: the version is recorded before its statements are executed.     *)
RecordFirst ==
    /\ boot = "migrating" /\ next = 1
    /\ recorded' = recorded \cup {file}
    /\ file' = file + 1 /\ next' = 0
    /\ UNCHANGED <<boot, executed, stops>>

RecordMigration ==
    /\ boot = "migrating" /\ next = Statements + 1
    /\ recorded' = recorded \cup {file}
    /\ file' = file + 1 /\ next' = 0
    /\ UNCHANGED <<boot, executed, stops>>

(* EnsureToken and ListenAndServe.                                         *)
Serve ==
    /\ boot = "migrating" /\ file = Files + 1
    /\ boot' = "serving"
    /\ UNCHANGED <<file, next, executed, recorded, stops>>

(* A crash, or the log.Fatalf of a statement that fails.                   *)
Stop ==
    /\ boot # "down" /\ stops < MaxStops
    /\ boot' = "down" /\ stops' = stops + 1
    /\ file' = 1 /\ next' = 0
    /\ UNCHANGED <<executed, recorded>>

BootStep ==
    \/ OpenStore \/ SelectMigration \/ ExecuteStatement \/ RecordMigration
    \/ Serve

-----------------------------------------------------------------------------
BootTypeOK ==
    /\ boot \in {"down", "migrating", "serving"}
    /\ file \in 1 .. Files + 1
    /\ next \in 0 .. Statements + 1
    /\ executed \in SUBSET (File \X (1 .. Statements))
    /\ recorded \in SUBSET File
    /\ stops \in 0 .. MaxStops

(* Whenever the server serves, every statement of every migration has had  *)
(* its effect, and a file is recorded only when all of it has, although    *)
(* the process may stop between any two statements and skips a recorded    *)
(* file for good (store.go:614, :626).                                     *)
ServedSchemaComplete ==
    /\ \A f \in recorded : {f} \X (1 .. Statements) \subseteq executed
    /\ boot = "serving" => recorded = File

(* However often a start is interrupted, some start gets through: what an  *)
(* interrupted one left behind never keeps the next from finishing.        *)
BootsEventually == <>[](boot = "serving")

=============================================================================
