-------------------------- MODULE SchemaBootstrap --------------------------
(***************************************************************************)
(* How several processes bring one database file to the current schema     *)
(* (latte-engine, storage.rs, Storage::open and bootstrap).  The version   *)
(* is read once, outside of any transaction; each migration is then a      *)
(* transaction of its own that ends by inserting its number into           *)
(* schema_migrations, whose primary key it is.                             *)
(***************************************************************************)
EXTENDS Naturals, Sequences

CONSTANTS Openers,      \* processes that open the file
          Supports,     \* Supports[p]: SCHEMA_VERSION of the binary p runs
          NamingStep,   \* the migration that gives legacy sessions a workspace (9)
          MaxOpens      \* bound: openings of one process

ASSUME BootstrapAssumption ==
    /\ Supports \in [Openers -> Nat \ {0}]
    /\ NamingStep \in Nat \ {0}
    /\ MaxOpens \in Nat

VARIABLES userVersion,   \* PRAGMA user_version
          migrations,    \* schema_migrations, in the order of insertion
          unnamed,       \* there are sessions without a workspace identity
          opener         \* for each process: where it is, the version it goes by,
                         \* whether it knows a workspace, how often it opened

bootstrapVars == <<userVersion, migrations, unnamed, opener>>

Closed == [pc |-> "closed", version |-> 0, rooted |-> FALSE, opens |-> 0]

BootstrapInit ==
    /\ unnamed \in BOOLEAN
    /\ userVersion = IF unnamed THEN NamingStep - 1 ELSE 0
    /\ migrations = [i \in 1..userVersion |-> i]
    /\ opener = [p \in Openers |-> Closed]

Goes(p, pc) == opener' = [opener EXCEPT ![p].pc = pc]

(* open_in_workspace or open, up to the version check of bootstrap *)
OpenFile(p, rooted) ==
    /\ opener[p].pc = "closed"
    /\ opener[p].opens < MaxOpens
    /\ opener' = [opener EXCEPT ![p] =
          [pc |-> IF userVersion > Supports[p] THEN "closed" ELSE "migrating",
           version |-> userVersion, rooted |-> rooted, opens |-> @.opens + 1]]
    /\ UNCHANGED <<userVersion, migrations, unnamed>>

Applied(v) == \E i \in DOMAIN migrations : migrations[i] = v

(* A fault, for comparison: the row is inserted whether or not it is there. *)
StepFailsUnnumbered(p) ==
    opener[p].version + 1 = NamingStep /\ unnamed /\ ~opener[p].rooted

(* The step from v: its statements, then its row.  A step someone else has      *)
(* applied meanwhile meets tables that exist or the row with its number.        *)
StepFails(p) ==
    LET v == opener[p].version + 1 IN
    \/ Applied(v)
    \/ v = NamingStep /\ unnamed /\ ~opener[p].rooted

Migrate(p) ==
    LET v == opener[p].version + 1 IN
    /\ opener[p].pc = "migrating"
    /\ v <= Supports[p]
    /\ \/ /\ StepFails(p)
          /\ Goes(p, "closed")
          /\ UNCHANGED <<userVersion, migrations, unnamed>>
       \/ /\ ~StepFails(p)
          /\ userVersion' = v
          /\ migrations' = Append(migrations, v)
          /\ unnamed' = (unnamed /\ v # NamingStep)
          /\ opener' = [opener EXCEPT ![p].version = v]

(* integrity_check, then recover_at *)
Opened(p) ==
    /\ opener[p].pc = "migrating"
    /\ opener[p].version = Supports[p]
    /\ Goes(p, "open")
    /\ UNCHANGED <<userVersion, migrations, unnamed>>

(* The process ends, in the middle of a step or not: a step is a transaction. *)
CloseFile(p) ==
    /\ opener[p].pc # "closed"
    /\ Goes(p, "closed")
    /\ UNCHANGED <<userVersion, migrations, unnamed>>

BootstrapNext ==
    \E p \in Openers :
        \/ \E rooted \in BOOLEAN : OpenFile(p, rooted)
        \/ Migrate(p) \/ Opened(p) \/ CloseFile(p)

BootstrapSpec == BootstrapInit /\ [][BootstrapNext]_bootstrapVars

(* However many processes start at once and wherever they die, every migration   *)
(* is applied once and in order, and the version says which (bootstrap).         *)
MigratedOnce ==
    /\ migrations = [i \in 1..Len(migrations) |-> i]
    /\ userVersion = Len(migrations)

(* A process works on the file only when it has the schema its binary was        *)
(* written for, with every session in a workspace (bootstrap).                   *)
OpenIsCurrent ==
    \A p \in Openers : opener[p].pc = "open" =>
        /\ \A v \in 1..Supports[p] : Applied(v)
        /\ Supports[p] >= NamingStep => ~unnamed

(* The invariants of the schema together.                                        *)
SchemaBootstrapCorrect == MigratedOnce /\ OpenIsCurrent
=============================================================================
