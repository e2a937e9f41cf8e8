---------------------------- MODULE LegacyImport ----------------------------
(***************************************************************************)
(* The import of a workspace's own, older database into the global one     *)
(* (latte-engine, lib.rs import_legacy_workspace_database; storage.rs      *)
(* import_legacy_database), repeated whenever the older file has changed,  *)
(* while the older program may still be writing to it and the sessions go  *)
(* on in the global database.                                              *)
(*                                                                         *)
(* A session is what the import decides about: its turns in their order,   *)
(* its active-turn row (session_active_turns: the ordinal, 0 for no row)   *)
(* and whether a live lease owns it.  A turn is "running" when it is at    *)
(* work under a lease token, "waiting" when its lease was given back at a  *)
(* permission or a question, else over.  The fingerprint of the file is    *)
(* its content.  The cards are left out but for their number: it changes   *)
(* the fingerprint.                                                        *)
(***************************************************************************)
EXTENDS Naturals, Sequences

CONSTANTS Imported,     \* identifiers of sessions of the older database
          Native,       \* identifiers of sessions of the global one
          MaxTurnsEach, \* bound: turns of a session
          MaxCardsEach  \* bound: cards of a session of the older database

ASSUME ImportAssumption ==
    /\ Imported \cap Native = {}
    /\ MaxTurnsEach \in Nat \ {0}
    /\ MaxCardsEach \in Nat

VARIABLES older,     \* the older database
          rows,      \* the global one: sessions, turns, active turns, leases
          imports,   \* legacy_imports: the last fingerprint, once there is one
          importer,  \* what the importing call has left to do
          mixed      \* history: sessions of the global database that an import
                     \* took for sessions of the older one

importVars == <<older, rows, imports, importer, mixed>>

AnySession == Imported \cup Native

(* brought and own are histories: how many turns the session had when an import
   brought it (0 if none did), and which turns were opened in the global database. *)
NoRow == [turns |-> <<>>, active |-> 0, owned |-> FALSE, brought |-> 0, own |-> {}]
NativeRow == [turns |-> <<"running">>, active |-> 1, owned |-> TRUE, brought |-> 0, own |-> {1}]

(* An identifier is a fresh UUID: one is taken in the global database only by what
   was there of a copy of the older one. *)
ImportInit ==
    /\ older \in [Imported -> {[turns |-> <<>>, cards |-> 0],
                               [turns |-> <<"running">>, cards |-> 0]}]
    /\ \E clash \in SUBSET {s \in Imported : older[s].turns # <<>>} :
          rows = [s \in AnySession |-> IF s \in Native \cup clash THEN NativeRow ELSE NoRow]
    /\ imports = {}
    /\ importer = "idle"
    /\ mixed = {}

-----------------------------------------------------------------------------
(* The older program, on its own file *)

AtWork == {"running", "waiting"}

(* The ordinal of the turn at work: the last one, or none. *)
OlderActive(s) ==
    LET n == Len(older[s].turns) IN
    IF n > 0 /\ older[s].turns[n] \in AtWork THEN n ELSE 0

(* A session begins, or goes on with another turn. *)
OlderTurn(s) ==
    /\ OlderActive(s) = 0
    /\ Len(older[s].turns) < MaxTurnsEach
    /\ older' = [older EXCEPT ![s].turns = Append(@, "running")]
    /\ UNCHANGED <<rows, imports, importer, mixed>>

OlderRound(s) ==
    /\ OlderActive(s) # 0
    /\ older[s].cards < MaxCardsEach
    /\ older' = [older EXCEPT ![s].cards = @ + 1]
    /\ UNCHANGED <<rows, imports, importer, mixed>>

(* It waits for a permission or an answer, its lease given back; or it is over. *)
OlderStops(s) ==
    /\ OlderActive(s) # 0
    /\ \E life \in {"waiting", "over"} :
          older' = [older EXCEPT ![s].turns[OlderActive(s)] = life]
    /\ UNCHANGED <<rows, imports, importer, mixed>>

-----------------------------------------------------------------------------
(* The global database *)

Present == {s \in AnySession : rows[s].turns # <<>>}

(* A follow-up of a session without an active-turn row. *)
NativeTurn(s) ==
    /\ s \in Present
    /\ rows[s].active = 0
    /\ LET n == Len(rows[s].turns) + 1 IN
       /\ n <= MaxTurnsEach
       /\ rows' = [rows EXCEPT ![s] =
                      [rows[s] EXCEPT !.turns = Append(rows[s].turns, "running"), !.active = n,
                                      !.owned = TRUE, !.own = rows[s].own \cup {n}]]
    /\ UNCHANGED <<older, imports, importer, mixed>>

(* The owner is done with the turn at work; one that waits is cancelled. (It cannot  *)
(* be granted: the digest of an imported effect's approval is not copied.)           *)
NativeStops(s) ==
    LET a == rows[s].active IN
    /\ a # 0
    /\ rows[s].turns[a] = "waiting" \/ (rows[s].turns[a] = "running" /\ rows[s].owned)
    /\ rows' = [rows EXCEPT ![s] = [rows[s] EXCEPT !.turns[a] = "over", !.active = 0, !.owned = FALSE]]
    /\ UNCHANGED <<older, imports, importer, mixed>>

-----------------------------------------------------------------------------
(* import_legacy_database *)

(* The same content was imported before: nothing happens. *)
AlreadyImported == older \in imports

Held == {s \in Imported : older[s].turns # <<>>}

(* Only the first import of a path looks for identifiers that are taken. *)
IdsCollide == imports = {} /\ Held \cap Present # {}

(* The two programs have gone on with one session: its next ordinal is taken, the    *)
(* older turn's row is ignored, and what hangs on it has no turn to refer to.  The   *)
(* statement fails and the transaction is rolled back.                               *)
Diverged == \E s \in Held : \E i \in rows[s].own : i <= Len(older[s].turns)

(* INSERT OR IGNORE: the rows that are there stay as they are, turn by turn, and so  *)
(* does the active-turn row, which is one for each session.                          *)
CopiedTurns(s) ==
    LET here == rows[s].turns
        there == older[s].turns
    IN  [i \in 1..(IF Len(here) < Len(there) THEN Len(there) ELSE Len(here)) |->
            IF i <= Len(here) THEN here[i] ELSE there[i]]

CopiedRow(s) ==
    LET row == rows[s] IN
    [turns |-> CopiedTurns(s),
     active |-> IF row.active # 0 THEN row.active ELSE OlderActive(s),
     owned |-> row.owned,
     brought |-> IF s \in Present THEN row.brought ELSE Len(older[s].turns),
     own |-> row.own]

Copy ==
    /\ importer = "idle"
    /\ ~AlreadyImported
    /\ ~IdsCollide
    /\ ~Diverged
    /\ rows' = [s \in AnySession |-> IF s \in Held THEN CopiedRow(s) ELSE rows[s]]
    /\ imports' = {older}
    /\ importer' = "copied"
    /\ mixed' = mixed \cup {s \in Held \cap Present : rows[s].brought = 0}
    /\ UNCHANGED older

(* recover_at: it looks for turns through the active-turn rows.  The one of such a   *)
(* row that is at work and has no owner is interrupted, and its row deleted.         *)
Stranded(s) ==
    /\ rows[s].active # 0
    /\ rows[s].turns[rows[s].active] = "running"
    /\ ~rows[s].owned

SettleImported ==
    /\ rows' = [s \in AnySession |->
          IF Stranded(s)
          THEN [rows[s] EXCEPT !.turns[rows[s].active] = "interrupted", !.active = 0]
          ELSE rows[s]]
    /\ UNCHANGED <<older, imports, mixed>>

(* A fault, for comparison: the import is over once it is committed. *)
FinishImportAtOnce ==
    /\ importer = "copied"
    /\ importer' = "idle"
    /\ UNCHANGED <<older, rows, imports, mixed>>

(* DETACH, then recover_at. *)
FinishImport == importer = "copied" /\ importer' = "idle" /\ SettleImported

(* DETACH fails, or the process dies: the rows are in, and the next opening *)
(* or sweep recovers them.                                                  *)
AbandonImport ==
    /\ importer = "copied"
    /\ importer' = "abandoned"
    /\ UNCHANGED <<older, rows, imports, mixed>>

OpenAgain == importer = "abandoned" /\ importer' = "idle" /\ SettleImported

ImportNext ==
    \/ Copy \/ FinishImport \/ AbandonImport \/ OpenAgain
    \/ \E s \in Imported : OlderTurn(s) \/ OlderRound(s) \/ OlderStops(s)
    \/ \E s \in AnySession : NativeTurn(s) \/ NativeStops(s)

ImportSpec == ImportInit /\ [][ImportNext]_importVars

-----------------------------------------------------------------------------
(* A session of the global database is never taken for another one that happens to *)
(* have its identifier (the collision check of the first import).                  *)
NothingMixed == mixed = {}

(* Once an import is over, no turn it brought is at work without an owner, and no  *)
(* active-turn row names a turn that is over (recover_at is written so that it     *)
(* never "leaves an active-row/lifecycle pair that no v2 command can safely        *)
(* reconcile").  A repeated import breaks this.                                    *)
Tended(s, i) == rows[s].active = i /\ rows[s].owned

ImportedIsSettled ==
    importer = "idle" => \A s \in Present :
        /\ \A i \in DOMAIN rows[s].turns : rows[s].turns[i] = "running" => Tended(s, i)
        /\ rows[s].active # 0 => rows[s].turns[rows[s].active] \in AtWork

(* What does hold: the import that brings a session settles all it brings of it.   *)
(* Only a turn that a later import adds can be left at work, and never one opened  *)
(* in the global database, whose active-turn row is never left behind either.      *)
OnlyLateTurnsAreLeft ==
    importer = "idle" => \A s \in Present :
        /\ \A i \in DOMAIN rows[s].turns :
              rows[s].turns[i] = "running" /\ ~Tended(s, i)
              => i > rows[s].brought /\ i \notin rows[s].own
        /\ rows[s].active \in rows[s].own => Tended(s, rows[s].active)

(* The invariants of the import together.                                         *)
LegacyImportCorrect == NothingMixed /\ OnlyLateTurnsAreLeft
=============================================================================
