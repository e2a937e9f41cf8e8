---------------------------- MODULE EngineProofs ----------------------------
(***************************************************************************)
(* Proofs about what surrounds the sessions in the engine's database: the  *)
(* migrations (SchemaBootstrap), the import of an older database           *)
(* (LegacyImport), what tells clients that a session changed (EventStream) *)
(* and the log that its cards are written to (ConversationLog): whatever   *)
(* drainers with old pages of the outbox do in whatever order, and         *)
(* wherever they or the machine die, the file stays a prefix of the cards, *)
(* no card leaves the database before the disk has it, and no drainer      *)
(* takes the work of another for damage.                                   *)
(***************************************************************************)
EXTENDS SchemaBootstrap, LegacyImport, EventStream, ConversationLog,
        FiniteSetTheorems, WellFoundedInduction, TLAPS

-----------------------------------------------------------------------------
(* Migrations *)

Openings == [Openers -> [pc : {"closed", "migrating", "open"}, version : Nat,
                         rooted : BOOLEAN, opens : Nat]]

(* The version and the rows agree after every step.  What a process read of the
   version may be old, never ahead; the schema of an open one is there.  Sessions
   wait for their workspace only until the naming step. *)
SchemaInv ==
    /\ userVersion \in Nat
    /\ unnamed \in BOOLEAN
    /\ migrations = [i \in 1..userVersion |-> i]
    /\ opener \in Openings
    /\ \A p \in Openers :
          /\ opener[p].pc = "migrating" => opener[p].version <= userVersion
          /\ opener[p].pc = "open" => Supports[p] <= userVersion
    /\ unnamed => userVersion < NamingStep

(* Going somewhere changes nothing but where one is. *)
LEMMA GoesFields ==
    ASSUME opener \in Openings, NEW p \in Openers,
           NEW pc \in {"closed", "migrating", "open"}, Goes(p, pc)
    PROVE /\ opener' \in Openings
          /\ opener'[p].pc = pc
          /\ \A q \in Openers : q # p => opener'[q] = opener[q]
  <1>1. opener[p] \in [pc : {"closed", "migrating", "open"}, version : Nat,
                       rooted : BOOLEAN, opens : Nat]
    BY DEF Openings
  <1>2. [opener[p] EXCEPT !.pc = pc]
          \in [pc : {"closed", "migrating", "open"}, version : Nat, rooted : BOOLEAN, opens : Nat]
    BY <1>1
  <1>3. opener' = [opener EXCEPT ![p] = [opener[p] EXCEPT !.pc = pc]]
    BY DEF Goes
  <1>4. opener' \in Openings
    BY <1>2, <1>3 DEF Openings
  <1> QED BY <1>1, <1>3, <1>4 DEF Openings

(* A row with a number is there exactly for the numbers up to the version. *)
LEMMA AppliedUpTo ==
    ASSUME SchemaInv, NEW v \in Nat \ {0}
    PROVE Applied(v) <=> v <= userVersion
  BY DEF SchemaInv, Applied

(* The rows after one more step are again the numbers up to the version. *)
LEMMA NextRow ==
    ASSUME NEW n \in Nat
    PROVE Append([i \in 1..n |-> i], n + 1) = [i \in 1..(n + 1) |-> i]
  <1> DEFINE s == [i \in 1..n |-> i]
  <1>1. s \in Seq(Nat) /\ Len(s) = n
    OBVIOUS
  <1>2. /\ Append(s, n + 1) \in Seq(Nat)
        /\ Len(Append(s, n + 1)) = n + 1
        /\ \A i \in 1..n : Append(s, n + 1)[i] = s[i]
        /\ Append(s, n + 1)[n + 1] = n + 1
    <2> HIDE DEF s
    <2> QED BY <1>1
  <1>3. \A i \in 1..(n + 1) : Append(s, n + 1)[i] = i
    BY <1>2
  <1>4. Append(s, n + 1) = [i \in 1..(n + 1) |-> Append(s, n + 1)[i]]
    <2> HIDE DEF s
    <2> QED BY <1>2
  <1> QED BY <1>3, <1>4

LEMMA OpenFileKeeps ==
    ASSUME SchemaInv, NEW p \in Openers, NEW rooted \in BOOLEAN, OpenFile(p, rooted)
    PROVE SchemaInv'
  <1> DEFINE o == [pc |-> IF userVersion > Supports[p] THEN "closed" ELSE "migrating",
                   version |-> userVersion, rooted |-> rooted, opens |-> opener[p].opens + 1]
  <1>1. opener[p].opens + 1 \in Nat
    BY DEF SchemaInv, Openings
  <1>2. o \in [pc : {"closed", "migrating", "open"}, version : Nat, rooted : BOOLEAN, opens : Nat]
    BY <1>1, Zenon DEF SchemaInv
  <1>3. opener' = [opener EXCEPT ![p] = o]
    BY DEF OpenFile
  <1>4. o.pc # "open" /\ o.version = userVersion
    OBVIOUS
  <1> HIDE DEF o
  <1>5. opener' \in Openings
    BY <1>2, <1>3 DEF SchemaInv, Openings
  <1>6. \A q \in Openers : opener'[q] = IF q = p THEN o ELSE opener[q]
    BY <1>3 DEF SchemaInv, Openings
  <1> QED BY <1>4, <1>5, <1>6 DEF SchemaInv, OpenFile

LEMMA MigrateKeeps ==
    ASSUME SchemaInv, NEW p \in Openers, Migrate(p)
    PROVE SchemaInv'
  <1> DEFINE v == opener[p].version + 1
  <1>1. v \in Nat \ {0} /\ v <= userVersion + 1
    BY DEF SchemaInv, Migrate, Openings
  <1>2. CASE /\ Goes(p, "closed")
             /\ UNCHANGED <<userVersion, migrations, unnamed>>
    <2>1. /\ opener' \in Openings
          /\ opener'[p].pc = "closed"
          /\ \A q \in Openers : q # p => opener'[q] = opener[q]
      BY <1>2, GoesFields DEF SchemaInv
    <2> QED BY <1>2, <2>1 DEF SchemaInv
  <1>3. CASE /\ ~StepFails(p)
             /\ userVersion' = v
             /\ migrations' = Append(migrations, v)
             /\ unnamed' = (unnamed /\ v # NamingStep)
             /\ opener' = [opener EXCEPT ![p].version = v]
    <2>1. v = userVersion + 1
      <3>1. ~(v <= userVersion)
        BY <1>1, <1>3, AppliedUpTo DEF StepFails
      <3> QED BY <1>1, <3>1 DEF SchemaInv
    <2>2. migrations' = [i \in 1..userVersion' |-> i]
      BY <1>3, <2>1, NextRow DEF SchemaInv
    <2>3. /\ opener' \in Openings
          /\ opener'[p].version = v
          /\ opener'[p].pc = opener[p].pc
          /\ \A q \in Openers : q # p => opener'[q] = opener[q]
      BY <1>1, <1>3 DEF SchemaInv, Openings
    <2>4. opener[p].pc = "migrating"
      BY DEF Migrate
    <2>5. \A q \in Openers :
             /\ opener'[q].pc = "migrating" => opener'[q].version <= userVersion'
             /\ opener'[q].pc = "open" => Supports[q] <= userVersion'
      <3> SUFFICES ASSUME NEW q \in Openers
                   PROVE /\ opener'[q].pc = "migrating" => opener'[q].version <= userVersion'
                         /\ opener'[q].pc = "open" => Supports[q] <= userVersion'
        OBVIOUS
      <3>1. /\ opener[q].version \in Nat
            /\ Supports[q] \in Nat
        BY BootstrapAssumption DEF SchemaInv, Openings
      <3>2. CASE q = p
        BY <1>1, <1>3, <2>3, <2>4, <3>2
      <3>3. CASE q # p
        BY <1>1, <1>3, <2>1, <2>3, <3>1, <3>3 DEF SchemaInv
      <3> QED BY <3>2, <3>3
    <2>6. unnamed' \in BOOLEAN
      BY <1>3
    <2>7. unnamed' => userVersion' < NamingStep
      <3>1. unnamed' => unnamed /\ v # NamingStep
        BY <1>3, Zenon
      <3>2. userVersion \in Nat /\ NamingStep \in Nat
        BY BootstrapAssumption DEF SchemaInv
      <3>3. unnamed => userVersion < NamingStep
        BY DEF SchemaInv
      <3>4. userVersion' = userVersion + 1
        BY <1>3, <2>1
      <3>5. CASE unnamed'
        BY <1>3, <2>1, <3>1, <3>2, <3>3, <3>4, <3>5
      <3>6. CASE ~unnamed'
        BY <3>6
      <3> QED BY <3>5, <3>6
    <2> QED BY <1>1, <1>3, <2>2, <2>3, <2>5, <2>6, <2>7 DEF SchemaInv
  <1> QED BY <1>2, <1>3 DEF Migrate

LEMMA OpenedKeeps ==
    ASSUME SchemaInv, NEW p \in Openers, Opened(p) \/ CloseFile(p)
    PROVE SchemaInv'
  <1>1. UNCHANGED <<userVersion, migrations, unnamed>>
    BY DEF Opened, CloseFile
  <1>2. CASE Opened(p)
    <2>1. /\ opener' \in Openings
          /\ opener'[p].pc = "open"
          /\ \A q \in Openers : q # p => opener'[q] = opener[q]
      BY <1>2, GoesFields DEF SchemaInv, Opened
    <2>2. Supports[p] <= userVersion
      BY <1>2 DEF SchemaInv, Opened
    <2> QED BY <1>1, <2>1, <2>2 DEF SchemaInv
  <1>3. CASE CloseFile(p)
    <2>1. /\ opener' \in Openings
          /\ opener'[p].pc = "closed"
          /\ \A q \in Openers : q # p => opener'[q] = opener[q]
      BY <1>3, GoesFields DEF SchemaInv, CloseFile
    <2> QED BY <1>1, <2>1 DEF SchemaInv
  <1> QED BY <1>2, <1>3

(* However many processes open the file, every migration is applied once and in
   order, and a process works on the file only with the schema of its binary
   (Storage::bootstrap). *)
THEOREM SchemaSafety == BootstrapSpec => []SchemaBootstrapCorrect
  <1>1. BootstrapInit => SchemaInv
    <2> SUFFICES ASSUME BootstrapInit PROVE SchemaInv
      OBVIOUS
    <2>1. userVersion \in Nat /\ (unnamed => userVersion < NamingStep)
      BY BootstrapAssumption DEF BootstrapInit
    <2>2. Closed \in [pc : {"closed", "migrating", "open"}, version : Nat,
                      rooted : BOOLEAN, opens : Nat]
      BY DEF Closed
    <2>3. opener \in Openings /\ \A p \in Openers : opener[p].pc = "closed"
      BY <2>2 DEF BootstrapInit, Closed, Openings
    <2> QED BY <2>1, <2>3 DEF BootstrapInit, SchemaInv
  <1>2. SchemaInv /\ [BootstrapNext]_bootstrapVars => SchemaInv'
    <2> SUFFICES ASSUME SchemaInv, [BootstrapNext]_bootstrapVars PROVE SchemaInv'
      OBVIOUS
    <2>1. CASE UNCHANGED bootstrapVars
      BY <2>1 DEF bootstrapVars, SchemaInv
    <2>2. CASE BootstrapNext
      BY <2>2, OpenFileKeeps, MigrateKeeps, OpenedKeeps DEF BootstrapNext
    <2> QED BY <2>1, <2>2
  <1>3. SchemaInv => SchemaBootstrapCorrect
    <2> SUFFICES ASSUME SchemaInv PROVE SchemaBootstrapCorrect
      OBVIOUS
    <2>1. Len(migrations) = userVersion
      BY DEF SchemaInv
    <2>2. MigratedOnce
      BY <2>1 DEF SchemaInv, MigratedOnce
    <2>3. OpenIsCurrent
      BY AppliedUpTo, BootstrapAssumption DEF SchemaInv, OpenIsCurrent
    <2> QED BY <2>2, <2>3 DEF SchemaBootstrapCorrect
  <1> QED BY <1>1, <1>2, <1>3, PTL DEF BootstrapSpec

-----------------------------------------------------------------------------
(* The import of an older database *)

OlderRow == [turns : Seq({"running", "waiting", "over"}), cards : Nat]
ImportRow == [turns : Seq({"running", "waiting", "over", "interrupted"}), active : Nat,
              owned : BOOLEAN, brought : Nat, own : SUBSET Nat]

(* Of the older program's turns only the last one is at work. *)
OlderFits(o) == \A i \in 1..Len(o.turns) : o.turns[i] = "running" => i = Len(o.turns)

(* The active-turn row finds every turn at work that was brought with its session or
   opened here; the one of a turn opened here has its owner. *)
RowFits(r) ==
    /\ r.active <= Len(r.turns)
    /\ r.brought <= Len(r.turns)
    /\ r.own \subseteq 1..Len(r.turns)
    /\ \A i \in 1..Len(r.turns) : r.turns[i] = "running" /\ i <= r.brought => r.active = i
    /\ \A i \in 1..Len(r.turns) : r.turns[i] = "running" /\ i \in r.own => r.active = i
    /\ r.active \in r.own => r.owned

(* What was brought with the session is at work only with an owner. *)
RowQuiet(r) ==
    \A i \in 1..Len(r.turns) : r.turns[i] = "running" /\ i <= r.brought => r.owned

(* Once something was imported, every row under an identifier of the older database
   is one that an import brought; before, one that is there is met by the collision
   check. *)
ImportInv ==
    /\ older \in [Imported -> OlderRow]
    /\ \A s \in Imported : OlderFits(older[s])
    /\ rows \in [AnySession -> ImportRow]
    /\ \A s \in AnySession : RowFits(rows[s])
    /\ importer = "idle" => \A s \in AnySession : RowQuiet(rows[s])
    /\ imports # {} => \A s \in Imported : rows[s].turns # <<>> => rows[s].brought > 0
    /\ \A s \in Imported :
          rows[s].turns # <<>> /\ rows[s].brought = 0 => older[s].turns # <<>>
    /\ mixed = {}

(* What the steps do to one row, field by field. *)
LEMMA OlderFields ==
    ASSUME NEW o \in OlderRow
    PROVE /\ \A u \in Seq({"running", "waiting", "over"}) :
                 /\ [o EXCEPT !.turns = u] \in OlderRow
                 /\ [o EXCEPT !.turns = u].turns = u
          /\ \A k \in Nat :
                 /\ [o EXCEPT !.cards = k] \in OlderRow
                 /\ [o EXCEPT !.cards = k].turns = o.turns
  <1>1. \A u \in Seq({"running", "waiting", "over"}) : [o EXCEPT !.turns = u] \in OlderRow
    BY Zenon DEF OlderRow
  <1>2. \A k \in Nat : [o EXCEPT !.cards = k] \in OlderRow
    BY Zenon DEF OlderRow
  <1> QED BY <1>1, <1>2 DEF OlderRow

LEMMA Longer ==
    ASSUME NEW S, NEW t \in Seq(S), NEW e \in S
    PROVE /\ Append(t, e) \in Seq(S) /\ Len(Append(t, e)) = Len(t) + 1
          /\ Append(t, e) # <<>> /\ Append(t, e)[Len(t) + 1] = e
          /\ \A i \in 1..Len(t) : Append(t, e)[i] = t[i]
  <1>1. /\ Append(t, e) \in Seq(S) /\ Len(Append(t, e)) = Len(t) + 1
        /\ Append(t, e)[Len(t) + 1] = e
        /\ \A i \in 1..Len(t) : Append(t, e)[i] = t[i]
    OBVIOUS
  <1>2. Len(Append(t, e)) # 0
    BY <1>1
  <1> QED BY <1>1, <1>2

(* The older program appends a turn when none is at work, or moves the last one. *)
LEMMA OlderKeeps ==
    ASSUME ImportInv, NEW s \in Imported, OlderTurn(s) \/ OlderRound(s) \/ OlderStops(s)
    PROVE ImportInv'
  <1>1. UNCHANGED <<rows, imports, importer, mixed>>
    BY DEF OlderTurn, OlderRound, OlderStops
  <1>2. older[s] \in OlderRow /\ OlderFits(older[s])
    BY DEF ImportInv
  <1>3. PICK o \in OlderRow :
            /\ older' = [older EXCEPT ![s] = o]
            /\ OlderFits(o)
            /\ older[s].turns # <<>> => o.turns # <<>>
    <2> DEFINE t == older[s].turns
               k == older[s].cards
    <2>1. t \in Seq({"running", "waiting", "over"}) /\ k \in Nat
      BY <1>2 DEF OlderRow
    <2>3. CASE OlderTurn(s)
      <3> DEFINE u == Append(t, "running")
      <3>1. u \in Seq({"running", "waiting", "over"}) /\ Len(u) = Len(t) + 1 /\ u # <<>>
            /\ \A i \in 1..Len(t) : u[i] = t[i]
        BY <2>1, Longer
      <3>2. \A i \in 1..Len(t) : t[i] # "running"
        BY <1>2, <2>1, <2>3 DEF OlderTurn, OlderActive, OlderFits, AtWork
      <3>3. older' = [older EXCEPT ![s] = [older[s] EXCEPT !.turns = u]]
        BY <2>3 DEF OlderTurn
      <3> HIDE DEF u
      <3>4. [older[s] EXCEPT !.turns = u] \in OlderRow /\ [older[s] EXCEPT !.turns = u].turns = u
        BY <1>2, <3>1, OlderFields
      <3>5. OlderFits([older[s] EXCEPT !.turns = u])
        BY <2>1, <3>1, <3>2, <3>4 DEF OlderFits
      <3> QED BY <3>1, <3>3, <3>4, <3>5
    <2>4. CASE OlderRound(s)
      <3>1. older' = [older EXCEPT ![s] = [older[s] EXCEPT !.cards = k + 1]]
        BY <2>4 DEF OlderRound
      <3>2. /\ [older[s] EXCEPT !.cards = k + 1] \in OlderRow
            /\ [older[s] EXCEPT !.cards = k + 1].turns = t
        BY <1>2, <2>1, OlderFields
      <3>3. OlderFits([older[s] EXCEPT !.cards = k + 1])
        BY <1>2, <3>2 DEF OlderFits
      <3> QED BY <3>1, <3>2, <3>3
    <2>5. CASE OlderStops(s)
      <3>1. PICK life \in {"waiting", "over"} :
                older' = [older EXCEPT ![s].turns[OlderActive(s)] = life]
        BY <2>5 DEF OlderStops
      <3> DEFINE a == OlderActive(s)
      <3>7. PICK u : u = [t EXCEPT ![a] = life]
        OBVIOUS
      <3>2. /\ u \in Seq({"running", "waiting", "over"}) /\ Len(u) = Len(t)
            /\ \A i \in 1..Len(t) : u[i] = IF i = a THEN life ELSE t[i]
        <4> HIDE DEF a, t
        <4>1. life \in {"running", "waiting", "over"}
          OBVIOUS
        <4>2. t \in [1..Len(t) -> {"running", "waiting", "over"}] /\ Len(t) \in Nat
          BY <2>1
        <4>3. /\ u \in [1..Len(t) -> {"running", "waiting", "over"}]
              /\ \A i \in 1..Len(t) : u[i] = IF i = a THEN life ELSE t[i]
          BY <3>7, <4>1, <4>2
        <4>4. u \in Seq({"running", "waiting", "over"}) /\ Len(u) = Len(t)
          BY <4>2, <4>3
        <4> QED BY <4>3, <4>4
      <3>3. older' = [older EXCEPT ![s] = [older[s] EXCEPT !.turns = u]]
        BY <3>1, <3>7
      <3>4. t # <<>> => u # <<>>
        BY <2>1, <3>2
      <3>5. [older[s] EXCEPT !.turns = u] \in OlderRow /\ [older[s] EXCEPT !.turns = u].turns = u
        BY <1>2, <3>2, OlderFields
      <3>6. OlderFits([older[s] EXCEPT !.turns = u])
        BY <1>2, <2>1, <3>2, <3>5 DEF OlderFits
      <3> QED BY <3>3, <3>4, <3>5, <3>6
    <2> QED BY <2>3, <2>4, <2>5
  <1>4. \A q \in Imported : older'[q] = IF q = s THEN o ELSE older[q]
    BY <1>3 DEF ImportInv
  <1>5. older' \in [Imported -> OlderRow]
    BY <1>3 DEF ImportInv
  <1> QED BY <1>1, <1>3, <1>4, <1>5 DEF ImportInv, AnySession

(* One row is replaced by one of the same origin. *)
LEMMA RowMoves ==
    ASSUME ImportInv, NEW s \in AnySession, NEW n \in ImportRow,
           RowFits(n), RowQuiet(rows[s]) => RowQuiet(n),
           n.brought = rows[s].brought, rows[s].turns # <<>>,
           rows' = [rows EXCEPT ![s] = n],
           UNCHANGED <<older, imports, importer, mixed>>
    PROVE ImportInv'
  <1>1. /\ rows' \in [AnySession -> ImportRow]
        /\ \A q \in AnySession : rows'[q] = IF q = s THEN n ELSE rows[q]
    BY DEF ImportInv
  <1> QED BY <1>1 DEF ImportInv, AnySession

LEMMA NativeTurnKeeps ==
    ASSUME ImportInv, NEW s \in AnySession, NativeTurn(s)
    PROVE ImportInv'
  <1> DEFINE r == rows[s]
             k == Len(r.turns) + 1
             u == Append(r.turns, "running")
  <1>1. r \in ImportRow /\ RowFits(r) /\ r.turns # <<>> /\ r.active = 0
    BY DEF ImportInv, NativeTurn, Present
  <1>2. /\ r.turns \in Seq({"running", "waiting", "over", "interrupted"})
        /\ r.brought \in Nat /\ r.own \subseteq Nat
    BY <1>1 DEF ImportRow
  <1>3. /\ u \in Seq({"running", "waiting", "over", "interrupted"})
        /\ Len(u) = k /\ k \in Nat /\ u[k] = "running" /\ k = Len(r.turns) + 1
        /\ \A i \in 1..Len(r.turns) : u[i] = r.turns[i]
    BY <1>2, Longer
  <1>4. PICK n :
           /\ n = [r EXCEPT !.turns = u, !.active = k, !.owned = TRUE, !.own = r.own \cup {k}]
           /\ rows' = [rows EXCEPT ![s] = n]
    BY DEF NativeTurn
  <1>5. UNCHANGED <<older, imports, importer, mixed>>
    BY DEF NativeTurn
  <1> HIDE DEF u, k
  <1>6. r.own \cup {k} \in SUBSET Nat
    BY <1>2, <1>3
  <1>7. /\ n \in ImportRow /\ n.turns = u /\ n.active = k /\ n.owned
        /\ n.own = r.own \cup {k} /\ n.brought = r.brought
    <2>1. TRUE \in BOOLEAN
      OBVIOUS
    <2> DEFINE w == r.own \cup {k}
    <2>2. w \in SUBSET Nat /\ n = [r EXCEPT !.turns = u, !.active = k, !.owned = TRUE, !.own = w]
      BY <1>4, <1>6
    <2> HIDE DEF w
    <2>3. n \in ImportRow
      BY <1>1, <1>3, <2>1, <2>2, Zenon DEF ImportRow
    <2>4. n.turns = u /\ n.active = k /\ n.owned = TRUE /\ n.own = w /\ n.brought = r.brought
      BY <1>1, <2>2 DEF ImportRow
    <2> QED BY <2>3, <2>4 DEF w
  <1>8. RowFits(n)
    <2>1. \A i \in 1..Len(r.turns) :
             u[i] = "running" => ~(i <= r.brought) /\ i \notin r.own
      BY <1>1, <1>2, <1>3 DEF RowFits
    <2>2. \A i \in 1..k : i = k \/ i \in 1..Len(r.turns)
      BY <1>2, <1>3
    <2>3. r.brought <= Len(r.turns) /\ r.own \subseteq 1..Len(r.turns) /\ Len(r.turns) \in Nat
      BY <1>1, <1>2 DEF RowFits
    <2>4. \A i \in 1..k : u[i] = "running" /\ i <= r.brought => k = i
      BY <2>1, <2>2
    <2>5. \A i \in 1..k : u[i] = "running" /\ i \in r.own \cup {k} => k = i
      BY <2>1, <2>2
    <2>6. r.brought <= k /\ r.own \cup {k} \subseteq 1..k /\ k <= k
      BY <1>2, <1>3, <2>3
    <2> QED BY <1>3, <1>7, <2>4, <2>5, <2>6 DEF RowFits
  <1>9. RowQuiet(n)
    BY <1>7 DEF RowQuiet
  <1> QED BY <1>1, <1>4, <1>5, <1>7, <1>8, <1>9, RowMoves

(* The turn of the active-turn row stops, and the row goes. *)
LEMMA StoppedFits ==
    ASSUME NEW r \in ImportRow, RowFits(r), r.active # 0,
           NEW life \in {"over", "interrupted"}, NEW n,
           \/ n = [r EXCEPT !.turns[r.active] = life, !.active = 0, !.owned = FALSE]
           \/ ~r.owned /\ n = [r EXCEPT !.turns[r.active] = life, !.active = 0]
    PROVE /\ n \in ImportRow /\ RowFits(n) /\ RowQuiet(n)
          /\ n.brought = r.brought /\ r.turns # <<>>
  <1>0. PICK u : u = [r.turns EXCEPT ![r.active] = life]
    OBVIOUS
  <1>1. /\ r.turns \in Seq({"running", "waiting", "over", "interrupted"})
        /\ r.active \in Nat /\ r.brought \in Nat /\ r.own \subseteq Nat /\ r.owned \in BOOLEAN
    BY DEF ImportRow
  <1>2. /\ u \in Seq({"running", "waiting", "over", "interrupted"})
        /\ Len(u) = Len(r.turns)
        /\ \A i \in 1..Len(r.turns) : u[i] = IF i = r.active THEN life ELSE r.turns[i]
    <2>1. life \in {"running", "waiting", "over", "interrupted"}
      OBVIOUS
    <2> DEFINE L == {"running", "waiting", "over", "interrupted"}
    <2>2. r.turns \in [1..Len(r.turns) -> L] /\ Len(r.turns) \in Nat
      BY <1>1
    <2>3. /\ u \in [1..Len(r.turns) -> L]
          /\ \A i \in 1..Len(r.turns) : u[i] = IF i = r.active THEN life ELSE r.turns[i]
      BY <1>0, <2>1, <2>2
    <2>4. u \in Seq(L) /\ Len(u) = Len(r.turns)
      BY <2>2, <2>3
    <2> QED BY <2>3, <2>4
  <1>3. r.active \in 1..Len(r.turns)
    BY <1>1 DEF RowFits
  <1>4. r.turns # <<>>
    BY <1>1, <1>3
  <1>5. \/ n = [r EXCEPT !.turns = u, !.active = 0, !.owned = FALSE]
        \/ ~r.owned /\ n = [r EXCEPT !.turns = u, !.active = 0]
    BY <1>0
  <1>6. /\ n \in ImportRow /\ n.turns = u /\ n.active = 0 /\ ~n.owned
        /\ n.own = r.own /\ n.brought = r.brought
    <2>1. FALSE \in BOOLEAN /\ 0 \in Nat /\ r.own \in SUBSET Nat
      BY <1>1
    <2>2. CASE n = [r EXCEPT !.turns = u, !.active = 0, !.owned = FALSE]
      <3>1. n \in ImportRow
        BY <1>2, <2>1, <2>2, Zenon DEF ImportRow
      <3>2. /\ n.turns = u /\ n.active = 0 /\ n.owned = FALSE
            /\ n.own = r.own /\ n.brought = r.brought
        BY <2>2 DEF ImportRow
      <3> QED BY <3>1, <3>2
    <2>3. CASE ~r.owned /\ n = [r EXCEPT !.turns = u, !.active = 0]
      <3>1. r.owned = FALSE
        BY <1>1, <2>3
      <3>2. n \in ImportRow
        BY <1>2, <2>1, <2>3, Zenon DEF ImportRow
      <3>3. n.turns = u /\ n.active = 0 /\ n.owned = r.owned /\ n.own = r.own /\ n.brought = r.brought
        BY <2>3 DEF ImportRow
      <3> QED BY <3>1, <3>2, <3>3
    <2> QED BY <1>5, <2>2, <2>3
  <1>7. \A i \in 1..Len(u) : ~(u[i] = "running" /\ (i <= r.brought \/ i \in r.own))
    BY <1>1, <1>2 DEF RowFits
  <1>8. RowFits(n) /\ RowQuiet(n)
    BY <1>1, <1>2, <1>6, <1>7 DEF RowFits, RowQuiet
  <1> QED BY <1>4, <1>6, <1>8

LEMMA NativeStopsKeeps ==
    ASSUME ImportInv, NEW s \in AnySession, NativeStops(s)
    PROVE ImportInv'
  <1>1. rows[s] \in ImportRow /\ RowFits(rows[s]) /\ rows[s].active # 0
    BY DEF ImportInv, NativeStops
  <1>2. PICK n :
           /\ n = [rows[s] EXCEPT !.turns[rows[s].active] = "over", !.active = 0, !.owned = FALSE]
           /\ rows' = [rows EXCEPT ![s] = n]
    BY DEF NativeStops
  <1>3. /\ n \in ImportRow /\ RowFits(n) /\ RowQuiet(n)
        /\ n.brought = rows[s].brought /\ rows[s].turns # <<>>
    BY <1>1, <1>2, StoppedFits
  <1>4. UNCHANGED <<older, imports, importer, mixed>>
    BY DEF NativeStops
  <1> QED BY <1>2, <1>3, <1>4, RowMoves

(* The turns an import adds to a session that is there come after all it had; a
   session it brings has its active-turn row. *)
LEMMA CopiedFits ==
    ASSUME ImportInv, NEW s \in Held, ~Diverged
    PROVE /\ CopiedRow(s) \in ImportRow
          /\ RowFits(CopiedRow(s))
          /\ rows[s].turns # <<>> => CopiedRow(s).brought = rows[s].brought
          /\ rows[s].turns = <<>> => CopiedRow(s).brought > 0
  <1> DEFINE r == rows[s]
             o == older[s]
             c == CopiedRow(s)
             m == IF Len(r.turns) < Len(o.turns) THEN Len(o.turns) ELSE Len(r.turns)
             t == CopiedTurns(s)
  <1>1. r \in ImportRow /\ RowFits(r) /\ o \in OlderRow /\ OlderFits(o) /\ o.turns # <<>>
        /\ s \in AnySession
    BY DEF ImportInv, Held, AnySession
  <1>2. /\ r.turns \in Seq({"running", "waiting", "over", "interrupted"})
        /\ r.active \in Nat /\ r.brought \in Nat /\ r.own \subseteq Nat /\ r.owned \in BOOLEAN
        /\ o.turns \in Seq({"running", "waiting", "over"})
    BY <1>1 DEF ImportRow, OlderRow
  <1>3. /\ m \in Nat /\ Len(r.turns) <= m /\ Len(o.turns) <= m
        /\ Len(o.turns) > 0 /\ Len(o.turns) \in Nat /\ Len(r.turns) \in Nat
    BY <1>1, <1>2
  <1>4. /\ t = [i \in 1..m |-> IF i <= Len(r.turns) THEN r.turns[i] ELSE o.turns[i]]
        /\ \A i \in 1..m : ~(i <= Len(r.turns)) => i \in 1..Len(o.turns)
    BY <1>3 DEF CopiedTurns
  <1>5. t \in [1..m -> {"running", "waiting", "over", "interrupted"}]
    BY <1>2, <1>3, <1>4
  <1>6. t \in Seq({"running", "waiting", "over", "interrupted"}) /\ Len(t) = m
    BY <1>3, <1>5
  <1>7. OlderActive(s) \in 0..Len(o.turns)
    BY <1>2, <1>3 DEF OlderActive
  <1>8. c.turns = t /\ c.owned = r.owned /\ c.own = r.own
        /\ c.active = (IF r.active # 0 THEN r.active ELSE OlderActive(s))
        /\ c.brought = (IF r.turns # <<>> THEN r.brought ELSE Len(o.turns))
    BY <1>1 DEF CopiedRow, Present
  <1>9. /\ c.active \in Nat /\ c.active <= m
        /\ c.brought \in Nat /\ c.brought <= m
    <2>1. r.active <= Len(r.turns) /\ r.brought <= Len(r.turns)
      BY <1>1 DEF RowFits
    <2> HIDE DEF c, m
    <2> QED BY <1>2, <1>3, <1>7, <1>8, <2>1
  <1>10. c \in ImportRow
    BY <1>2, <1>6, <1>8, <1>9 DEF CopiedRow, ImportRow
  <1>11. \A i \in 1..m : t[i] = "running" /\ i <= c.brought => c.active = i
    <2> SUFFICES ASSUME NEW i \in 1..m, t[i] = "running", i <= c.brought
                 PROVE c.active = i
      OBVIOUS
    <2>1. CASE r.turns # <<>>
      <3>1. i <= Len(r.turns) /\ t[i] = r.turns[i] /\ i <= r.brought
        BY <1>1, <1>2, <1>3, <1>4, <1>8, <2>1 DEF RowFits
      <3>2. r.active = i
        BY <1>1, <1>2, <3>1 DEF RowFits
      <3> QED BY <1>8, <3>2
    <2>2. CASE r.turns = <<>>
      <3>1. r.active = 0
        BY <1>1, <1>2, <2>2 DEF RowFits
      <3>2. i \in 1..Len(o.turns) /\ o.turns[i] = "running"
        BY <1>4, <2>2
      <3>3. i = Len(o.turns)
        BY <1>1, <3>2 DEF OlderFits
      <3>4. OlderActive(s) = i
        BY <1>3, <3>2, <3>3 DEF OlderActive, AtWork
      <3> QED BY <1>8, <3>1, <3>4
    <2> QED BY <2>1, <2>2
  <1>12. \A i \in 1..m : t[i] = "running" /\ i \in c.own => c.active = i
    BY <1>1, <1>2, <1>4, <1>8 DEF RowFits
  <1>13. c.active \in c.own => c.owned
    <2>1. OlderActive(s) # 0 => OlderActive(s) = Len(o.turns)
      BY DEF OlderActive
    <2>2. 0 \notin r.own
      BY <1>1 DEF RowFits
    <2>3. Len(o.turns) \notin r.own
      BY <1>3 DEF Diverged
    <2> QED BY <1>1, <1>8, <2>1, <2>2, <2>3 DEF RowFits
  <1>14. RowFits(c)
    <2>1. c.own \subseteq 1..m
      BY <1>1, <1>3, <1>8 DEF RowFits
    <2> QED BY <1>6, <1>8, <1>9, <1>11, <1>12, <1>13, <2>1 DEF RowFits
  <1> QED BY <1>3, <1>8, <1>10, <1>14

(* The collision check of the first import is what later imports rest on. *)
LEMMA CopyKeeps ==
    ASSUME ImportInv, Copy
    PROVE ImportInv'
  <1>1. \A s \in Held \cap Present : rows[s].brought \in Nat /\ rows[s].brought > 0
    <2>1. Held \subseteq Imported
      BY DEF Held
    <2>2. \A s \in AnySession : rows[s].brought \in Nat
      BY DEF ImportInv, ImportRow
    <2> QED BY <2>1, <2>2 DEF ImportInv, Copy, IdsCollide, Present
  <1>2. mixed' = {}
    BY <1>1 DEF Copy, ImportInv
  <1>3. /\ older' = older /\ imports' # {} /\ importer' # "idle"
        /\ Held \subseteq Imported /\ ~Diverged
        /\ \A s \in AnySession : rows'[s] = IF s \in Held THEN CopiedRow(s) ELSE rows[s]
    BY DEF Copy, Held
  <1>4. \A s \in AnySession : rows'[s] \in ImportRow /\ RowFits(rows'[s])
    BY <1>3, CopiedFits DEF ImportInv
  <1>5. rows' \in [AnySession -> ImportRow]
    BY <1>4 DEF Copy
  <1>6. \A s \in Imported : rows'[s].turns # <<>> => rows'[s].brought > 0
    <2> SUFFICES ASSUME NEW s \in Imported, rows'[s].turns # <<>>
                 PROVE rows'[s].brought > 0
      OBVIOUS
    <2>1. s \in AnySession
      BY DEF AnySession
    <2>2. CASE s \in Held
      BY <1>1, <1>3, <2>1, <2>2, CopiedFits DEF Present
    <2>3. CASE s \notin Held
      <3>1. rows'[s] = rows[s] /\ older[s].turns = <<>> /\ rows[s].brought \in Nat
        BY <1>3, <2>1, <2>3 DEF Held, ImportInv, ImportRow
      <3> QED BY <3>1 DEF ImportInv
    <2> QED BY <2>2, <2>3
  <1>7. \A s \in Imported : rows'[s].brought = 0 => rows'[s].turns = <<>>
    BY <1>6
  <1> QED BY <1>2, <1>3, <1>4, <1>5, <1>6, <1>7 DEF ImportInv

(* recover_at finds through its row every turn at work that was brought with its
   session. *)
LEMMA SettleKeeps ==
    ASSUME ImportInv, SettleImported
    PROVE ImportInv' /\ \A s \in AnySession : RowQuiet(rows'[s])
  <1>1. \A s \in AnySession :
           /\ rows'[s] \in ImportRow
           /\ RowFits(rows'[s])
           /\ RowQuiet(rows'[s])
           /\ rows'[s].brought = rows[s].brought
           /\ rows'[s].turns # <<>> => rows[s].turns # <<>>
    <2> SUFFICES ASSUME NEW s \in AnySession
                 PROVE /\ rows'[s] \in ImportRow
                       /\ RowFits(rows'[s])
                       /\ RowQuiet(rows'[s])
                       /\ rows'[s].brought = rows[s].brought
                       /\ rows'[s].turns # <<>> => rows[s].turns # <<>>
      OBVIOUS
    <2>1. rows[s] \in ImportRow /\ RowFits(rows[s])
      BY DEF ImportInv
    <2>2. CASE Stranded(s)
      <3>1. rows[s].active # 0 /\ ~rows[s].owned
        BY <2>2 DEF Stranded
      <3>2. rows'[s] = [rows[s] EXCEPT !.turns[rows[s].active] = "interrupted", !.active = 0]
        BY <2>2 DEF SettleImported
      <3> QED BY <2>1, <3>1, <3>2, StoppedFits
    <2>3. CASE ~Stranded(s)
      <3>1. rows'[s] = rows[s]
        BY <2>3 DEF SettleImported
      <3>2. rows[s].owned \in BOOLEAN /\ rows[s].active \in Nat
        BY <2>1 DEF ImportRow
      <3>3. RowQuiet(rows[s])
        BY <2>1, <2>3, <3>2 DEF RowQuiet, RowFits, Stranded
      <3> QED BY <2>1, <3>1, <3>3
    <2> QED BY <2>2, <2>3
  <1>2. rows' \in [AnySession -> ImportRow] /\ UNCHANGED <<older, imports, mixed>>
    BY <1>1 DEF SettleImported
  <1> QED BY <1>1, <1>2 DEF ImportInv, AnySession

(* No session of the global database is taken for another one with its identifier;
   and once an import is over, a turn is at work without an owner only if a later
   import than the one that brought its session added it, and never one opened in the
   global database (import_legacy_database, recover_at). *)
THEOREM ImportSafety == ImportSpec => []LegacyImportCorrect
  <1>1. ImportInit => ImportInv
    <2> SUFFICES ASSUME ImportInit PROVE ImportInv
      OBVIOUS
    <2>1. <<"running">> \in Seq({"running", "waiting", "over"}) /\ Len(<<"running">>) = 1
      OBVIOUS
    <2>2. <<>> \in Seq({"running", "waiting", "over"}) /\ Len(<<>>) = 0
      OBVIOUS
    <2>3. /\ [turns |-> <<>>, cards |-> 0] \in OlderRow
          /\ [turns |-> <<"running">>, cards |-> 0] \in OlderRow
          /\ OlderFits([turns |-> <<>>, cards |-> 0])
          /\ OlderFits([turns |-> <<"running">>, cards |-> 0])
      BY <2>1, <2>2 DEF OlderRow, OlderFits
    <2>4. older \in [Imported -> OlderRow] /\ \A s \in Imported : OlderFits(older[s])
      BY <2>3 DEF ImportInit
    <2>5. NoRow \in ImportRow /\ RowFits(NoRow) /\ RowQuiet(NoRow) /\ NoRow.turns = <<>>
      BY DEF NoRow, ImportRow, RowFits, RowQuiet
    <2>6. NativeRow \in ImportRow /\ RowFits(NativeRow) /\ RowQuiet(NativeRow)
      BY DEF NativeRow, ImportRow, RowFits, RowQuiet
    <2>7. PICK clash \in SUBSET {s \in Imported : older[s].turns # <<>>} :
              rows = [s \in AnySession |-> IF s \in Native \cup clash THEN NativeRow ELSE NoRow]
      BY DEF ImportInit
    <2>8. \A s \in Imported :
              rows[s].turns # <<>> /\ rows[s].brought = 0 => older[s].turns # <<>>
      BY <2>5, <2>7, ImportAssumption DEF AnySession
    <2>9. /\ rows \in [AnySession -> ImportRow]
          /\ \A s \in AnySession : RowFits(rows[s]) /\ RowQuiet(rows[s])
      BY <2>5, <2>6, <2>7
    <2> QED BY <2>4, <2>8, <2>9 DEF ImportInit, ImportInv
  <1>2. ImportInv /\ [ImportNext]_importVars => ImportInv'
    <2> SUFFICES ASSUME ImportInv, [ImportNext]_importVars PROVE ImportInv'
      OBVIOUS
    <2>1. CASE UNCHANGED importVars
      BY <2>1 DEF importVars, ImportInv, AnySession
    <2>2. CASE Copy
      BY <2>2, CopyKeeps
    <2>3. CASE FinishImport \/ OpenAgain
      BY <2>3, SettleKeeps DEF FinishImport, OpenAgain
    <2>4. CASE AbandonImport
      BY <2>4 DEF AbandonImport, ImportInv, AnySession
    <2>5. ASSUME NEW s \in Imported, OlderTurn(s) \/ OlderRound(s) \/ OlderStops(s)
          PROVE ImportInv'
      BY <2>5, OlderKeeps
    <2>6. ASSUME NEW s \in AnySession, NativeTurn(s) \/ NativeStops(s)
          PROVE ImportInv'
      BY <2>6, NativeTurnKeeps, NativeStopsKeeps
    <2> QED BY <2>1, <2>2, <2>3, <2>4, <2>5, <2>6 DEF ImportNext
  <1>3. ImportInv => LegacyImportCorrect
    <2> SUFFICES ASSUME ImportInv, importer = "idle", NEW s \in AnySession
                 PROVE /\ \A i \in DOMAIN rows[s].turns :
                             rows[s].turns[i] = "running" /\ ~Tended(s, i)
                             => i > rows[s].brought /\ i \notin rows[s].own
                       /\ rows[s].active \in rows[s].own => Tended(s, rows[s].active)
      BY DEF ImportInv, LegacyImportCorrect, NothingMixed, OnlyLateTurnsAreLeft, Present
    <2>1. rows[s] \in ImportRow /\ RowFits(rows[s]) /\ RowQuiet(rows[s])
      BY DEF ImportInv
    <2>2. /\ rows[s].turns \in Seq({"running", "waiting", "over", "interrupted"})
          /\ rows[s].brought \in Nat
      BY <2>1 DEF ImportRow
    <2>3. DOMAIN rows[s].turns = 1..Len(rows[s].turns)
      BY <2>2
    <2> QED BY <2>1, <2>2, <2>3 DEF RowFits, RowQuiet, Tended
  <1> QED BY <1>1, <1>2, <1>3, PTL DEF ImportSpec

-----------------------------------------------------------------------------
(* The event stream *)

(* Something is still under way to the observer. *)
Awake ==
    \/ ~connected
    \/ streamLag
    \/ \E i \in DOMAIN stream : stream[i] # "progress"
    \/ engineLag[HomeOf[Watched]]
    \/ engineLine[HomeOf[Watched]] # <<>>
    \/ \E s \in Sessions : HomeOf[s] = HomeOf[Watched] /\ unsent[s] > 0

(* Before the session is asked for there is nothing of it. *)
EventInv ==
    /\ EventTypeOK
    /\ observer \in {"setup", "create"} => phase[Watched] = "absent" /\ unsent[Watched] = 0
    /\ observer = "wait" /\ phase[Watched] = "ended" /\ Watched \notin unheard => Awake

(* A full channel drops its oldest entry for the new one. *)
LEMMA SentFields ==
    ASSUME NEW S, NEW line \in Seq(S), NEW e \in S, NEW capacity \in Nat \ {0},
           Len(line) <= capacity
    PROVE LET n == Sent(line, e, capacity) IN
          /\ n \in Seq(S)
          /\ Len(n) <= capacity
          /\ Len(n) \in DOMAIN n /\ n[Len(n)] = e
          /\ n # <<>>
          /\ ~Overflows(line, capacity) =>
                \A i \in DOMAIN line : i \in DOMAIN n /\ n[i] = line[i]
  <1>1. CASE Len(line) < capacity
    <2>1. Sent(line, e, capacity) = Append(line, e)
      BY <1>1 DEF Sent
    <2> QED BY <1>1, <2>1 DEF Overflows
  <1>2. CASE Len(line) = capacity
    <2>1. Sent(line, e, capacity) = Append(Tail(line), e)
      BY <1>2 DEF Sent
    <2>2. line # <<>> /\ Tail(line) \in Seq(S) /\ Len(Tail(line)) = capacity - 1
      BY <1>2
    <2> DEFINE tail == Tail(line)
    <2> HIDE DEF tail
    <2>3. Append(tail, e) \in Seq(S) /\ Len(Append(tail, e)) = capacity
          /\ Append(tail, e)[capacity] = e /\ Append(tail, e) # <<>>
      BY <2>2 DEF tail
    <2> QED BY <1>2, <2>1, <2>3 DEF tail, Overflows
  <1> QED BY <1>1, <1>2

(* What reaches the stream of the observer keeps its type, wakes the observer unless
   it is progress, and loses no wake-up: when one is dropped the lag is told. *)
LEMMA StreamFields ==
    ASSUME EventTypeOK, NEW w \in Workspaces, NEW e \in Events, ToStream(w, e)
    PROVE /\ stream' \in Seq(Events) /\ Len(stream') <= StreamCapacity
          /\ streamLag' \in BOOLEAN /\ connected' = connected
          /\ (\E i \in DOMAIN stream : stream[i] # "progress") \/ streamLag =>
                (\E i \in DOMAIN stream' : stream'[i] # "progress") \/ streamLag'
          /\ connected /\ w = HomeOf[Watched] /\ e # "progress" =>
                \E i \in DOMAIN stream' : stream'[i] # "progress"
  <1>1. /\ stream \in Seq(Events) /\ Len(stream) <= StreamCapacity
        /\ StreamCapacity \in Nat \ {0} /\ streamLag \in BOOLEAN
    BY EventAssumption DEF EventTypeOK
  <1>2. CASE connected /\ w = HomeOf[Watched]
    <2>1. /\ stream' = Sent(stream, e, StreamCapacity)
          /\ streamLag' = (streamLag \/ Overflows(stream, StreamCapacity))
          /\ UNCHANGED connected
      BY <1>2 DEF ToStream
    <2>2. /\ stream' \in Seq(Events) /\ Len(stream') <= StreamCapacity
          /\ Len(stream') \in DOMAIN stream' /\ stream'[Len(stream')] = e
          /\ ~Overflows(stream, StreamCapacity) =>
                \A i \in DOMAIN stream : i \in DOMAIN stream' /\ stream'[i] = stream[i]
      BY <1>1, <2>1, SentFields
    <2>3. streamLag' \in BOOLEAN
      BY <1>1, <2>1 DEF Overflows
    <2>4. (\E i \in DOMAIN stream : stream[i] # "progress") \/ streamLag =>
              (\E i \in DOMAIN stream' : stream'[i] # "progress") \/ streamLag'
      BY <2>1, <2>2, Zenon
    <2> QED BY <2>1, <2>2, <2>3, <2>4
  <1>3. CASE ~(connected /\ w = HomeOf[Watched])
    BY <1>1, <1>3 DEF ToStream, streamVars
  <1> QED BY <1>2, <1>3

LEMMA CommitKeeps ==
    ASSUME EventInv, NEW s \in Sessions,
           (\E next \in {"running", "ended"} : Commit(s, next)) \/ FollowUp(s)
    PROVE EventInv'
  <1>1. /\ unsent[s] < MaxUnsent
        /\ unsent' \in {unsent, [unsent EXCEPT ![s] = @ + 1]}
        /\ UNCHANGED <<engineLine, engineLag, stream, streamLag, connected, observer>>
    BY DEF Commit, FollowUp, engineVars, streamVars
  <1>2. PICK next \in Phases :
          /\ phase' = [phase EXCEPT ![s] = next]
          /\ next = "ended" => s \in unheard' \/ unsent' = [unsent EXCEPT ![s] = @ + 1]
    BY DEF Commit, FollowUp, Phases
  <1>3. phase[s] = "running" \/ (s # Watched)
    BY DEF Commit, FollowUp
  <1>4. /\ unsent' \in [Sessions -> 0..MaxUnsent]
        /\ unsent' = [unsent EXCEPT ![s] = @ + 1] => unsent'[s] > 0
        /\ \A q \in Sessions : q # s => unsent'[q] = unsent[q]
    <2>1. unsent \in [Sessions -> 0..MaxUnsent] /\ MaxUnsent \in Nat
      BY EventAssumption DEF EventInv, EventTypeOK
    <2>2. CASE unsent' = unsent /\ unsent' # [unsent EXCEPT ![s] = @ + 1]
      BY <2>1, <2>2
    <2>3. CASE unsent' = [unsent EXCEPT ![s] = @ + 1]
      BY <1>1, <2>1, <2>3
    <2> QED BY <1>1, <2>2, <2>3
  <1>5. phase' \in [Sessions -> Phases] /\ phase'[s] = next
        /\ \A q \in Sessions : q # s => phase'[q] = phase[q]
    BY <1>2 DEF EventInv, EventTypeOK
  <1>6. /\ unheard' \subseteq Sessions
        /\ \A q \in Sessions : q # s => (q \in unheard' <=> q \in unheard)
    BY DEF Commit, FollowUp, EventInv, EventTypeOK
  <1>7. EventTypeOK'
    BY <1>1, <1>4, <1>5, <1>6 DEF EventInv, EventTypeOK
  <1>8. Watched \in Sessions
    BY EventAssumption
  <1>9. observer' \in {"setup", "create"} => phase'[Watched] = "absent" /\ unsent'[Watched] = 0
    BY <1>1, <1>3, <1>4, <1>5, <1>8 DEF EventInv
  <1>10. observer' = "wait" /\ phase'[Watched] = "ended" /\ Watched \notin unheard' => Awake'
    <2>1. CASE s = Watched
      BY <1>1, <1>2, <1>4, <1>5, <1>8, <2>1 DEF Awake
    <2>2. CASE s # Watched
      <3>1. \A q \in Sessions : unsent[q] > 0 => unsent'[q] > 0
        BY <1>1, <1>4
      <3>2. phase'[Watched] = phase[Watched] /\ (Watched \in unheard' <=> Watched \in unheard)
        BY <1>5, <1>6, <1>8, <2>2
      <3> QED BY <1>1, <3>1, <3>2 DEF EventInv, Awake
    <2> QED BY <2>1, <2>2
  <1> QED BY <1>7, <1>9, <1>10 DEF EventInv

LEMMA AnnounceKeeps ==
    ASSUME EventInv, NEW s \in Sessions, Announce(s)
    PROVE EventInv'
  <1> DEFINE w == HomeOf[s]
  <1>1. w \in Workspaces /\ HomeOf[Watched] \in Workspaces /\ Watched \in Sessions
    BY EventAssumption
  <1>2. /\ engineLine[w] \in Seq(Sessions) /\ Len(engineLine[w]) <= EngineCapacity
        /\ EngineCapacity \in Nat \ {0}
    BY <1>1, EventAssumption DEF EventInv, EventTypeOK
  <1> DEFINE n == Sent(engineLine[w], s, EngineCapacity)
  <1>3. n \in Seq(Sessions) /\ Len(n) <= EngineCapacity /\ n # <<>>
    BY <1>2, SentFields
  <1>4. engineLine' = [engineLine EXCEPT ![w] = n]
    BY DEF Announce
  <1>w. w = HomeOf[s]
    OBVIOUS
  <1> HIDE DEF w, n
  <1>5. /\ engineLine' \in [Workspaces -> Seq(Sessions)]
        /\ \A v \in Workspaces : Len(engineLine'[v]) <= EngineCapacity
        /\ engineLine'[w] # <<>>
        /\ \A v \in Workspaces : v # w => engineLine'[v] = engineLine[v]
    BY <1>1, <1>3, <1>4 DEF EventInv, EventTypeOK
  <1>6. engineLag' \in [Workspaces -> BOOLEAN]
    BY Zenon DEF Announce, EventInv, EventTypeOK, Overflows
  <1>7. /\ unsent' \in [Sessions -> 0..MaxUnsent]
        /\ \A q \in Sessions : unsent[q] = 0 => unsent'[q] = 0
        /\ \A q \in Sessions : q # s => unsent'[q] = unsent[q]
    BY EventAssumption DEF Announce, EventInv, EventTypeOK
  <1>8. UNCHANGED <<phase, stream, streamLag, connected, observer, unheard>>
    BY DEF Announce, streamVars
  <1>9. EventTypeOK'
    BY <1>5, <1>6, <1>7, <1>8 DEF EventInv, EventTypeOK
  <1>10. Awake => Awake'
    <2>1. CASE w = HomeOf[Watched]
      BY <1>1, <1>5, <2>1 DEF Awake
    <2>2. CASE w # HomeOf[Watched]
      <3>1. engineLag'[HomeOf[Watched]] = engineLag[HomeOf[Watched]]
        <4> DEFINE v == HomeOf[Watched]
        <4>1. v \in Workspaces /\ v # w
          BY <1>1, <2>2
        <4> HIDE DEF v
        <4>2. engineLag' = [engineLag EXCEPT ![w] =
                               engineLag[w] \/ Overflows(engineLine[w], EngineCapacity)]
          BY <1>w, Zenon DEF Announce
        <4>3. engineLag'[v] = engineLag[v]
          BY <4>1, <4>2, Zenon DEF EventInv, EventTypeOK
        <4> QED BY <4>3 DEF v
      <3>2. \A q \in Sessions :
               HomeOf[q] = HomeOf[Watched] /\ unsent[q] > 0 => unsent'[q] > 0
        BY <1>7, <1>w, <2>2
      <3>3. engineLine'[HomeOf[Watched]] = engineLine[HomeOf[Watched]]
        BY <1>1, <1>5, <2>2
      <3> QED BY <1>8, <3>1, <3>2, <3>3 DEF Awake
    <2> QED BY <2>1, <2>2
  <1> QED BY <1>1, <1>7, <1>8, <1>9, <1>10 DEF EventInv

LEMMA DirectEventKeeps ==
    ASSUME EventInv, NEW s \in Sessions, NEW e \in {"progress", "session_changed"}, Direct(s, e)
    PROVE EventInv'
  <1>1. HomeOf[s] \in Workspaces /\ e \in Events /\ ToStream(HomeOf[s], e)
    BY EventAssumption DEF Direct, Events
  <1>2. UNCHANGED <<phase, unsent, engineLine, engineLag, observer, unheard>>
    BY DEF Direct, engineVars
  <1>3. /\ stream' \in Seq(Events) /\ Len(stream') <= StreamCapacity
        /\ streamLag' \in BOOLEAN /\ connected' = connected
        /\ (\E i \in DOMAIN stream : stream[i] # "progress") \/ streamLag =>
              (\E i \in DOMAIN stream' : stream'[i] # "progress") \/ streamLag'
    BY <1>1, StreamFields DEF EventInv
  <1>4. EventTypeOK'
    BY <1>2, <1>3 DEF EventInv, EventTypeOK
  <1>5. Awake => Awake'
    BY <1>2, <1>3 DEF Awake
  <1> QED BY <1>2, <1>4, <1>5 DEF EventInv

LEMMA LoseOwnerKeeps ==
    ASSUME EventInv, NEW s \in Sessions, LoseOwner(s)
    PROVE EventInv'
  <1>1. UNCHANGED <<unsent, engineLine, engineLag, stream, streamLag, connected, observer,
                    unheard>>
    BY DEF LoseOwner, engineVars, streamVars
  <1>2. /\ phase' \in [Sessions -> Phases]
        /\ phase'[Watched] # phase[Watched] =>
               phase[Watched] = "running" /\ phase'[Watched] = "orphan"
    BY EventAssumption DEF LoseOwner, EventInv, EventTypeOK, Phases
  <1>3. EventTypeOK'
    BY <1>1, <1>2 DEF EventInv, EventTypeOK
  <1>4. Awake => Awake'
    BY <1>1 DEF Awake
  <1> QED BY <1>1, <1>2, <1>3, <1>4 DEF EventInv

(* A recovery ends the orphans; each of them has its event still to be sent, or is noted
   as announced to nobody. *)
LEMMA SweepKeeps ==
    ASSUME EventInv, (\E w \in Workspaces : Sweep(w)) \/ RecoveredByOpening
    PROVE EventInv'
  <1>1. /\ UNCHANGED <<engineLine, engineLag, stream, streamLag, connected, observer>>
        /\ phase' = Recovered
    BY DEF Sweep, RecoveredByOpening, engineVars, streamVars
  <1>2. PICK told \in SUBSET Orphans :
          /\ unsent' = [s \in Sessions |-> IF s \in told THEN unsent[s] + 1 ELSE unsent[s]]
          /\ \A s \in told : unsent[s] < MaxUnsent
          /\ unheard' = unheard \cup (Orphans \ told)
    <2>1. CASE RecoveredByOpening
      <3>1. {} \in SUBSET Orphans /\ unheard' = unheard \cup (Orphans \ {})
        BY <2>1 DEF RecoveredByOpening
      <3>2. unsent' = [s \in Sessions |-> IF s \in {} THEN unsent[s] + 1 ELSE unsent[s]]
        BY <2>1 DEF RecoveredByOpening, EventInv, EventTypeOK
      <3> QED BY <3>1, <3>2
    <2>2. CASE \E w \in Workspaces : Sweep(w)
      <3>1. PICK w \in Workspaces : Sweep(w)
        BY <2>2
      <3>2. AnnouncedBySweep(w) \subseteq SUBSET Orphans
        BY DEF AnnouncedBySweep
      <3> QED BY <3>1, <3>2 DEF Sweep
    <2> QED BY <2>1, <2>2
  <1>3. \A s \in told : s \in Sessions
    BY DEF Orphans
  <1>5. /\ unsent' \in [Sessions -> 0..MaxUnsent]
        /\ \A s \in Sessions : unsent[s] > 0 => unsent'[s] > 0
        /\ \A s \in told : unsent'[s] > 0
        /\ \A s \in Sessions : s \notin told => unsent'[s] = unsent[s]
    <2>1. \A s \in Sessions : unsent[s] \in 0..MaxUnsent
      BY DEF EventInv, EventTypeOK
    <2>2. \A s \in Sessions : unsent'[s] = IF s \in told THEN unsent[s] + 1 ELSE unsent[s]
      BY <1>2
    <2>4. MaxUnsent \in Nat
      BY EventAssumption
    <2>5. \A s \in Sessions : unsent'[s] \in 0..MaxUnsent
      BY <1>2, <2>1, <2>2, <2>4
    <2> QED BY <1>2, <1>3, <2>1, <2>2, <2>4, <2>5
  <1>6. /\ phase' \in [Sessions -> Phases]
        /\ \A s \in Sessions : s \notin Orphans => phase'[s] = phase[s]
        /\ unheard' \subseteq Sessions
    BY <1>1, <1>2 DEF Recovered, Orphans, EventInv, EventTypeOK, Phases
  <1>7. EventTypeOK'
    BY <1>1, <1>5, <1>6 DEF EventInv, EventTypeOK
  <1>8. Watched \in Sessions
    BY EventAssumption
  <1>9. observer' \in {"setup", "create"} => phase'[Watched] = "absent" /\ unsent'[Watched] = 0
    BY <1>1, <1>5, <1>6, <1>8 DEF EventInv, Orphans
  <1>10. observer' = "wait" /\ phase'[Watched] = "ended" /\ Watched \notin unheard' => Awake'
    <2>1. CASE Watched \in Orphans
      BY <1>2, <1>5, <1>8, <2>1 DEF Awake
    <2>2. CASE Watched \notin Orphans
      BY <1>1, <1>2, <1>5, <1>6, <1>8, <2>2 DEF EventInv, Awake
    <2> QED BY <2>1, <2>2
  <1> QED BY <1>7, <1>9, <1>10 DEF EventInv

LEMMA BridgeKeeps ==
    ASSUME EventInv, NEW w \in Workspaces, Bridge(w)
    PROVE EventInv'
  <1>1. UNCHANGED <<phase, unsent, observer, unheard>> /\ HomeOf[Watched] \in Workspaces
    BY EventAssumption DEF Bridge
  <1>2. PICK e \in {"resync_required", "session_changed"} : ToStream(w, e)
    BY DEF Bridge
  <1>3. /\ stream' \in Seq(Events) /\ Len(stream') <= StreamCapacity
        /\ streamLag' \in BOOLEAN /\ connected' = connected
        /\ (\E i \in DOMAIN stream : stream[i] # "progress") \/ streamLag =>
              (\E i \in DOMAIN stream' : stream'[i] # "progress") \/ streamLag'
        /\ connected /\ w = HomeOf[Watched] => \E i \in DOMAIN stream' : stream'[i] # "progress"
    <2>1. e \in Events /\ e # "progress"
      BY DEF Events
    <2> QED BY <1>1, <1>2, <2>1, StreamFields DEF EventInv
  <1>4. /\ engineLag' \in [Workspaces -> BOOLEAN]
        /\ \A v \in Workspaces : v # w => engineLag'[v] = engineLag[v]
    BY Zenon DEF Bridge, EventInv, EventTypeOK
  <1>5. /\ engineLine' \in [Workspaces -> Seq(Sessions)]
        /\ \A v \in Workspaces : Len(engineLine'[v]) <= EngineCapacity
        /\ \A v \in Workspaces : v # w => engineLine'[v] = engineLine[v]
    <2>1. CASE UNCHANGED engineLine
      BY <2>1 DEF EventInv, EventTypeOK
    <2>2. CASE engineLine[w] # <<>> /\ engineLine' = [engineLine EXCEPT ![w] = Tail(engineLine[w])]
      <3>1. engineLine[w] \in Seq(Sessions) /\ Len(engineLine[w]) <= EngineCapacity
        BY DEF EventInv, EventTypeOK
      <3>2. /\ Tail(engineLine[w]) \in Seq(Sessions)
            /\ Len(Tail(engineLine[w])) <= EngineCapacity
        BY <2>2, <3>1, EventAssumption
      <3> QED BY <2>2, <3>2 DEF EventInv, EventTypeOK
    <2> QED BY <2>1, <2>2 DEF Bridge
  <1>6. EventTypeOK'
    BY <1>1, <1>3, <1>4, <1>5 DEF EventInv, EventTypeOK
  <1>7. Awake => Awake'
    <2>1. CASE w = HomeOf[Watched]
      BY <1>3, <2>1 DEF Awake
    <2>2. CASE w # HomeOf[Watched]
      <3>1. engineLine'[HomeOf[Watched]] = engineLine[HomeOf[Watched]]
        BY <1>1, <1>5, <2>2
      <3>2. engineLag'[HomeOf[Watched]] = engineLag[HomeOf[Watched]]
        <4> DEFINE v == HomeOf[Watched]
        <4>1. v \in Workspaces /\ v # w
          BY <1>1, <2>2
        <4> HIDE DEF v
        <4>2. engineLag'[v] = engineLag[v]
          BY <1>4, <4>1
        <4> QED BY <4>2 DEF v
      <3> QED BY <1>1, <1>3, <3>1, <3>2 DEF Awake
    <2> QED BY <2>1, <2>2
  <1> QED BY <1>1, <1>6, <1>7 DEF EventInv

(* The client looks at the session after every opening, so it begins to wait only
   for a session that it has seen at work. *)
LEMMA ObserverKeeps ==
    ASSUME EventInv,
           Setup \/ CreateSession \/ CheckTerminal \/ OpenEvents \/ CancelSession
              \/ StreamEnds \/ Interrupt \/ RequestFails
    PROVE EventInv'
  <1>1. UNCHANGED <<engineVars, unheard>>
    BY DEF Setup, CreateSession, CheckTerminal, OpenEvents, CancelSession, StreamEnds,
           Interrupt, RequestFails
  <1>2. UNCHANGED streamVars \/ (stream' = <<>> /\ streamLag' = FALSE /\ connected' \in BOOLEAN)
    BY DEF Setup, CreateSession, CheckTerminal, OpenEvents, CancelSession, StreamEnds,
           Interrupt, RequestFails
  <1>3. /\ stream' \in Seq(Events) /\ Len(stream') <= StreamCapacity
        /\ streamLag' \in BOOLEAN /\ connected' \in BOOLEAN
    <2>1. CASE UNCHANGED streamVars
      BY <2>1 DEF EventInv, EventTypeOK, streamVars
    <2>2. CASE stream' = <<>> /\ streamLag' = FALSE /\ connected' \in BOOLEAN
      <3>1. <<>> \in Seq(Events) /\ Len(<<>>) = 0 /\ 0 <= StreamCapacity
        BY EventAssumption
      <3>2. stream' \in Seq(Events) /\ Len(stream') <= StreamCapacity
        BY <2>2, <3>1
      <3> QED BY <2>2, <3>2, Zenon
    <2> QED BY <1>2, <2>1, <2>2
  <1>4. /\ observer' \in Active \cup Finished
        /\ observer' \in {"setup", "create"} => observer \in {"setup", "create"}
    <2>1. observer \in Active \cup Finished
      BY DEF EventInv, EventTypeOK
    <2>2. CASE CheckTerminal
      <3>1. observer \in {"pre", "recheck", "post", "check"}
        BY <2>2 DEF CheckTerminal, AfterCheck
      <3>2. AfterCheck[observer] \in {"open", "wait"}
        BY <3>1 DEF AfterCheck
      <3> QED BY <2>2, <3>2 DEF CheckTerminal, Active, Finished
    <2>3. CASE Setup \/ CreateSession \/ OpenEvents \/ CancelSession
      BY <2>3 DEF Setup, CreateSession, OpenEvents, CancelSession, Active, Finished
    <2>4. CASE StreamEnds \/ Interrupt \/ RequestFails
      BY <2>1, <2>4 DEF StreamEnds, Interrupt, RequestFails, Active, Finished
    <2> QED BY <2>2, <2>3, <2>4
  <1>5. Watched \in Sessions /\ MaxUnsent \in Nat \ {0}
    BY EventAssumption
  <1>6. CASE UNCHANGED <<phase, unsent>>
    <2>1. EventTypeOK'
      BY <1>1, <1>3, <1>4, <1>6 DEF EventInv, EventTypeOK, engineVars
    <2>2. observer' = "wait" /\ phase'[Watched] = "ended" /\ Watched \notin unheard' => Awake'
      <3>1. CASE CheckTerminal
        BY <1>6, <3>1 DEF CheckTerminal, Classifies, AfterCheck
      <3>2. CASE StreamEnds
        BY <3>2 DEF StreamEnds, Awake
      <3>3. CASE Setup \/ CreateSession \/ OpenEvents \/ CancelSession \/ Interrupt \/ RequestFails
        BY <3>3 DEF Setup, CreateSession, OpenEvents, CancelSession, Interrupt, RequestFails
      <3> QED BY <3>1, <3>2, <3>3
    <2> QED BY <1>4, <1>6, <2>1, <2>2 DEF EventInv
  <1>7. CASE ~UNCHANGED <<phase, unsent>>
    <2>1. CreateSession \/ Interrupt \/ CancelSession
      BY <1>7 DEF Setup, CheckTerminal, OpenEvents, StreamEnds, RequestFails
    <2>2. PICK next \in {"running", "ended"} : phase' = [phase EXCEPT ![Watched] = next]
      BY <1>7, <2>1 DEF CreateSession, Interrupt, CancelSession, Created
    <2>3. /\ unsent' = [unsent EXCEPT ![Watched] = @ + 1]
          /\ unsent[Watched] < MaxUnsent
      BY <1>5, <1>7, <2>1 DEF CreateSession, Interrupt, CancelSession, Created, EventInv
    <2>4. phase' \in [Sessions -> Phases] /\ unsent' \in [Sessions -> 0..MaxUnsent]
      BY <1>5, <2>2, <2>3 DEF EventInv, EventTypeOK, Phases
    <2>5. EventTypeOK'
      BY <1>1, <1>3, <1>4, <2>4 DEF EventInv, EventTypeOK, engineVars
    <2>6. observer' \notin {"setup", "create", "wait"}
      BY <1>7, <2>1 DEF CreateSession, Interrupt, CancelSession
    <2> QED BY <2>5, <2>6 DEF EventInv
  <1> QED BY <1>6, <1>7

LEMMA NextEventKeeps ==
    ASSUME EventInv, NextEvent
    PROVE EventInv'
  <1>1. UNCHANGED <<phase, unsent, engineLine, engineLag, unheard>> /\ observer = "wait"
    BY DEF NextEvent, engineVars
  <1>2. /\ stream' = stream \/ (stream # <<>> /\ stream' = Tail(stream))
        /\ stream \in Seq(Events) /\ Len(stream) <= StreamCapacity /\ StreamCapacity \in Nat
    BY EventAssumption DEF NextEvent, EventInv, EventTypeOK, streamVars
  <1>3. stream' \in Seq(Events) /\ Len(stream') <= StreamCapacity
    BY <1>2
  <1>4. /\ streamLag' \in BOOLEAN /\ connected' = connected
        /\ observer' \in {"recheck", "check", "wait"}
    BY DEF NextEvent, EventInv, EventTypeOK, streamVars
  <1>5. EventTypeOK'
    BY <1>1, <1>3, <1>4 DEF EventInv, EventTypeOK, Active
  <1>6. observer' = "wait" /\ phase'[Watched] = "ended" /\ Watched \notin unheard' => Awake'
    <2> SUFFICES ASSUME observer' = "wait", phase'[Watched] = "ended", Watched \notin unheard'
                 PROVE  Awake'
      OBVIOUS
    <2>1. /\ connected /\ ~streamLag /\ stream # <<>> /\ Head(stream) = "progress"
          /\ stream' = Tail(stream)
      BY DEF NextEvent
    <2>2. Awake
      BY <1>1 DEF EventInv
    <2>3. CASE \E i \in DOMAIN stream : stream[i] # "progress"
      <3>1. PICK i \in DOMAIN stream : stream[i] # "progress"
        BY <2>3
      <3>2. i \in 1..Len(stream) /\ i # 1
        BY <1>2, <2>1, <3>1
      <3>3. i - 1 \in DOMAIN Tail(stream) /\ Tail(stream)[i - 1] = stream[i]
        BY <1>2, <2>1, <3>2
      <3> QED BY <2>1, <3>1, <3>3 DEF Awake
    <2>4. CASE ~\E i \in DOMAIN stream : stream[i] # "progress"
      BY <1>1, <2>1, <2>2, <2>4 DEF Awake
    <2> QED BY <2>3, <2>4
  <1> QED BY <1>4, <1>5, <1>6 DEF EventInv

(* A client that waits is woken, however many workspaces are open, whichever logs cannot be
   written and whoever recovers, unless the end of its session was announced to nobody
   (recover_expired_leases, observe_session). *)
THEOREM StreamSafety == EventSpec => []EventStreamCorrect
  <1>1. EventInit => EventInv
    <2> SUFFICES ASSUME EventInit PROVE EventInv
      OBVIOUS
    <2>1. EventTypeOK
      <3>1. <<>> \in Seq(Events) /\ <<>> \in Seq(Sessions) /\ Len(<<>>) = 0
        OBVIOUS
      <3>2. phase \in [Sessions -> Phases] /\ unsent \in [Sessions -> 0..MaxUnsent]
        BY EventAssumption DEF EventInit, Phases
      <3>3. /\ engineLine \in [Workspaces -> Seq(Sessions)]
            /\ \A w \in Workspaces : Len(engineLine[w]) <= EngineCapacity
        BY <3>1, EventAssumption DEF EventInit
      <3>4. /\ engineLag \in [Workspaces -> BOOLEAN]
            /\ streamLag \in BOOLEAN /\ connected \in BOOLEAN
        BY Zenon DEF EventInit
      <3>5. stream \in Seq(Events) /\ Len(stream) <= StreamCapacity
        BY <3>1, EventAssumption DEF EventInit
      <3>6. observer \in Active \cup Finished
        BY DEF EventInit, Active
      <3>7. unheard \subseteq Sessions
        BY DEF EventInit
      <3> QED BY <3>2, <3>3, <3>4, <3>5, <3>6, <3>7 DEF EventTypeOK
    <2> QED BY <2>1, EventAssumption DEF EventInit, EventInv
  <1>2. EventInv /\ [EventNext]_eventVars => EventInv'
    <2> SUFFICES ASSUME EventInv, [EventNext]_eventVars PROVE EventInv'
      OBVIOUS
    <2>1. CASE UNCHANGED eventVars
      BY <2>1 DEF eventVars, engineVars, streamVars, EventInv, EventTypeOK, Awake
    <2>2. ASSUME NEW s \in Sessions,
                 (\E next \in {"running", "ended"} : Commit(s, next)) \/ FollowUp(s)
          PROVE EventInv'
      BY <2>2, CommitKeeps
    <2>3. ASSUME NEW s \in Sessions, Announce(s) PROVE EventInv'
      BY <2>3, AnnounceKeeps
    <2>4. ASSUME NEW s \in Sessions, \E e \in {"progress", "session_changed"} : Direct(s, e)
          PROVE EventInv'
      BY <2>4, DirectEventKeeps
    <2>5. ASSUME NEW s \in Sessions, LoseOwner(s) PROVE EventInv'
      BY <2>5, LoseOwnerKeeps
    <2>6. ASSUME (\E w \in Workspaces : Sweep(w) \/ Bridge(w)) \/ RecoveredByOpening
          PROVE EventInv'
      BY <2>6, SweepKeeps, BridgeKeeps
    <2>7. CASE ObserverStep \/ StreamEnds \/ Interrupt \/ RequestFails
      BY <2>7, ObserverKeeps, NextEventKeeps DEF ObserverStep
    <2> QED BY <2>1, <2>2, <2>3, <2>4, <2>5, <2>6, <2>7 DEF EventNext
  <1>3. EventInv => EventStreamCorrect
    BY DEF EventInv, EventStreamCorrect, NoLostWakeup, Awake
  <1> QED BY <1>1, <1>2, <1>3, PTL DEF EventSpec

-----------------------------------------------------------------------------
(* The conversation log.  The inductive invariant says what a page of the outbox
   is worth once it has gone stale: the cards its reader had seen are the first
   ones, and those that were no longer in the outbox then are on the disk, so what
   the page and the file hold together has no gap. *)

-----------------------------------------------------------------------------
(* Operators *)

(* What ToSet collects is what the indices name. *)
LEMMA InSequence ==
    ASSUME NEW S, NEW s \in Seq(S), NEW x
    PROVE  x \in ToSet(s) <=> \E i \in 1 .. Len(s) : s[i] = x
BY DEF ToSet

(* Min picks the least of a set of numbers. *)
LEMMA MinIsLeast ==
    ASSUME NEW S \in SUBSET Nat, S # {}
    PROVE  Min(S) \in S /\ \A x \in S : Min(S) <= x
<1> DEFINE R == {ss \in Nat \X Nat : ss[1] < ss[2]}
<1>1. IsWellFoundedOn(R, Nat)
  BY NatLessThanWellFounded DEF OpToRel
<1>0. \A a, b \in Nat : <<a, b>> \in R <=> a < b
  OBVIOUS
<1> HIDE DEF R
<1>2. \E x \in S : \A y \in S : <<y, x>> \notin R
  BY <1>1, WFMin
<1>3. \E x \in S : \A y \in S : x <= y
  <2>1. PICK x \in S : \A y \in S : <<y, x>> \notin R
    BY <1>2
  <2>2. ASSUME NEW y \in S PROVE x <= y
    <3>1. x \in Nat /\ y \in Nat /\ ~(y < x)
      BY <1>0, <2>1
    <3> QED BY <3>1
  <2> QED BY <2>2
<1> DEFINE Least(x) == x \in S /\ \A y \in S : x <= y
<1>4. Min(S) = CHOOSE x : Least(x)
  BY DEF Min
<1>5. \E x : Least(x)
  BY <1>3
<1> HIDE DEF Least
<1>6. Least(Min(S))
  BY <1>4, <1>5
<1> QED BY <1>6 DEF Least

-----------------------------------------------------------------------------
(* The inductive invariant *)

Plain ==
    /\ last \in 0 .. MaxSeq
    /\ cards \subseteq Seqs
    /\ outbox \subseteq cards
    /\ header \in {"none", "torn", "whole"}
    /\ torn \in BOOLEAN
    /\ holder \in Drainers \cup {None}
    /\ task \in [Drainers -> Task]
    /\ crashes \in 0 .. MaxCrashes

Sequenced ==
    /\ log \in Seq(Seqs)
    /\ safe \in 0 .. Len(log) + 1
    /\ header # "whole" => log = <<>> /\ safe = 0

(* The two make up the type invariant. *)
LEMMA TypesTogether == LogTypeOK <=> Plain /\ Sequenced
BY DEF LogTypeOK, Plain, Sequenced

(* The first number is a card's: a session begins with its prompt. *)
Numbered ==
    /\ \A n \in cards : n <= last
    /\ last > 0 => 1 \in cards

(* The drainers that have the lock. *)
Holding == {"locked", "heading", "headed", "append", "half"}

(* The drainers whose cards are on the disk. *)
Flushed == {"synced", "reading", "done"}

(* Where a drainer stands, and what the file looks like there. *)
Stands(c) ==
    /\ holder = c <=> task[c].pc \in Holding
    /\ task[c].pc = "heading" => header = "torn"
    /\ task[c].pc = "headed" => header = "whole" /\ log = <<>>
    /\ task[c].pc \in {"append", "half"} =>
          /\ header = "whole"
          /\ task[c].have = ToSet(log)
          /\ task[c].tail = LastLogged
    /\ task[c].pc = "half" => Missing(c) # {}
    /\ task[c].pc \in Flushed => header = "whole" /\ task[c].seen \subseteq Durable
    /\ task[c].pc = "done" => task[c].seen \subseteq task[c].view

(* What the page in the drainer's hands is worth. *)
Page(c) ==
    task[c].pc # "idle" =>
        /\ task[c].entries \subseteq task[c].seen
        /\ task[c].seen # {}
        /\ task[c].seen \subseteq cards
        /\ \A n \in task[c].seen, k \in cards : k < n => k \in task[c].seen
        /\ task[c].seen \subseteq task[c].entries \cup Durable

IndInv ==
    /\ Plain /\ Sequenced /\ Numbered
    /\ LogIsPrefix /\ DurableOrPending
    /\ \A c \in Drainers : Stands(c) /\ Page(c)

(* The idle drainer is a drainer. *)
LEMMA IdleTyped == IdleTask \in Task
BY ConversationAssumption DEF IdleTask, Task, PC, Seqs

(* Initially there is neither a card nor a file. *)
LEMMA IndInit == LogInit => IndInv
<1> SUFFICES ASSUME LogInit PROVE IndInv
  OBVIOUS
<1> USE DEF LogInit
<1>1. Plain
  <2>1. task \in [Drainers -> Task]
    BY IdleTyped
  <2>2. last \in 0 .. MaxSeq /\ crashes \in 0 .. MaxCrashes
    BY ConversationAssumption
  <2> QED BY <2>1, <2>2 DEF Plain
<1>2. Sequenced
  BY DEF Sequenced
<1>3. Numbered
  BY DEF Numbered
<1>4. LogIsPrefix
  BY DEF LogIsPrefix, ToSet
<1>5. DurableOrPending
  BY DEF DurableOrPending
<1>6. \A c \in Drainers : Stands(c) /\ Page(c)
  BY ConversationAssumption DEF Stands, Page, IdleTask, Holding, Flushed
<1> QED BY <1>1, <1>2, <1>3, <1>4, <1>5, <1>6 DEF IndInv

(* The last line is the greatest number of the file, and a card's. *)
LEMMA LastIsCard ==
    ASSUME IndInv
    PROVE  /\ LastLogged \in 0 .. MaxSeq /\ LastLogged <= last
           /\ \A n \in ToSet(log) : n \in cards /\ n <= LastLogged
           /\ \A n \in cards : n <= LastLogged => n \in ToSet(log)
           /\ log # <<>> => LastLogged \in ToSet(log)
<1>1. log # <<>> => LastLogged \in ToSet(log)
  BY InSequence DEF IndInv, Sequenced, LastLogged
<1>2. log = <<>> => LastLogged = 0
  BY DEF LastLogged
<1>3. /\ cards \subseteq 1 .. MaxSeq /\ \A n \in cards : n <= last
      /\ ToSet(log) = {n \in cards : n <= LastLogged}
      /\ last \in 0 .. MaxSeq /\ MaxSeq \in Nat
  BY ConversationAssumption DEF IndInv, LogIsPrefix, Numbered, Plain, Seqs
<1>4. LastLogged \in 0 .. MaxSeq /\ LastLogged <= last
  <2>1. CASE log = <<>>
    BY <1>2, <1>3, <2>1
  <2>2. CASE log # <<>>
    <3>1. LastLogged \in cards
      BY <1>1, <1>3, <2>2
    <3> QED BY <1>3, <3>1
  <2> QED BY <2>1, <2>2
<1> QED BY <1>1, <1>3, <1>4

(* What is on the disk is in the file. *)
LEMMA DurableIsLogged ==
    ASSUME Sequenced
    PROVE  Durable \subseteq ToSet(log)
<1> SUFFICES ASSUME NEW i \in 1 .. safe - 1
             PROVE  log[i] \in ToSet(log)
  BY DEF Durable
<1>1. i \in 1 .. Len(log)
  BY DEF Sequenced
<1> QED BY <1>1, InSequence DEF Sequenced

(* Once everything is synchronised the disk has all of the file. *)
LEMMA SyncedIsAll ==
    ASSUME NEW s \in Seq(Seqs)
    PROVE  {s[i] : i \in 1 .. (Len(s) + 1) - 1} = ToSet(s)
<1>1. 1 .. (Len(s) + 1) - 1 = 1 .. Len(s)
  OBVIOUS
<1> QED BY <1>1, InSequence DEF ToSet

-----------------------------------------------------------------------------
(* Steps of one drainer *)

(* A drainer's step keeps the invariant when it keeps the file sound, takes
   nothing from the disk, touches header and lines only under the lock, and
   leaves the drainer itself in a sound place: the others do not notice. *)
LEMMA DrainerStep ==
    ASSUME IndInv, NEW c \in Drainers, NEW r \in Task,
           task' = [task EXCEPT ![c] = r],
           UNCHANGED <<last, cards>>,
           outbox' \subseteq cards,
           header' \in {"none", "torn", "whole"},
           torn' \in BOOLEAN,
           crashes' \in 0 .. MaxCrashes,
           holder' \in Drainers \cup {None},
           \A d \in Drainers : d # c => (holder' = d <=> holder = d),
           UNCHANGED <<header, log>> \/ holder = c,
           header = "whole" => header' = "whole",
           Sequenced', LogIsPrefix', DurableOrPending',
           Durable \subseteq Durable',
           Stands(c)', Page(c)'
    PROVE  IndInv'
<1>1. task' \in [Drainers -> Task] /\ \A d \in Drainers : d # c => task'[d] = task[d]
  BY DEF IndInv, Plain
<1>2. Plain'
  BY <1>1 DEF IndInv, Plain
<1>3. Numbered'
  BY DEF IndInv, Numbered
<1>4. ASSUME NEW d \in Drainers, d # c PROVE Stands(d)' /\ Page(d)'
  <2>1. Stands(d) /\ Page(d) /\ task'[d] = task[d]
    BY <1>1, <1>4 DEF IndInv
  <2>2. Page(d)'
    BY <2>1 DEF Page
  <2>3. Missing(d)' = Missing(d)
    BY <2>1 DEF Missing
  <2>4. CASE UNCHANGED <<header, log>>
    <3>1. LastLogged' = LastLogged /\ ToSet(log)' = ToSet(log)
      BY <2>4 DEF LastLogged, ToSet
    <3> HIDE DEF Durable, LastLogged, Missing
    <3> QED BY <1>4, <2>1, <2>2, <2>3, <2>4, <3>1 DEF Stands
  <2>5. CASE holder = c
    <3>1. task[d].pc \notin Holding
      BY <1>4, <2>1, <2>5 DEF Stands
    <3>2. task[d].pc \notin {"heading", "headed", "append", "half"}
      BY <3>1 DEF Holding
    <3>3. task[d].pc \in Flushed => header' = "whole" /\ task[d].seen \subseteq Durable'
      BY <2>1 DEF Stands
    <3>4. holder' = d <=> task[d].pc \in Holding
      BY <1>4, <2>1 DEF Stands
    <3>5. task[d].pc = "done" => task[d].seen \subseteq task[d].view
      BY <2>1 DEF Stands
    <3> QED BY <2>1, <2>2, <3>2, <3>3, <3>4, <3>5 DEF Stands
  <2> QED BY <2>2, <2>4, <2>5
<1>5. \A d \in Drainers : Stands(d)' /\ Page(d)'
  BY <1>4
<1> QED BY <1>2, <1>3, <1>5 DEF IndInv

(* The same for a step that leaves file and database alone. *)
LEMMA LocalStep ==
    ASSUME IndInv, NEW c \in Drainers, NEW r \in Task,
           task' = [task EXCEPT ![c] = r],
           UNCHANGED <<last, cards, outbox, file>>,
           crashes' \in 0 .. MaxCrashes,
           holder' \in Drainers \cup {None},
           \A d \in Drainers : d # c => (holder' = d <=> holder = d),
           Stands(c)', Page(c)'
    PROVE  IndInv'
<1>1. Durable' = Durable /\ LastLogged' = LastLogged
  BY DEF Durable, LastLogged, file
<1>2. Sequenced'
  BY DEF file, IndInv, Sequenced
<1>3. LogIsPrefix'
  BY <1>1 DEF file, IndInv, LogIsPrefix
<1>4. DurableOrPending'
  BY <1>1 DEF IndInv, DurableOrPending
<1>5. outbox' \subseteq cards /\ header' \in {"none", "torn", "whole"} /\ torn' \in BOOLEAN
      /\ (header = "whole" => header' = "whole")
  BY DEF file, IndInv, Plain
<1>6. UNCHANGED <<header, log>>
  BY DEF file
<1> QED BY <1>1, <1>2, <1>3, <1>4, <1>5, <1>6, DrainerStep

(* A drainer that gives up, or dies, leaves what it wrote. *)
LEMMA GoneStep ==
    ASSUME IndInv, NEW c \in Drainers,
           task' = [task EXCEPT ![c] = IdleTask], Unlock(c),
           UNCHANGED <<last, cards, outbox, file>>,
           crashes' \in 0 .. MaxCrashes
    PROVE  IndInv'
<1>1. task'[c] = IdleTask
  BY DEF IndInv, Plain
<1>2. /\ holder' \in Drainers \cup {None} /\ holder' # c
      /\ \A d \in Drainers : d # c => (holder' = d <=> holder = d)
  BY ConversationAssumption DEF Unlock, IndInv, Plain
<1>3. Stands(c)' /\ Page(c)'
  BY <1>1, <1>2 DEF Stands, Page, IdleTask, Holding, Flushed
<1> QED BY <1>2, <1>3, IdleTyped, LocalStep

(* A page is read: what is no longer in the outbox is on the disk. *)
LEMMA ReadOutboxStep ==
    ASSUME IndInv, NEW c \in Drainers, ReadOutbox(c)
    PROVE  IndInv'
<1> DEFINE r == [IdleTask EXCEPT !.pc = "read", !.entries = outbox, !.seen = cards]
<1>1. /\ task' = [task EXCEPT ![c] = r] /\ last > 0 /\ task[c].pc = "idle"
      /\ UNCHANGED <<last, cards, outbox, file, holder, crashes>>
  BY DEF ReadOutbox, At
<1>2. outbox \subseteq Seqs /\ cards \subseteq Seqs /\ outbox \subseteq cards
  BY DEF IndInv, Plain
<1>3. r \in Task /\ r.pc = "read" /\ r.entries = outbox /\ r.seen = cards
  BY <1>2, IdleTyped DEF Task, PC
<1>4. task'[c] = r
  BY <1>1 DEF IndInv, Plain
<1> HIDE DEF r
<1>5. holder # c
  BY <1>1 DEF IndInv, Stands, Holding
<1>6. Durable' = Durable
  BY <1>1 DEF Durable, file
<1>7. Stands(c)'
  BY <1>1, <1>3, <1>4, <1>5 DEF Stands, Holding, Flushed
<1>8. Page(c)'
  <2>1. cards # {} /\ cards \subseteq outbox \cup Durable
    BY <1>1 DEF IndInv, Numbered, DurableOrPending
  <2> QED BY <1>1, <1>2, <1>3, <1>4, <1>6, <2>1 DEF Page
<1>9. holder' \in Drainers \cup {None} /\ crashes' \in 0 .. MaxCrashes
  BY <1>1 DEF IndInv, Plain
<1> QED BY <1>1, <1>3, <1>7, <1>8, <1>9, LocalStep

(* The lock is obtained. *)
LEMMA LockStep ==
    ASSUME IndInv, NEW c \in Drainers, Lock(c)
    PROVE  IndInv'
<1> DEFINE r == [task[c] EXCEPT !.pc = "locked"]
<1>1. /\ task' = [task EXCEPT ![c] = r] /\ task[c].pc = "read"
      /\ holder = None /\ holder' = c
      /\ UNCHANGED <<last, cards, outbox, file, crashes>>
  BY DEF Lock, At, Goto, IndInv, Plain
<1>2. task[c] \in Task
  BY DEF IndInv, Plain
<1>3. r \in Task /\ r.pc = "locked" /\ r.entries = task[c].entries /\ r.seen = task[c].seen
  BY <1>2 DEF Task, PC
<1>4. task'[c] = r
  BY <1>1 DEF IndInv, Plain
<1> HIDE DEF r
<1>5. Durable' = Durable
  BY <1>1 DEF Durable, file
<1>6. Stands(c)'
  BY <1>1, <1>3, <1>4 DEF Stands, Holding, Flushed
<1>7. Page(c)'
  BY <1>1, <1>3, <1>4, <1>5 DEF IndInv, Page
<1>8. /\ holder' \in Drainers \cup {None} /\ crashes' \in 0 .. MaxCrashes
      /\ \A d \in Drainers : d # c => (holder' = d <=> holder = d)
  BY <1>1, ConversationAssumption DEF IndInv, Plain
<1> QED BY <1>1, <1>3, <1>6, <1>7, <1>8, LocalStep

(* The refusals, the end of a call and its death. *)
LEMMA RefusedStep ==
    ASSUME IndInv, NEW c \in Drainers,
           RepairRefused(c) \/ AppendRefused(c) \/ ReadRefused(c) \/ Done(c) \/ Crash(c)
    PROVE  IndInv'
<1>1. /\ task' = [task EXCEPT ![c] = IdleTask] /\ Unlock(c)
      /\ UNCHANGED <<last, cards, outbox, file>>
      /\ crashes' = crashes \/ (crashes < MaxCrashes /\ crashes' = crashes + 1)
  BY DEF RepairRefused, AppendRefused, ReadRefused, Done, Crash, Refused
<1>2. crashes' \in 0 .. MaxCrashes
  BY <1>1, ConversationAssumption DEF IndInv, Plain
<1> QED BY <1>1, <1>2, GoneStep

(* The header is written in two steps and synchronised, under the lock and
   before any line. *)
LEMMA HeaderStep ==
    ASSUME IndInv, NEW c \in Drainers,
           WriteHeader(c) \/ FinishHeader(c) \/ SyncHeader(c)
    PROVE  IndInv'
<1>0. /\ task[c] \in Task /\ task \in [Drainers -> Task]
      /\ Stands(c) /\ Page(c) /\ Plain /\ Sequenced
  BY DEF IndInv, Plain
<1>1. PICK pc \in {"heading", "headed", "locked"} :
         /\ task' = [task EXCEPT ![c] = [task[c] EXCEPT !.pc = pc]]
         /\ pc = "heading" => header = "none" /\ header' = "torn" /\ safe' = safe
         /\ pc = "headed" => header = "torn" /\ header' = "whole" /\ safe' = safe
         /\ pc = "locked" => header = "whole" /\ header' = "whole" /\ safe' = 1
                             /\ log = <<>>
         /\ task[c].pc \in {"heading", "headed", "locked"}
         /\ UNCHANGED <<last, cards, outbox, log, torn, holder, crashes>>
  <2>1. CASE WriteHeader(c)
    BY <1>0, <2>1 DEF WriteHeader, At, Goto
  <2>2. CASE FinishHeader(c)
    BY <1>0, <2>2 DEF FinishHeader, At, Goto, Stands
  <2>3. CASE SyncHeader(c)
    BY <1>0, <2>3 DEF SyncHeader, At, Goto, Stands
  <2> QED BY <2>1, <2>2, <2>3
<1> DEFINE r == [task[c] EXCEPT !.pc = pc]
<1>2. /\ r \in Task /\ r.pc = pc /\ r.entries = task[c].entries
      /\ r.seen = task[c].seen
  BY <1>0 DEF Task, PC
<1>3. task'[c] = r /\ task' = [task EXCEPT ![c] = r]
  BY <1>0, <1>1
<1> HIDE DEF r
<1>4. log = <<>> /\ safe \in {0, 1} /\ safe' \in {0, 1}
      /\ (header' # "whole" => safe' = 0)
  BY <1>0, <1>1 DEF Sequenced
<1>5. Durable = {} /\ Durable' = {}
  BY <1>1, <1>4 DEF Durable
<1>6. holder = c
  BY <1>0, <1>1 DEF Stands, Holding
<1>7. Sequenced'
  BY <1>0, <1>1, <1>4 DEF Sequenced
<1>8. LogIsPrefix'
  <2>1. LastLogged' = LastLogged /\ ToSet(log)' = ToSet(log)
    BY <1>1 DEF LastLogged, ToSet
  <2> QED BY <1>1, <2>1 DEF IndInv, LogIsPrefix
<1>9. DurableOrPending'
  BY <1>1, <1>5 DEF IndInv, DurableOrPending
<1>10. Stands(c)'
  BY <1>1, <1>2, <1>3, <1>4, <1>6 DEF Stands, Holding, Flushed
<1>11. Page(c)'
  BY <1>0, <1>1, <1>2, <1>3, <1>5 DEF Page
<1>12. /\ outbox' \subseteq cards /\ torn' \in BOOLEAN /\ crashes' \in 0 .. MaxCrashes
       /\ holder' \in Drainers \cup {None}
       /\ header' \in {"none", "torn", "whole"} /\ (header = "whole" => header' = "whole")
  BY <1>0, <1>1 DEF Plain
<1> QED BY <1>1, <1>2, <1>3, <1>5, <1>6, <1>7, <1>8, <1>9, <1>10, <1>11, <1>12,
           DrainerStep

(* The outbox gives up only what the disk has: the cards that the drainer had
   seen are there. *)
LEMMA AcknowledgeStep ==
    ASSUME IndInv, NEW c \in Drainers, Acknowledge(c)
    PROVE  IndInv'
<1> DEFINE r == [task[c] EXCEPT !.pc = "reading"]
<1>0. /\ task[c] \in Task /\ task \in [Drainers -> Task]
      /\ Stands(c) /\ Page(c) /\ Plain /\ Sequenced
  BY DEF IndInv, Plain
<1>1. /\ task' = [task EXCEPT ![c] = r] /\ task[c].pc = "synced"
      /\ outbox' = {n \in outbox : \A m \in task[c].entries : n > m}
      /\ UNCHANGED <<last, cards, file, holder, crashes>>
  BY <1>0 DEF Acknowledge, At, Goto
<1>2. /\ r \in Task /\ r.pc = "reading" /\ r.entries = task[c].entries
      /\ r.seen = task[c].seen
  BY <1>0 DEF Task, PC
<1>3. task'[c] = r
  BY <1>0, <1>1
<1> HIDE DEF r
<1>4. Durable' = Durable /\ LastLogged' = LastLogged
  BY <1>1 DEF Durable, LastLogged, file
<1>5. Sequenced' /\ LogIsPrefix'
  BY <1>0, <1>1, <1>4 DEF file, IndInv, Sequenced, LogIsPrefix
<1>6. DurableOrPending'
  <2> SUFFICES ASSUME NEW n \in cards PROVE n \in outbox' \cup Durable
    BY <1>1, <1>4 DEF DurableOrPending
  <2>1. CASE \A m \in task[c].entries : n > m
    BY <1>1, <2>1 DEF IndInv, DurableOrPending
  <2>2. CASE \E m \in task[c].entries : ~(n > m)
    <3>1. PICK m \in task[c].entries : ~(n > m)
      BY <2>2
    <3>2. m \in task[c].seen /\ n \in Nat /\ m \in Nat
      BY <1>0, <1>1 DEF Page, Plain, Task, Seqs
    <3>3. n \in task[c].seen
      BY <1>0, <1>1, <3>1, <3>2 DEF Page
    <3> QED BY <1>0, <1>1, <3>3 DEF Stands, Flushed
  <2> QED BY <2>1, <2>2
<1>7. Stands(c)'
  BY <1>0, <1>1, <1>2, <1>3, <1>4 DEF Stands, Holding, Flushed, file
<1>8. Page(c)'
  BY <1>0, <1>1, <1>2, <1>3, <1>4 DEF Page
<1>9. /\ outbox' \subseteq cards /\ header' \in {"none", "torn", "whole"}
      /\ torn' \in BOOLEAN /\ crashes' \in 0 .. MaxCrashes
      /\ holder' \in Drainers \cup {None}
      /\ UNCHANGED <<header, log>>
  BY <1>0, <1>1 DEF Plain, file
<1> QED BY <1>1, <1>2, <1>4, <1>5, <1>6, <1>7, <1>8, <1>9, DrainerStep

(* A torn last line is cut off: no line goes, and what is left is
   synchronised. *)
LEMMA TruncateKeeps ==
    ASSUME Sequenced, LogIsPrefix, header = "whole", Truncate, UNCHANGED cards
    PROVE  /\ Sequenced' /\ LogIsPrefix' /\ torn' = FALSE
           /\ UNCHANGED <<header, log>> /\ LastLogged' = LastLogged
           /\ Durable \subseteq Durable'
<1>1. UNCHANGED <<header, log>> /\ torn' = FALSE /\ safe' \in {safe, Len(log) + 1}
  BY DEF Truncate
<1>2. LastLogged' = LastLogged
  BY <1>1 DEF LastLogged
<1>3. Sequenced'
  BY <1>1 DEF Sequenced
<1>4. LogIsPrefix'
  BY <1>1, <1>2 DEF LogIsPrefix
<1>5. Durable \subseteq Durable'
  <2>1. ASSUME NEW i \in 1 .. safe - 1 PROVE i \in 1 .. safe' - 1
    <3>1. CASE safe' = safe
      BY <3>1
    <3>2. CASE safe' = Len(log) + 1
      <4>1. Len(log) \in Nat /\ safe \in Int /\ safe <= Len(log) + 1
        BY DEF Sequenced
      <4> QED BY <3>2, <4>1
    <3> QED BY <1>1, <3>1, <3>2
  <2> QED BY <1>1, <2>1 DEF Durable
<1> QED BY <1>1, <1>2, <1>3, <1>4, <1>5

(* The file is repaired and read under the lock. *)
LEMMA RepairStep ==
    ASSUME IndInv, NEW c \in Drainers, Repair(c)
    PROVE  IndInv'
<1> DEFINE r == [task[c] EXCEPT !.pc = "append", !.have = ToSet(log), !.tail = LastLogged]
<1>0. /\ task[c] \in Task /\ task \in [Drainers -> Task]
      /\ Stands(c) /\ Page(c) /\ Plain /\ Sequenced
  BY DEF IndInv, Plain
<1>1. /\ task' = [task EXCEPT ![c] = r] /\ task[c].pc = "locked"
      /\ header = "whole" /\ Truncate
      /\ UNCHANGED <<last, cards, outbox, holder, crashes>>
  BY <1>0 DEF Repair, At
<1>2. /\ r \in Task /\ r.pc = "append" /\ r.entries = task[c].entries
      /\ r.seen = task[c].seen /\ r.have = ToSet(log) /\ r.tail = LastLogged
  <2>1. ToSet(log) \subseteq Seqs
    BY <1>0, InSequence DEF Sequenced
  <2>2. LastLogged \in 0 .. MaxSeq
    BY LastIsCard
  <2> QED BY <1>0, <2>1, <2>2 DEF Task, PC
<1>3. task'[c] = r
  BY <1>0, <1>1
<1> HIDE DEF r
<1>4. /\ Sequenced' /\ LogIsPrefix' /\ torn' = FALSE
      /\ UNCHANGED <<header, log>> /\ LastLogged' = LastLogged
      /\ Durable \subseteq Durable'
  BY <1>0, <1>1, TruncateKeeps DEF IndInv
<1>5. holder = c
  BY <1>0, <1>1 DEF Stands, Holding
<1>6. DurableOrPending'
  BY <1>1, <1>4 DEF IndInv, DurableOrPending
<1>7. Stands(c)'
  <2>1. ToSet(log)' = ToSet(log)
    BY <1>4 DEF ToSet
  <2> QED BY <1>1, <1>2, <1>3, <1>4, <1>5, <2>1 DEF Stands, Holding, Flushed
<1>8. Page(c)'
  BY <1>0, <1>1, <1>2, <1>3, <1>4 DEF Page
<1>9. /\ outbox' \subseteq cards /\ header' \in {"none", "torn", "whole"}
      /\ torn' \in BOOLEAN /\ crashes' \in 0 .. MaxCrashes
      /\ holder' \in Drainers \cup {None}
  BY <1>0, <1>1, <1>4 DEF Plain
<1> QED BY <1>1, <1>2, <1>4, <1>6, <1>7, <1>8, <1>9, DrainerStep

(* The file is read back by a drainer whose cards are on the disk. *)
LEMMA ReadBackStep ==
    ASSUME IndInv, NEW c \in Drainers, ReadBack(c)
    PROVE  IndInv'
<1> DEFINE r == [task[c] EXCEPT !.pc = "done", !.view = ToSet(log)]
<1>0. /\ task[c] \in Task /\ task \in [Drainers -> Task]
      /\ Stands(c) /\ Page(c) /\ Plain /\ Sequenced
  BY DEF IndInv, Plain
<1>1. /\ task' = [task EXCEPT ![c] = r] /\ task[c].pc = "reading"
      /\ holder = None /\ Truncate
      /\ UNCHANGED <<last, cards, outbox, holder, crashes>>
  BY <1>0 DEF ReadBack, At
<1>2. /\ r \in Task /\ r.pc = "done" /\ r.entries = task[c].entries
      /\ r.seen = task[c].seen /\ r.view = ToSet(log)
  <2>1. ToSet(log) \subseteq Seqs
    BY <1>0, InSequence DEF Sequenced
  <2> QED BY <1>0, <2>1 DEF Task, PC
<1>3. task'[c] = r
  BY <1>0, <1>1
<1> HIDE DEF r
<1>4. header = "whole" /\ task[c].seen \subseteq Durable
  BY <1>0, <1>1 DEF Stands, Flushed
<1>5. /\ Sequenced' /\ LogIsPrefix' /\ torn' = FALSE
      /\ UNCHANGED <<header, log>> /\ LastLogged' = LastLogged
      /\ Durable \subseteq Durable'
  BY <1>0, <1>1, <1>4, TruncateKeeps DEF IndInv
<1>6. DurableOrPending'
  BY <1>1, <1>5 DEF IndInv, DurableOrPending
<1>7. Stands(c)'
  <2>1. holder' # c
    BY <1>1, ConversationAssumption
  <2>2. task[c].seen \subseteq ToSet(log)
    BY <1>0, <1>4, DurableIsLogged
  <2> QED BY <1>2, <1>3, <1>4, <1>5, <2>1, <2>2 DEF Stands, Holding, Flushed
<1>8. Page(c)'
  BY <1>0, <1>1, <1>2, <1>3, <1>5 DEF Page
<1>9. /\ outbox' \subseteq cards /\ header' \in {"none", "torn", "whole"}
      /\ torn' \in BOOLEAN /\ crashes' \in 0 .. MaxCrashes
      /\ holder' \in Drainers \cup {None}
  BY <1>0, <1>1, <1>5 DEF Plain
<1> QED BY <1>1, <1>2, <1>5, <1>6, <1>7, <1>8, <1>9, DrainerStep

(* What the page has and the file has not is numbers, all of them after the
   last line; and between the last line and the least of them there is no
   other card. *)
LEMMA MissingComesNext ==
    ASSUME IndInv, NEW c \in Drainers, task[c].pc \in {"append", "half"},
           Missing(c) # {}
    PROVE  /\ Min(Missing(c)) \in cards
           /\ Min(Missing(c)) \in task[c].entries
           /\ Min(Missing(c)) > LastLogged
           /\ \A k \in cards : LastLogged < k => Min(Missing(c)) <= k
<1> DEFINE m == Min(Missing(c))
<1>0. /\ Stands(c) /\ Page(c) /\ Plain /\ Sequenced /\ task[c] \in Task
  BY DEF IndInv, Plain
<1>1. Missing(c) = task[c].entries \ ToSet(log)
  BY <1>0 DEF Stands, Missing
<1>2. task[c].entries \subseteq task[c].seen /\ task[c].seen \subseteq cards
  BY <1>0 DEF Page
<1>3. cards \subseteq Nat
  BY <1>0 DEF Plain, Seqs
<1>4. m \in Missing(c) /\ \A x \in Missing(c) : m <= x
  BY <1>1, <1>2, <1>3, MinIsLeast
<1> HIDE DEF m
<1>5. m \in cards /\ m \in task[c].entries /\ m \in task[c].seen /\ m \notin ToSet(log)
  BY <1>1, <1>2, <1>4
<1>6. m > LastLogged
  BY <1>3, <1>5, LastIsCard
<1>7. ASSUME NEW k \in cards, LastLogged < k, k < m PROVE FALSE
  <2>1. k \in task[c].seen
    BY <1>0, <1>5, <1>7 DEF Page
  <2>2. k \notin ToSet(log)
    BY <1>3, <1>7, LastIsCard
  <2>3. k \in task[c].entries
    BY <1>0, <2>1, <2>2, DurableIsLogged DEF Page
  <2> QED BY <1>1, <1>3, <1>4, <1>5, <1>7, <2>2, <2>3
<1>8. ASSUME NEW k \in cards, LastLogged < k PROVE m <= k
  BY <1>3, <1>5, <1>7, <1>8
<1> QED BY <1>5, <1>6, <1>8 DEF m

(* The first half of a line. *)
LEMMA AppendBytesStep ==
    ASSUME IndInv, NEW c \in Drainers, AppendBytes(c)
    PROVE  IndInv'
<1> DEFINE r == [task[c] EXCEPT !.pc = "half"]
<1>0. /\ task[c] \in Task /\ task \in [Drainers -> Task]
      /\ Stands(c) /\ Page(c) /\ Plain /\ Sequenced
  BY DEF IndInv, Plain
<1>1. /\ task' = [task EXCEPT ![c] = r] /\ task[c].pc = "append"
      /\ torn' = TRUE /\ Missing(c) # {}
      /\ UNCHANGED <<last, cards, outbox, header, log, safe, holder, crashes>>
  BY <1>0 DEF AppendBytes, At, Goto
<1>2. /\ r \in Task /\ r.pc = "half" /\ r.entries = task[c].entries
      /\ r.seen = task[c].seen /\ r.have = task[c].have /\ r.tail = task[c].tail
  BY <1>0 DEF Task, PC
<1>3. task'[c] = r
  BY <1>0, <1>1
<1> HIDE DEF r
<1>4. Durable' = Durable /\ LastLogged' = LastLogged /\ ToSet(log)' = ToSet(log)
  BY <1>1 DEF Durable, LastLogged, ToSet
<1>5. Sequenced'
  BY <1>0, <1>1 DEF Sequenced
<1>6. LogIsPrefix' /\ DurableOrPending'
  BY <1>1, <1>4 DEF IndInv, LogIsPrefix, DurableOrPending
<1>7. Stands(c)'
  <2>1. Missing(c)' = Missing(c)
    BY <1>2, <1>3 DEF Missing
  <2> QED BY <1>0, <1>1, <1>2, <1>3, <1>4, <2>1 DEF Stands, Holding, Flushed
<1>8. Page(c)'
  BY <1>0, <1>1, <1>2, <1>3, <1>4 DEF Page
<1>9. /\ outbox' \subseteq cards /\ header' \in {"none", "torn", "whole"}
      /\ torn' \in BOOLEAN /\ crashes' \in 0 .. MaxCrashes
      /\ holder' \in Drainers \cup {None} /\ UNCHANGED <<header, log>>
  BY <1>0, <1>1 DEF Plain
<1> QED BY <1>1, <1>2, <1>4, <1>5, <1>6, <1>7, <1>8, <1>9, DrainerStep

(* The second half: the line that is appended is the next card. *)
LEMMA AppendNewlineStep ==
    ASSUME IndInv, NEW c \in Drainers, AppendNewline(c)
    PROVE  IndInv'
<1> DEFINE n == Min(Missing(c))
           r == [task[c] EXCEPT !.pc = "append", !.tail = n, !.have = @ \cup {n}]
<1>0. /\ task[c] \in Task /\ task \in [Drainers -> Task]
      /\ Stands(c) /\ Page(c) /\ Plain /\ Sequenced
  BY DEF IndInv, Plain
<1>1. /\ task' = [task EXCEPT ![c] = r] /\ task[c].pc = "half"
      /\ torn' = FALSE /\ log' = Append(log, n)
      /\ UNCHANGED <<last, cards, outbox, header, safe, holder, crashes>>
  BY <1>0 DEF AppendNewline, At
<1>2. /\ n \in cards /\ n > LastLogged /\ n \in Seqs
      /\ \A k \in cards : LastLogged < k => n <= k
  BY <1>0, <1>1, MissingComesNext DEF Stands, Plain
<1>3. /\ task[c].have = ToSet(log) /\ header = "whole" /\ holder = c
  BY <1>0, <1>1 DEF Stands, Holding
<1>4. /\ r \in Task /\ r.pc = "append" /\ r.entries = task[c].entries
      /\ r.seen = task[c].seen /\ r.tail = n /\ r.have = task[c].have \cup {n}
  <2> HIDE DEF n
  <2>1. task[c].have \cup {n} \subseteq Seqs /\ n \in 0 .. MaxSeq
    BY <1>0, <1>2 DEF Task, Seqs
  <2> QED BY <1>0, <2>1 DEF Task, PC
<1>5. task'[c] = r
  BY <1>0, <1>1
<1> HIDE DEF r, n
<1>6. /\ log' \in Seq(Seqs) /\ Len(log') = Len(log) + 1 /\ Len(log) \in Nat
      /\ log'[Len(log) + 1] = n
      /\ \A i \in 1 .. Len(log) : log'[i] = log[i]
  BY <1>0, <1>1, <1>2 DEF Sequenced
<1>7. \A i \in 1 .. Len(log') : i \in 1 .. Len(log) \/ i = Len(log) + 1
  BY <1>6
<1>8. LastLogged' = n
  BY <1>6 DEF LastLogged
<1>9. ToSet(log') = ToSet(log) \cup {n}
  <2>1. ASSUME NEW x \in ToSet(log') PROVE x \in ToSet(log) \cup {n}
    <3>1. PICK i \in 1 .. Len(log') : log'[i] = x
      BY <1>6, InSequence
    <3>2. CASE i \in 1 .. Len(log)
      BY <1>0, <1>6, <3>1, <3>2, InSequence DEF Sequenced
    <3>3. CASE i = Len(log) + 1
      BY <1>6, <3>1, <3>3
    <3> QED BY <1>7, <3>2, <3>3
  <2>2. ASSUME NEW x \in ToSet(log) PROVE x \in ToSet(log')
    <3>1. PICK i \in 1 .. Len(log) : log[i] = x
      BY <1>0, InSequence DEF Sequenced
    <3>2. i \in 1 .. Len(log') /\ log'[i] = x
      BY <1>6, <3>1
    <3> QED BY <1>6, <3>2, InSequence
  <2>3. n \in ToSet(log')
    <3>1. Len(log) + 1 \in 1 .. Len(log')
      BY <1>6
    <3> QED BY <1>6, <3>1, InSequence
  <2> QED BY <2>1, <2>2, <2>3
<1>10. Sequenced'
  <2>1. safe \in 0 .. Len(log') + 1
    BY <1>0, <1>6 DEF Sequenced
  <2> QED BY <1>1, <1>3, <1>6, <2>1 DEF Sequenced
<1>11. LogIsPrefix'
  <2>1. ASSUME NEW i \in 1 .. Len(log'), NEW j \in 1 .. Len(log'), i < j
        PROVE  log'[i] < log'[j]
    <3>1. i \in 1 .. Len(log)
      BY <1>6, <2>1
    <3>2. CASE j \in 1 .. Len(log)
      BY <1>6, <2>1, <3>1, <3>2 DEF IndInv, LogIsPrefix
    <3>3. CASE j = Len(log) + 1
      <4>1. log[i] \in ToSet(log)
        BY <1>0, <3>1, InSequence DEF Sequenced
      <4>2. log[i] <= LastLogged /\ LastLogged \in Nat /\ log[i] \in Nat /\ n \in Nat
        <5>1. log[i] <= LastLogged /\ LastLogged \in 0 .. MaxSeq
          BY <4>1, LastIsCard
        <5>2. log[i] \in Seqs
          BY <1>0, <3>1 DEF Sequenced
        <5> QED BY <1>2, <5>1, <5>2 DEF Seqs
      <4>3. log[i] < n
        BY <1>2, <4>2
      <4> QED BY <1>6, <3>1, <3>3, <4>3
    <3> QED BY <1>7, <3>2, <3>3
  <2>2. ASSUME NEW k \in cards PROVE k \in ToSet(log') <=> k <= n
    <3>1. k \in Nat /\ n \in Nat /\ LastLogged \in Nat
      BY <1>0, <1>2, LastIsCard DEF Plain, Seqs
    <3>2. k \in ToSet(log) <=> k <= LastLogged
      BY LastIsCard
    <3>3. LastLogged < k => n <= k
      BY <1>2
    <3> QED BY <1>2, <1>9, <3>1, <3>2, <3>3
  <2>3. ToSet(log') \subseteq cards
    BY <1>2, <1>9, LastIsCard
  <2>4. ToSet(log)' = {k \in cards' : k <= LastLogged'}
    BY <1>1, <1>8, <2>2, <2>3
  <2> QED BY <2>1, <2>4 DEF LogIsPrefix
<1>12. Durable' = Durable
  <2>1. \A i \in 1 .. safe - 1 : i \in 1 .. Len(log)
    BY <1>0 DEF Sequenced
  <2> QED BY <1>1, <1>6, <2>1 DEF Durable
<1>13. DurableOrPending'
  BY <1>1, <1>12 DEF IndInv, DurableOrPending
<1>14. Stands(c)'
  BY <1>1, <1>3, <1>4, <1>5, <1>8, <1>9 DEF Stands, Holding, Flushed
<1>15. Page(c)'
  BY <1>0, <1>1, <1>4, <1>5, <1>12 DEF Page
<1>16. /\ outbox' \subseteq cards /\ header' \in {"none", "torn", "whole"}
       /\ torn' \in BOOLEAN /\ crashes' \in 0 .. MaxCrashes
       /\ holder' \in Drainers \cup {None}
  BY <1>0, <1>1 DEF Plain
<1> QED BY <1>1, <1>3, <1>4, <1>10, <1>11, <1>12, <1>13, <1>14, <1>15, <1>16, DrainerStep

(* The file is synchronised: everything the drainer had seen is on the disk. *)
LEMMA SyncDataStep ==
    ASSUME IndInv, NEW c \in Drainers, SyncData(c)
    PROVE  IndInv'
<1> DEFINE r == [task[c] EXCEPT !.pc = "synced"]
<1>0. /\ task[c] \in Task /\ task \in [Drainers -> Task]
      /\ Stands(c) /\ Page(c) /\ Plain /\ Sequenced
  BY DEF IndInv, Plain
<1>1. /\ task' = [task EXCEPT ![c] = r] /\ task[c].pc = "append"
      /\ Missing(c) = {} /\ safe' = Len(log) + 1 /\ Unlock(c)
      /\ UNCHANGED <<last, cards, outbox, header, log, torn, crashes>>
  BY <1>0 DEF SyncData, At, Goto
<1>2. /\ r \in Task /\ r.pc = "synced" /\ r.entries = task[c].entries
      /\ r.seen = task[c].seen
  BY <1>0 DEF Task, PC
<1>3. task'[c] = r
  BY <1>0, <1>1
<1> HIDE DEF r
<1>4. header = "whole" /\ holder = c /\ task[c].have = ToSet(log)
  BY <1>0, <1>1 DEF Stands, Holding
<1>5. Durable' = ToSet(log)
  BY <1>0, <1>1, SyncedIsAll DEF Durable, Sequenced
<1>6. Durable \subseteq Durable'
  BY <1>0, <1>5, DurableIsLogged
<1>7. LastLogged' = LastLogged /\ ToSet(log)' = ToSet(log)
  BY <1>1 DEF LastLogged, ToSet
<1>8. Sequenced'
  BY <1>0, <1>1, <1>4 DEF Sequenced
<1>9. LogIsPrefix'
  BY <1>1, <1>7 DEF IndInv, LogIsPrefix
<1>10. DurableOrPending'
  BY <1>1, <1>6 DEF IndInv, DurableOrPending
<1>11. task[c].seen \subseteq Durable'
  <2>1. task[c].entries \subseteq ToSet(log)
    BY <1>1, <1>4 DEF Missing
  <2> QED BY <1>0, <1>1, <1>5, <1>6, <2>1 DEF Page
<1>12. holder' = None
  BY <1>1, <1>4 DEF Unlock
<1>13. Stands(c)'
  BY <1>1, <1>2, <1>3, <1>4, <1>11, <1>12, ConversationAssumption
     DEF Stands, Holding, Flushed
<1>14. Page(c)'
  BY <1>0, <1>1, <1>2, <1>3, <1>6 DEF Page
<1>15. /\ outbox' \subseteq cards /\ header' \in {"none", "torn", "whole"}
       /\ torn' \in BOOLEAN /\ crashes' \in 0 .. MaxCrashes
       /\ holder' \in Drainers \cup {None}
       /\ \A d \in Drainers : d # c => (holder' = d <=> holder = d)
  BY <1>0, <1>1, <1>4, <1>12, ConversationAssumption DEF Plain
<1> QED BY <1>1, <1>2, <1>4, <1>6, <1>8, <1>9, <1>10, <1>13, <1>14, <1>15, DrainerStep

-----------------------------------------------------------------------------
(* Commits and the death of the machine *)

(* A card is committed: it is the last one, and pending. *)
LEMMA CommitStep ==
    ASSUME IndInv, CommitCard \/ CommitEvent
    PROVE  IndInv'
<1>0. Plain /\ Sequenced /\ Numbered
  BY DEF IndInv
<1>1. /\ last < MaxSeq /\ last' = last + 1
      /\ \/ cards' = cards \cup {last + 1} /\ outbox' = outbox \cup {last + 1}
         \/ cards' = cards /\ outbox' = outbox /\ last > 0
      /\ UNCHANGED <<file, holder, task, crashes>>
  BY <1>0, ConversationAssumption DEF CommitCard, CommitEvent, Plain
<1>2. last \in Nat /\ MaxSeq \in Nat /\ last + 1 \in Seqs
  BY <1>0, <1>1, ConversationAssumption DEF Plain, Seqs
<1>3. /\ Durable' = Durable /\ LastLogged' = LastLogged /\ ToSet(log)' = ToSet(log)
      /\ UNCHANGED <<header, log, torn, safe>>
  BY <1>1 DEF Durable, LastLogged, ToSet, file
<1>4. Plain'
  <2>1. cards' \subseteq Seqs /\ outbox' \subseteq cards'
    BY <1>0, <1>1, <1>2 DEF Plain
  <2>2. last' \in 0 .. MaxSeq
    BY <1>1, <1>2
  <2> QED BY <1>0, <1>1, <1>3, <2>1, <2>2 DEF Plain
<1>5. Sequenced'
  BY <1>0, <1>3 DEF Sequenced
<1>6. \A n \in cards : n \in Nat /\ n <= last
  BY <1>0 DEF Plain, Numbered, Seqs
<1>7. Numbered'
  <2>1. \A n \in cards' : n <= last'
    BY <1>1, <1>2, <1>6
  <2>2. 1 \in cards'
    <3>1. CASE last = 0
      BY <1>1, <3>1
    <3>2. CASE last # 0
      BY <1>0, <1>1, <1>2, <3>2 DEF Numbered
    <3> QED BY <3>1, <3>2
  <2> QED BY <2>1, <2>2 DEF Numbered
<1>8. LogIsPrefix'
  <2>1. LastLogged \in Nat /\ LastLogged <= last
    BY LastIsCard
  <2>2. {n \in cards' : n <= LastLogged} = {n \in cards : n <= LastLogged}
    BY <1>1, <1>2, <2>1
  <2> QED BY <1>3, <2>2 DEF IndInv, LogIsPrefix
<1>9. DurableOrPending'
  BY <1>1, <1>3 DEF IndInv, DurableOrPending
<1>10. ASSUME NEW c \in Drainers PROVE Stands(c)' /\ Page(c)'
  <2>1. Stands(c) /\ Page(c) /\ UNCHANGED <<task, holder>>
    BY <1>1 DEF IndInv
  <2>2. Missing(c)' = Missing(c)
    BY <2>1 DEF Missing
  <2>3. Stands(c)'
    BY <1>3, <2>1, <2>2 DEF Stands
  <2>4. Page(c)'
    <3> SUFFICES ASSUME task[c].pc # "idle"
                 PROVE  /\ task[c].entries \subseteq task[c].seen
                        /\ task[c].seen # {}
                        /\ task[c].seen \subseteq cards'
                        /\ \A n \in task[c].seen, k \in cards' : k < n => k \in task[c].seen
                        /\ task[c].seen \subseteq task[c].entries \cup Durable'
      BY <2>1 DEF Page
    <3>1. ASSUME NEW n \in task[c].seen, NEW k \in cards', k < n
          PROVE  k \in task[c].seen
      <4>1. n \in cards
        BY <2>1 DEF Page
      <4>2. k # last + 1
        BY <1>2, <1>6, <3>1, <4>1
      <4> QED BY <1>1, <2>1, <3>1, <4>2 DEF Page
    <3> QED BY <1>1, <1>3, <2>1, <3>1 DEF Page
  <2> QED BY <2>3, <2>4
<1> QED BY <1>4, <1>5, <1>7, <1>8, <1>9, <1>10 DEF IndInv

(* A prefix of the file that keeps what is on the disk is as good. *)
LEMMA PrefixStep ==
    ASSUME IndInv, header = "whole", NEW k \in 0 .. Len(log), safe <= k + 1,
           log' = SubSeq(log, 1, k), UNCHANGED <<header, safe, cards>>
    PROVE  Sequenced' /\ LogIsPrefix' /\ Durable' = Durable
<1>0. Sequenced /\ Plain
  BY DEF IndInv
<1>1. /\ log' \in Seq(Seqs) /\ Len(log') = k /\ k \in Nat /\ k <= Len(log)
      /\ \A i \in 1 .. k : log'[i] = log[i]
  BY <1>0 DEF Sequenced
<1>2. \A i \in 1 .. k : i \in 1 .. Len(log) /\ log[i] \in Seqs
  BY <1>0, <1>1 DEF Sequenced
<1>3. Sequenced'
  <2>1. safe \in 0 .. k + 1
    BY <1>0, <1>1 DEF Sequenced
  <2> QED BY <1>1, <2>1 DEF Sequenced
<1>4. Durable' = Durable
  <2>1. \A i \in 1 .. safe - 1 : i \in 1 .. k
    BY <1>0, <1>1 DEF Sequenced
  <2> QED BY <1>1, <2>1 DEF Durable
<1>5. \A i, j \in 1 .. Len(log') : i < j => log'[i] < log'[j]
  BY <1>1, <1>2 DEF IndInv, LogIsPrefix
<1>6. ToSet(log)' = {n \in cards : n <= LastLogged'}
  <2>1. CASE k = 0
    <3>1. log' = <<>>
      BY <1>1, <2>1
    <3>2. LastLogged' = 0 /\ ToSet(log)' = {}
      BY <3>1 DEF LastLogged, ToSet
    <3>3. \A n \in cards : ~(n <= 0)
      BY <1>0 DEF Plain, Seqs
    <3> QED BY <3>2, <3>3
  <2>2. CASE k # 0
    <3>1. LastLogged' = log[k] /\ k \in 1 .. k /\ k \in 1 .. Len(log)
      BY <1>1, <2>2 DEF LastLogged
    <3>2. log[k] \in ToSet(log) /\ log[k] \in Nat
      BY <1>0, <1>2, <3>1, InSequence DEF Sequenced, Seqs
    <3>3. log[k] <= LastLogged /\ LastLogged \in Nat
      BY <3>2, LastIsCard
    <3>4. ASSUME NEW x \in ToSet(log') PROVE x \in cards /\ x <= log[k]
      <4>0. \E i \in 1 .. Len(log') : log'[i] = x
        <5>1. log' \in Seq(Seqs)
          BY <1>1
        <5> QED BY <5>1, InSequence
      <4>1. PICK i \in 1 .. k : log'[i] = x
        BY <1>1, <4>0
      <4>2. x = log[i] /\ i \in 1 .. Len(log) /\ x \in Nat
        BY <1>1, <1>2, <4>1 DEF Seqs
      <4>3. x \in cards
        BY <1>0, <4>2, InSequence, LastIsCard DEF Sequenced
      <4>4. i < k \/ i = k
        BY <1>1
      <4>5. i < k => log[i] < log[k]
        BY <3>1, <4>2 DEF IndInv, LogIsPrefix
      <4> QED BY <3>2, <4>2, <4>3, <4>4, <4>5
    <3>5. ASSUME NEW x \in cards, x <= log[k] PROVE x \in ToSet(log')
      <4>1. x \in Nat
        BY <1>0 DEF Plain, Seqs
      <4>2. x \in ToSet(log)
        BY <3>2, <3>3, <3>5, <4>1, LastIsCard
      <4>3. PICK i \in 1 .. Len(log) : log[i] = x
        BY <1>0, <4>2, InSequence DEF Sequenced
      <4>4. ~(k < i)
        BY <3>1, <3>2, <3>5, <4>1, <4>3 DEF IndInv, LogIsPrefix
      <4>5. i \in 1 .. k
        BY <1>1, <4>3, <4>4
      <4> QED BY <1>1, <4>3, <4>5, InSequence
    <3> QED BY <3>1, <3>4, <3>5
  <2> QED BY <2>1, <2>2
<1>7. LogIsPrefix'
  BY <1>5, <1>6 DEF LogIsPrefix
<1> QED BY <1>3, <1>4, <1>7

(* The machine dies: what was not synchronised may be gone. *)
LEMMA PowerStep ==
    ASSUME IndInv, PowerFailure
    PROVE  IndInv' /\ Durable' = Durable
<1>0. Plain /\ Sequenced /\ Numbered
  BY DEF IndInv
<1>1. /\ task' = [c \in Drainers |-> IdleTask] /\ holder' = None
      /\ crashes < MaxCrashes /\ crashes' = crashes + 1
      /\ UNCHANGED <<last, cards, outbox, safe>>
  BY DEF PowerFailure
<1>2. Sequenced' /\ LogIsPrefix' /\ Durable' = Durable
      /\ header' \in {"none", "torn", "whole"} /\ torn' \in BOOLEAN
  <2>1. CASE /\ header = "whole" /\ header' = header
             /\ \E n \in (IF safe = 0 THEN 1 ELSE safe) .. Len(log) + 1 :
                   /\ log' = SubSeq(log, 1, n - 1)
                   /\ torn' \in IF n <= Len(log) \/ torn THEN BOOLEAN ELSE {FALSE}
    <3>1. PICK n \in (IF safe = 0 THEN 1 ELSE safe) .. Len(log) + 1 :
                   /\ log' = SubSeq(log, 1, n - 1)
                   /\ torn' \in IF n <= Len(log) \/ torn THEN BOOLEAN ELSE {FALSE}
      BY <2>1
    <3>2. n - 1 \in 0 .. Len(log) /\ safe <= (n - 1) + 1
      BY <1>0 DEF Sequenced
    <3>3. torn' \in BOOLEAN
      BY <3>1
    <3> QED BY <1>1, <2>1, <3>1, <3>2, <3>3, PrefixStep
  <2>2. CASE /\ safe = 0 /\ log' = <<>> /\ torn' = FALSE
             /\ header' \in IF header = "none" THEN {"none"} ELSE {"none", "torn"}
    <3>1. Sequenced'
      BY <1>1, <2>2 DEF Sequenced
    <3>2. Durable = {} /\ Durable' = {}
      BY <1>1, <2>2 DEF Durable
    <3>3. LastLogged' = 0 /\ ToSet(log)' = {}
      BY <2>2 DEF LastLogged, ToSet
    <3>4. \A n \in cards : ~(n <= 0)
      BY <1>0 DEF Plain, Seqs
    <3>5. LogIsPrefix'
      BY <1>1, <2>2, <3>3, <3>4 DEF LogIsPrefix
    <3> QED BY <2>2, <3>1, <3>2, <3>5
  <2> QED BY <2>1, <2>2 DEF PowerFailure
<1>3. Plain'
  <2>1. task' \in [Drainers -> Task]
    BY <1>1, IdleTyped
  <2>2. crashes' \in 0 .. MaxCrashes
    BY <1>0, <1>1, ConversationAssumption DEF Plain
  <2> QED BY <1>0, <1>1, <1>2, <2>1, <2>2 DEF Plain
<1>4. Numbered' /\ DurableOrPending'
  BY <1>0, <1>1, <1>2 DEF IndInv, Numbered, DurableOrPending
<1>5. ASSUME NEW c \in Drainers PROVE Stands(c)' /\ Page(c)'
  <2>1. task'[c] = IdleTask /\ holder' # c
    BY <1>1, ConversationAssumption
  <2> QED BY <2>1 DEF Stands, Page, IdleTask, Holding, Flushed
<1> QED BY <1>2, <1>3, <1>4, <1>5 DEF IndInv

-----------------------------------------------------------------------------
(* The theorems *)

(* Every step keeps the invariant. *)
LEMMA IndNext ==
    ASSUME IndInv, [LogNext]_logVars
    PROVE  IndInv'
<1>1. CASE UNCHANGED logVars
  BY <1>1 DEF logVars, file, IndInv, Plain, Sequenced, Numbered, LogIsPrefix,
              DurableOrPending, Stands, Page, Durable, LastLogged, Missing, ToSet
<1>2. CASE CommitCard \/ CommitEvent
  BY <1>2, CommitStep
<1>3. ASSUME NEW c \in Drainers, Drain(c) \/ Crash(c) PROVE IndInv'
  BY <1>3, ReadOutboxStep, LockStep, HeaderStep, RepairStep, RefusedStep,
     AppendBytesStep, AppendNewlineStep, SyncDataStep, AcknowledgeStep,
     ReadBackStep DEF Drain
<1>4. CASE PowerFailure
  BY <1>4, PowerStep
<1> QED BY <1>1, <1>2, <1>3, <1>4 DEF LogNext

(* The invariant says that drainers agree and that readers see what was
   committed before they asked. *)
LEMMA IndImplies == IndInv => ConversationLogCorrect
<1> SUFFICES ASSUME IndInv PROVE ConversationLogCorrect
  OBVIOUS
<1>1. LogTypeOK
  BY TypesTogether DEF IndInv
<1>2. DrainsAgree
  <2> SUFFICES ASSUME NEW c \in Drainers
               PROVE  /\ At(c, "append") /\ Missing(c) # {}
                            => Min(Missing(c)) > task[c].tail
                      /\ At(c, "locked") /\ header = "none" => task[c].entries # {}
                      /\ At(c, "reading") => header = "whole"
    BY DEF DrainsAgree
  <2>0. Stands(c) /\ Page(c) /\ Sequenced
    BY DEF IndInv
  <2>1. ASSUME At(c, "append"), Missing(c) # {}
        PROVE  Min(Missing(c)) > task[c].tail
    BY <2>0, <2>1, MissingComesNext DEF At, Stands
  <2>2. ASSUME At(c, "locked"), header = "none" PROVE task[c].entries # {}
    <3>1. Durable = {}
      BY <2>0, <2>2 DEF Sequenced, Durable
    <3> QED BY <2>0, <2>2, <3>1 DEF At, Page
  <2>3. ASSUME At(c, "reading") PROVE header = "whole"
    BY <2>0, <2>3 DEF At, Stands, Flushed
  <2> QED BY <2>1, <2>2, <2>3
<1>3. ReadersSeeCommits
  BY DEF IndInv, Stands, ReadersSeeCommits, At
<1> QED BY <1>1, <1>2, <1>3 DEF IndInv, ConversationLogCorrect

(* The log is correct for any number of drainers, cards and crashes: the file
   is a prefix of the cards, a card is on the disk or in the outbox, a stale
   page is never mistaken for damage, and a reader sees every card committed
   before it asked (sync_session_conversation, ConversationStore::sync and
   read, acknowledge_conversation_outbox). *)
THEOREM LogSafety == LogSpec => []ConversationLogCorrect
<1>1. LogInit => IndInv
  BY IndInit
<1>2. IndInv /\ [LogNext]_logVars => IndInv'
  BY IndNext
<1>3. IndInv => ConversationLogCorrect
  BY IndImplies
<1> QED BY <1>1, <1>2, <1>3, PTL DEF LogSpec

(* A step adds to the file behind its last line and keeps or moves back the
   end of what is synchronised; only a machine that dies takes lines away, and
   never one before that end. *)
LEMMA DurableKept ==
    ASSUME IndInv, [LogNext]_logVars
    PROVE  Durable \subseteq Durable'
<1>0. /\ Sequenced /\ LogIsPrefix /\ Plain
      /\ \A c \in Drainers : Stands(c)
  BY DEF IndInv
<1>1. ASSUME UNCHANGED <<log, safe>> PROVE Durable' = Durable
  BY <1>1 DEF Durable
<1>2. CASE UNCHANGED logVars
  BY <1>1, <1>2 DEF logVars, file
<1>3. CASE CommitCard \/ CommitEvent
  BY <1>1, <1>3 DEF CommitCard, CommitEvent, file
<1>4. ASSUME NEW c \in Drainers,
             \/ ReadOutbox(c) \/ Lock(c) \/ WriteHeader(c) \/ FinishHeader(c)
             \/ RepairRefused(c) \/ AppendBytes(c) \/ AppendRefused(c)
             \/ Acknowledge(c) \/ ReadRefused(c) \/ Done(c) \/ Crash(c)
      PROVE  Durable \subseteq Durable'
  BY <1>1, <1>4 DEF ReadOutbox, Lock, WriteHeader, FinishHeader, RepairRefused,
     AppendBytes, AppendRefused, Acknowledge, ReadRefused, Done, Crash, Refused, file
<1>5. ASSUME NEW c \in Drainers, SyncHeader(c) PROVE Durable \subseteq Durable'
  <2>1. log = <<>>
    BY <1>0, <1>5 DEF SyncHeader, At, Stands
  <2>2. safe \in {0, 1}
    BY <1>0, <2>1 DEF Sequenced
  <2> QED BY <2>2 DEF Durable
<1>6. ASSUME NEW c \in Drainers, Repair(c) \/ ReadBack(c)
      PROVE  Durable \subseteq Durable'
  <2>1. header = "whole" /\ Truncate /\ UNCHANGED cards
    BY <1>0, <1>6 DEF Repair, ReadBack, At, Stands, Flushed
  <2> QED BY <1>0, <2>1, TruncateKeeps
<1>7. ASSUME NEW c \in Drainers, AppendNewline(c) PROVE Durable \subseteq Durable'
  <2>1. \A i \in 1 .. safe - 1 : i \in 1 .. Len(log)
    BY <1>0 DEF Sequenced
  <2> DEFINE n == Min(Missing(c))
  <2>2. log' = Append(log, n) /\ safe' = safe /\ n \in Seqs
    <3>1. n \in cards
      BY <1>0, <1>7, MissingComesNext DEF AppendNewline, At, Stands
    <3> QED BY <1>0, <1>7, <3>1 DEF AppendNewline, Plain
  <2> HIDE DEF n
  <2>3. \A i \in 1 .. Len(log) : log'[i] = log[i]
    BY <1>0, <2>2 DEF Sequenced
  <2> QED BY <2>1, <2>2, <2>3 DEF Durable
<1>8. ASSUME NEW c \in Drainers, SyncData(c) PROVE Durable \subseteq Durable'
  <2>1. safe' = Len(log) + 1 /\ log' = log
    BY <1>8 DEF SyncData
  <2>2. Durable' = ToSet(log)
    BY <1>0, <2>1, SyncedIsAll DEF Durable, Sequenced
  <2> QED BY <1>0, <2>2, DurableIsLogged
<1>9. CASE PowerFailure
  BY <1>9, PowerStep
<1> QED BY <1>2, <1>3, <1>4, <1>5, <1>6, <1>7, <1>8, <1>9 DEF LogNext, Drain

(* No step takes a line away that the disk has: repair cuts off a torn line
   only, and no machine that dies loses what was synchronised
   (repair_and_read, sync_data in ConversationStore::sync). *)
THEOREM LinesStay == LogSpec => DurableStays
<1>1. ASSUME IndInv, [LogNext]_logVars PROVE Durable \subseteq ToSet(log')
  <2>1. Durable \subseteq Durable'
    BY <1>1, DurableKept
  <2>2. Sequenced'
    BY <1>1, IndNext DEF IndInv
  <2>3. Durable' \subseteq ToSet(log')
    <3>0. log' \in Seq(Seqs) /\ safe' \in 0 .. Len(log') + 1
      BY <2>2 DEF Sequenced
    <3>1. \A i \in 1 .. safe' - 1 : i \in 1 .. Len(log')
      <4> DEFINE k == Len(log')
                 m == safe'
      <4>1. k \in Nat /\ m \in 0 .. k + 1
        BY <3>0
      <4> HIDE DEF k, m
      <4>2. \A i \in 1 .. m - 1 : i \in 1 .. k
        BY <4>1
      <4> QED BY <4>2 DEF k, m
    <3>2. \A i \in 1 .. Len(log') : log'[i] \in ToSet(log')
      BY DEF ToSet
    <3> QED BY <3>1, <3>2 DEF Durable
  <2> QED BY <2>1, <2>3
<1>2. LogInit => IndInv
  BY IndInit
<1>3. IndInv /\ [LogNext]_logVars => IndInv'
  BY IndNext
<1>4. IndInv /\ [LogNext]_logVars => [Durable \subseteq ToSet(log')]_logVars
  BY <1>1
<1> QED BY <1>2, <1>3, <1>4, PTL DEF LogSpec, DurableStays
=============================================================================
