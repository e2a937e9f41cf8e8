------------------------- MODULE SessionStoreProofs -------------------------
(* Proofs about SessionStore, for every set of effects and every bound. *)
EXTENDS SessionStore, TLAPS

-----------------------------------------------------------------------------
(* What the transitions of TurnState do to each field of a turn record *)

(* Advance sets the status, adds one to the revision and keeps the rest. *)
LEMMA AdvanceFields ==
    ASSUME NEW t \in TurnRecord, NEW s \in Status
    PROVE LET n == Advance(t, s) IN
          /\ n \in TurnRecord
          /\ n.status = s
          /\ n.revision = t.revision + 1
          /\ n.permission = t.permission
          /\ n.input = t.input
          /\ n.failure = t.failure
          /\ n.token = t.token
  <1>1. t.revision + 1 \in Nat
    BY DEF TurnRecord
  <1>2. Advance(t, s) \in TurnRecord
    BY <1>1 DEF Advance, TurnRecord
  <1>3. /\ Advance(t, s).status = s
        /\ Advance(t, s).revision = t.revision + 1
    BY DEF Advance, TurnRecord
  <1>4. /\ Advance(t, s).permission = t.permission
        /\ Advance(t, s).input = t.input
        /\ Advance(t, s).failure = t.failure
        /\ Advance(t, s).token = t.token
    BY DEF Advance, TurnRecord
  <1> QED BY <1>2, <1>3, <1>4

(* Setting the pending permission keeps the other fields. *)
LEMMA SetPermission ==
    ASSUME NEW t \in TurnRecord, NEW p \in Effects \cup {None}
    PROVE LET n == [t EXCEPT !.permission = p] IN
          /\ n \in TurnRecord
          /\ n.permission = p
          /\ n.status = t.status
          /\ n.revision = t.revision
          /\ n.input = t.input
          /\ n.failure = t.failure
          /\ n.token = t.token
  BY DEF TurnRecord

(* Setting the failure keeps the other fields. *)
LEMMA SetFailure ==
    ASSUME NEW t \in TurnRecord, NEW c \in Failure
    PROVE LET n == [t EXCEPT !.failure = c] IN
          /\ n \in TurnRecord
          /\ n.failure = c
          /\ n.status = t.status
          /\ n.revision = t.revision
          /\ n.permission = t.permission
          /\ n.input = t.input
          /\ n.token = t.token
  BY DEF TurnRecord

(* Setting the writer's token, which the storage layer does on every commit,
   keeps the other fields. *)
LEMMA SetToken ==
    ASSUME NEW t \in TurnRecord, NEW k \in Nat
    PROVE LET n == [t EXCEPT !.token = k] IN
          /\ n \in TurnRecord
          /\ n.token = k
          /\ n.status = t.status
          /\ n.revision = t.revision
          /\ n.permission = t.permission
          /\ n.input = t.input
          /\ n.failure = t.failure
  BY DEF TurnRecord

(* Dropping both pending requests, as recovery and cancellation do. *)
LEMMA DropRequests ==
    ASSUME NEW t \in TurnRecord
    PROVE LET n == [t EXCEPT !.permission = None, !.input = FALSE] IN
          /\ n \in TurnRecord
          /\ n.status = t.status
          /\ n.revision = t.revision
          /\ n.failure = t.failure
          /\ n.token = t.token
  BY DEF TurnRecord

(* A turn as the two creating transactions leave it: running, revision 1. *)
LEMMA StartFields ==
    /\ Start(Queued) \in TurnRecord
    /\ Start(Queued).status = "running"
    /\ Start(Queued).revision = 1
  <1>1. Queued \in TurnRecord /\ Queued.revision = 0
    BY DEF Queued, NoTurn, TurnRecord, Status, Failure
  <1> QED BY <1>1, AdvanceFields DEF Start, Status

(* Transition::RequestPermission parks the turn on the effect asked about. *)
LEMMA RequestPermissionFields ==
    ASSUME NEW t \in TurnRecord, NEW e \in Effects
    PROVE LET n == RequestPermission(t, e) IN
          /\ n \in TurnRecord
          /\ n.status = "waiting_permission"
          /\ n.permission = e
          /\ n.revision = t.revision + 1
  BY AdvanceFields, SetPermission DEF RequestPermission, Status

(* Transition::ResolvePermission, allowed: the turn runs on. *)
LEMMA AllowPermissionFields ==
    ASSUME NEW t \in TurnRecord
    PROVE LET n == AllowPermission(t) IN
          /\ n \in TurnRecord
          /\ n.status = "running"
          /\ n.revision = t.revision + 1
  <1> DEFINE a == Advance(t, "running")
  <1>1. a \in TurnRecord /\ a.status = "running" /\ a.revision = t.revision + 1
    BY AdvanceFields DEF Status
  <1> HIDE DEF a
  <1>2. LET n == [a EXCEPT !.permission = None] IN
          n \in TurnRecord /\ n.status = a.status /\ n.revision = a.revision
    BY <1>1, SetPermission
  <1> QED BY <1>1, <1>2 DEF AllowPermission, a

(* Transition::ResolvePermission, denied: the turn fails as denied. *)
LEMMA DenyPermissionFields ==
    ASSUME NEW t \in TurnRecord
    PROVE LET n == DenyPermission(t) IN
          /\ n \in TurnRecord
          /\ n.status = "failed"
          /\ n.failure = "denied"
          /\ n.revision = t.revision + 1
  <1> DEFINE a == Advance(t, "failed")
  <1>1. a \in TurnRecord /\ a.status = "failed" /\ a.revision = t.revision + 1
    BY AdvanceFields DEF Status
  <1> HIDE DEF a
  <1>2. LET n == [a EXCEPT !.permission = None, !.failure = "denied"] IN
          /\ n \in TurnRecord
          /\ n.status = a.status
          /\ n.failure = "denied"
          /\ n.revision = a.revision
    BY <1>1 DEF TurnRecord, Failure
  <1> QED BY <1>1, <1>2 DEF DenyPermission, a

(* Transition::RequestInput parks the turn, ProvideInput resumes it. *)
LEMMA InputFields ==
    ASSUME NEW t \in TurnRecord
    PROVE /\ RequestInput(t) \in TurnRecord
          /\ RequestInput(t).status = "waiting_input"
          /\ RequestInput(t).revision = t.revision + 1
          /\ ProvideInput(t) \in TurnRecord
          /\ ProvideInput(t).status = "running"
          /\ ProvideInput(t).revision = t.revision + 1
  <1> DEFINE w == Advance(t, "waiting_input")
             r == Advance(t, "running")
  <1>1. /\ w \in TurnRecord /\ w.status = "waiting_input"
        /\ w.revision = t.revision + 1
        /\ r \in TurnRecord /\ r.status = "running"
        /\ r.revision = t.revision + 1
    BY AdvanceFields DEF Status
  <1> HIDE DEF w, r
  <1>2. LET n == [w EXCEPT !.input = TRUE] IN
          n \in TurnRecord /\ n.status = w.status /\ n.revision = w.revision
    BY <1>1 DEF TurnRecord
  <1>3. LET n == [r EXCEPT !.input = FALSE] IN
          n \in TurnRecord /\ n.status = r.status /\ n.revision = r.revision
    BY <1>1 DEF TurnRecord
  <1> QED BY <1>1, <1>2, <1>3 DEF RequestInput, ProvideInput, w, r

(* Cancel then Interrupt, the pair every interruption applies. *)
LEMMA InterruptFields ==
    ASSUME NEW t \in TurnRecord
    PROVE LET n == Interrupt(Cancel(t)) IN
          /\ n \in TurnRecord
          /\ n.status = "interrupted"
          /\ n.revision = t.revision + 2
  <1> DEFINE a == Advance(t, "cancelling")
             c == [a EXCEPT !.input = FALSE, !.permission = None]
  <1>1. a \in TurnRecord /\ a.revision = t.revision + 1
    BY AdvanceFields DEF Status
  <1> HIDE DEF a
  <1>2. c \in TurnRecord /\ c.revision = a.revision
    BY <1>1 DEF TurnRecord
  <1>3. Cancel(t) = c
    BY DEF Cancel, a
  <1> HIDE DEF c
  <1>4. t.revision \in Nat
    BY DEF TurnRecord
  <1> QED BY <1>1, <1>2, <1>3, <1>4, AdvanceFields DEF Interrupt, Status

(* Transition::Fail ends the turn with the class of its failure. *)
LEMMA FailFields ==
    ASSUME NEW t \in TurnRecord, NEW c \in Failure
    PROVE LET n == Fail(t, c) IN
          /\ n \in TurnRecord
          /\ n.status = "failed"
          /\ n.failure = c
          /\ n.revision = t.revision + 1
  BY AdvanceFields, SetFailure DEF Fail, Status

(* Transition::Complete ends the turn. *)
LEMMA CompleteFields ==
    ASSUME NEW t \in TurnRecord
    PROVE LET n == Complete(t, TRUE) IN
          /\ n \in TurnRecord
          /\ n.status = "completed"
          /\ n.revision = t.revision + 1
  BY AdvanceFields DEF Complete, Status

-----------------------------------------------------------------------------
(* The inductive invariant *)

(* The one lease row carries the newest token or none, and no turn carries a
   token that was never issued. *)
Fences ==
    /\ lease.token \in {0, epoch}
    /\ \A t \in Turns : turns[t].token <= epoch

(* Turns exist up to the latest one. *)
Chronology ==
    /\ \A t \in Turns : turns[t].status = "none" <=> t > latest
    /\ life = "absent" => latest = 0 /\ rev = 0

(* The columns of the effect row and the permission row of one effect, which
   are written at different times, fit together. *)
EffectWellFormed(e) ==
    LET r == effects[e] IN
    /\ r.status = "absent" => /\ r.policy = "none"
                              /\ r.outcome = "none"
                              /\ e \notin consent
                              /\ perms[e].state = "absent"
    /\ r.status # "absent" => /\ r.turn \in 1 .. latest
                              /\ r.policy \in {"allow", "ask"}
    /\ r.policy = "ask" => perms[e].state # "absent"
    /\ e \in consent => r.policy = "ask"
    /\ r.status \in {"prepared", "started"} => r.outcome = "none"
    /\ r.status = "unknown" => r.outcome = "uncertain"
    /\ r.status \in {"observed_success", "observed_failed"} =>
          r.outcome \in {"observed", "never_started", "acknowledged"}
    /\ r.outcome = "acknowledged" => life = "failed"

(* A prepared effect belongs to the turn that is going, and under policy Ask
   the turn is parked on it until the user allows it; or it was left behind by
   an interruption, after which the session never runs again. *)
PreparedIsCurrent(e) ==
    effects[e].status = "prepared" =>
        \/ life = "interrupted"
        \/ /\ life = "running"
           /\ effects[e].turn = active.turn
           /\ effects[e].policy = "ask" => e \in consent
        \/ /\ life = "waiting_permission"
           /\ effects[e].turn = active.turn
           /\ turns[active.turn].permission = e
           /\ e \notin consent

(* One effect at a time. *)
OneInFlight ==
    \A e, f \in Effects :
        /\ active.turn # 0
        /\ effects[e].turn = active.turn /\ effects[f].turn = active.turn
        /\ effects[e].status \in {"prepared", "started"}
        /\ effects[f].status \in {"prepared", "started"}
        => e = f

(* The parts of the invariant that do not look at effects ... *)
TurnInv ==
    /\ Fences
    /\ Chronology
    /\ LifecycleAgrees
    /\ RecoveryCanFindTurn

(* ... and those that do. *)
EffectInv ==
    /\ \A e \in Effects : EffectWellFormed(e) /\ PreparedIsCurrent(e)
    /\ OneInFlight
    /\ PermissionCanBeResolved
    /\ StartedWithConsent
    /\ StartedIsWatched
    /\ ReconciliationMatchesUnknown

IndInv == TypeOK /\ TurnInv /\ EffectInv

-----------------------------------------------------------------------------
(* What the building blocks of the actions do, field by field *)

(* The turn table after a write of record n, with token k, over turn t. *)
TurnWritten(t, n, k) ==
    /\ turns' \in [Turns -> TurnRecord]
    /\ turns'[t].status = n.status
    /\ turns'[t].revision = n.revision
    /\ turns'[t].permission = n.permission
    /\ turns'[t].failure = n.failure
    /\ turns'[t].token = k
    /\ \A u \in Turns : u # t => turns'[u] = turns[u]

(* The statement "UPDATE turns" of every commit. *)
LEMMA WriteTurn ==
    ASSUME TypeOK, NEW k \in Nat, NEW t \in Turns, NEW n \in TurnRecord,
           turns' = [turns EXCEPT ![t] = [n EXCEPT !.token = k]]
    PROVE  TurnWritten(t, n, k)
  <1> DEFINE m == [n EXCEPT !.token = k]
  <1>1. /\ m \in TurnRecord
        /\ m.status = n.status
        /\ m.revision = n.revision
        /\ m.permission = n.permission
        /\ m.failure = n.failure
        /\ m.token = k
    BY SetToken
  <1> HIDE DEF m
  <1>2. turns' = [turns EXCEPT ![t] = m]
    BY DEF m
  <1>3. turns'[t] = m /\ turns' \in [Turns -> TurnRecord]
        /\ \A u \in Turns : u # t => turns'[u] = turns[u]
    BY <1>1, <1>2 DEF TypeOK
  <1> QED BY <1>1, <1>3 DEF TurnWritten

(* A commit that leaves the turn in flight. *)
LEMMA ProceedFacts ==
    ASSUME TypeOK, NEW k \in Nat, NEW t \in Turns, NEW n \in TurnRecord,
           NEW l, Proceed(k, t, n, l)
    PROVE  /\ TurnWritten(t, n, k)
           /\ active' \in [turn: 0 .. MaxTurns, token: Nat]
           /\ active'.turn = active.turn
           /\ active'.token = IF active.turn = 0 THEN active.token ELSE k
           /\ life' = l
           /\ rev' = rev + 1
           /\ rev' \in Nat
           /\ latest' = t
           /\ latest' \in 0 .. MaxTurns
           /\ lease' = lease
           /\ epoch' = epoch
  <1>1. TurnWritten(t, n, k)
    BY WriteTurn DEF Proceed
  <1>2. /\ active' \in [turn: 0 .. MaxTurns, token: Nat]
        /\ active'.turn = active.turn
        /\ active'.token = IF active.turn = 0 THEN active.token ELSE k
    BY DEF Proceed, TypeOK
  <1> QED BY <1>1, <1>2, BoundsAssumption DEF Proceed, TypeOK, Turns

(* A commit that ends the turn: its lease dies in the same transaction. *)
LEMMA ConcludeFacts ==
    ASSUME TypeOK, NEW k \in Nat, NEW t \in Turns, NEW n \in TurnRecord,
           NEW l, Conclude(k, t, n, l)
    PROVE  /\ TurnWritten(t, n, k)
           /\ active' \in [turn: 0 .. MaxTurns, token: Nat]
           /\ active'.turn = 0
           /\ life' = l
           /\ rev' = rev + 1
           /\ rev' \in Nat
           /\ latest' = t
           /\ latest' \in 0 .. MaxTurns
           /\ lease' \in [token: Nat, live: BOOLEAN]
           /\ lease'.token = lease.token
           /\ epoch' = epoch
  <1>1. TurnWritten(t, n, k)
    BY WriteTurn DEF Conclude
  <1>2. active' \in [turn: 0 .. MaxTurns, token: Nat] /\ active'.turn = 0
    BY BoundsAssumption DEF Conclude, NoActive
  <1>3. lease' \in [token: Nat, live: BOOLEAN] /\ lease'.token = lease.token
    BY DEF Conclude, TypeOK
  <1> QED BY <1>1, <1>2, <1>3, BoundsAssumption DEF Conclude, TypeOK, Turns

-----------------------------------------------------------------------------
(* Every commit preserves the invariant *)

(* A commit that passed the fences of the active turn knows that turn. *)
LEMMA FencedFacts ==
    ASSUME TypeOK, TurnInv, NEW k \in Nat \ {0}, NEW sr, NEW tr,
           FencedActive(k, sr, active.turn, tr)
    PROVE  /\ active.turn \in Turns
           /\ turns[active.turn] \in TurnRecord
           /\ turns[active.turn].status = life
           /\ turns[active.turn].revision = tr
           /\ tr \in Nat
           /\ latest = active.turn
           /\ life \in InFlight
           /\ k = epoch
  <1>1. /\ active.turn \in 0 .. MaxTurns
        /\ active.turn # 0
        /\ turns[active.turn].revision = tr
        /\ lease.token = k
    BY DEF TypeOK, FencedActive, Fenced, Live
  <1>2. active.turn \in Turns
    BY <1>1, BoundsAssumption DEF Turns
  <1>3. turns[active.turn] \in TurnRecord /\ tr \in Nat
    BY <1>1, <1>2 DEF TypeOK, TurnRecord
  <1>4. /\ turns[active.turn].status = life
        /\ latest = active.turn
        /\ life \in InFlight
    BY <1>1 DEF TurnInv, LifecycleAgrees
  <1>5. k = epoch
    BY <1>1 DEF TurnInv, Fences
  <1> QED BY <1>1, <1>2, <1>3, <1>4, <1>5

(* A commit that keeps the turn in flight, with the lifecycle that its new
   status calls for, preserves what is said of turns. *)
LEMMA ProceedInv ==
    ASSUME TypeOK, TurnInv, NEW k \in Nat, k <= epoch, NEW n \in TurnRecord,
           NEW l \in InFlight, n.status = l, active.turn \in Turns, k # 0,
           Proceed(k, active.turn, n, l)
    PROVE  TurnInv'
  <1> DEFINE t == active.turn
  <1>1. /\ TurnWritten(t, n, k)
        /\ active'.turn = t
        /\ t # 0
        /\ active'.token = k
        /\ life' = l
        /\ latest' = t
        /\ lease' = lease
        /\ epoch' = epoch
    BY ProceedFacts DEF Turns
  <1>2. latest = t
    BY <1>1 DEF TurnInv, LifecycleAgrees
  <1>3. Fences'
    BY <1>1 DEF TurnInv, Fences, TurnWritten
  <1>4. Chronology'
    BY <1>1, <1>2 DEF TurnInv, Chronology, TurnWritten, InFlight, Turns
  <1>5. LifecycleAgrees'
    BY <1>1, <1>2 DEF TurnInv, LifecycleAgrees, TurnWritten, InFlight
  <1>6. RecoveryCanFindTurn'
    BY <1>1 DEF RecoveryCanFindTurn, TurnWritten
  <1> QED BY <1>3, <1>4, <1>5, <1>6 DEF TurnInv

(* So does a commit that ends the turn and deletes the active row. *)
LEMMA ConcludeInv ==
    ASSUME TypeOK, TurnInv, NEW k \in Nat, k <= epoch, NEW n \in TurnRecord,
           NEW t \in Turns, latest = t,
           active.turn \in {0, t},
           NEW l \in Lifecycle \ (InFlight \cup {"absent"}),
           n.status \in Terminal, l = "ready" => AcceptsFollowUp(n),
           Conclude(k, t, n, l)
    PROVE  TurnInv'
  <1>1. /\ TurnWritten(t, n, k)
        /\ active'.turn = 0
        /\ life' = l
        /\ latest' = t
        /\ lease'.token = lease.token
        /\ epoch' = epoch
    BY ConcludeFacts
  <1>3. Fences'
    BY <1>1 DEF TurnInv, Fences, TurnWritten
  <1>4. Chronology'
    BY <1>1 DEF TurnInv, Chronology, TurnWritten, Terminal, Turns
  <1>5. LifecycleAgrees'
    BY <1>1 DEF TurnInv, LifecycleAgrees, TurnWritten, InFlight, Terminal, AcceptsFollowUp, Turns
  <1>6. RecoveryCanFindTurn'
    BY <1>1 DEF RecoveryCanFindTurn
  <1> QED BY <1>3, <1>4, <1>5, <1>6 DEF TurnInv

-----------------------------------------------------------------------------
(* Commits that touch no effect *)

(* No effect is under way when the session is idle, waits for input, or its
   client has closed what it had in hand. *)
AtRest ==
    \A e \in Effects :
        /\ effects[e].status \notin {"prepared", "started", "unknown"}
        /\ effects[e].outcome # "acknowledged"

(* In a session with nothing in hand every effect is settled: this is what the
   assumption about clients buys. *)
LEMMA RestFacts ==
    ASSUME IndInv,
           \/ life \in {"absent", "ready", "waiting_input"}
           \/ life = "running" /\ NothingInFlight
    PROVE  AtRest
  <1> SUFFICES ASSUME NEW e \in Effects
               PROVE  /\ effects[e].status \notin {"prepared", "started", "unknown"}
                      /\ effects[e].outcome # "acknowledged"
    BY DEF AtRest
  <1>1. effects[e].status # "unknown" /\ effects[e].outcome # "acknowledged"
    BY DEF IndInv, EffectInv, ReconciliationMatchesUnknown, EffectWellFormed
  <1>2. CASE life \in {"absent", "ready", "waiting_input"}
    BY <1>1, <1>2 DEF IndInv, EffectInv, PreparedIsCurrent, StartedIsWatched
  <1>3. CASE life = "running" /\ NothingInFlight
    <2>1. active.turn # 0
      BY <1>3 DEF IndInv, TurnInv, LifecycleAgrees, InFlight
    <2>2. effects[e].status \in {"prepared", "started"}
             => effects[e].turn = active.turn
      BY <1>3 DEF IndInv, EffectInv, PreparedIsCurrent, StartedIsWatched
    <2> QED BY <1>1, <1>3, <2>1, <2>2 DEF NothingInFlight, OfTurn
  <1> QED BY <1>2, <1>3

(* Nothing happens to effects at rest while the session moves on. *)
LEMMA RestInv ==
    ASSUME IndInv, AtRest, UNCHANGED <<effects, perms, consent>>,
           latest' \in Nat, latest' >= latest,
           life' \notin {"waiting_permission", "reconciliation_required"}
    PROVE  EffectInv'
  <1>1. \A e \in Effects : EffectWellFormed(e)'
    BY DEF IndInv, TypeOK, EffectInv, EffectWellFormed, AtRest
  <1>2. \A e \in Effects : PreparedIsCurrent(e)'
    BY DEF AtRest, PreparedIsCurrent
  <1>3. OneInFlight'
    BY DEF AtRest, OneInFlight
  <1>4. PermissionCanBeResolved' /\ ReconciliationMatchesUnknown'
    BY DEF AtRest, PermissionCanBeResolved, ReconciliationMatchesUnknown
  <1>5. StartedWithConsent' /\ StartedIsWatched'
    BY DEF IndInv, EffectInv, AtRest, StartedWithConsent, StartedIsWatched
  <1> QED BY <1>1, <1>2, <1>3, <1>4, <1>5 DEF EffectInv

(* RequestInput parks the turn with every effect settled. *)
LEMMA RequestInputInv ==
    ASSUME IndInv, NEW k \in Nat \ {0}, NEW sr, NEW tr,
           NothingInFlight, CommitRequestInput(k, sr, tr)
    PROVE  IndInv'
  <1> DEFINE t == active.turn
             n == RequestInput(turns[t])
  <1> USE DEF IndInv
  <1>1. /\ t \in Turns /\ turns[t] \in TurnRecord /\ latest = t
        /\ turns[t].status = life /\ k = epoch
    BY FencedFacts DEF CommitRequestInput
  <1>2. /\ life = "running"
        /\ Proceed(k, t, n, "waiting_input")
        /\ UNCHANGED <<effects, perms, consent>>
    BY <1>1 DEF CommitRequestInput, CanRequestInput
  <1>3. n \in TurnRecord /\ n.status = "waiting_input"
    BY <1>1, InputFields
  <1> HIDE DEF n
  <1>4. TurnInv'
    BY <1>1, <1>2, <1>3, ProceedInv DEF InFlight
  <1>5. TypeOK' /\ latest' = latest /\ life' = "waiting_input"
    BY <1>1, <1>2, <1>3, ProceedFacts DEF TypeOK, TurnWritten, Lifecycle
  <1>6. EffectInv'
    BY <1>2, <1>5, RestFacts, RestInv DEF TypeOK
  <1> QED BY <1>4, <1>5, <1>6

(* ProvideInput resumes a turn that was parked with every effect settled. *)
LEMMA ProvideInputInv ==
    ASSUME IndInv, NEW k \in Nat \ {0}, NEW sr, NEW tr,
           CommitProvideInput(k, sr, tr)
    PROVE  IndInv'
  <1> DEFINE t == active.turn
             n == ProvideInput(turns[t])
  <1> USE DEF IndInv
  <1>1. /\ t \in Turns /\ turns[t] \in TurnRecord /\ latest = t
        /\ turns[t].status = life /\ k = epoch
    BY FencedFacts DEF CommitProvideInput
  <1>2. /\ life = "waiting_input"
        /\ Proceed(k, t, n, "running")
        /\ UNCHANGED <<effects, perms, consent>>
    BY <1>1 DEF CommitProvideInput, CanProvideInput
  <1>3. n \in TurnRecord /\ n.status = "running"
    BY <1>1, InputFields
  <1> HIDE DEF n
  <1>4. TurnInv'
    BY <1>1, <1>2, <1>3, ProceedInv DEF InFlight
  <1>5. TypeOK' /\ latest' = latest /\ life' = "running"
    BY <1>1, <1>2, <1>3, ProceedFacts DEF TypeOK, TurnWritten, Lifecycle
  <1>6. EffectInv'
    BY <1>2, <1>5, RestFacts, RestInv DEF TypeOK
  <1> QED BY <1>4, <1>5, <1>6

(* Complete and CompleteVerified end the turn with every effect settled. *)
LEMMA CompleteInv ==
    ASSUME IndInv, NEW k \in Nat \ {0}, NEW sr, NEW tr,
           NothingInFlight, CommitComplete(k, sr, tr)
    PROVE  IndInv'
  <1> DEFINE t == active.turn
             n == Complete(turns[t], TRUE)
  <1> USE DEF IndInv
  <1>1. /\ t \in Turns /\ turns[t] \in TurnRecord /\ latest = t
        /\ turns[t].status = life /\ k = epoch
    BY FencedFacts DEF CommitComplete
  <1>2. /\ life = "running"
        /\ Conclude(k, t, n, "ready")
        /\ UNCHANGED <<effects, perms, consent>>
    BY <1>1 DEF CommitComplete, CanComplete
  <1>3. n \in TurnRecord /\ n.status = "completed"
    BY <1>1, CompleteFields
  <1> HIDE DEF n
  <1>4. TurnInv'
    BY <1>1, <1>2, <1>3, ConcludeInv
       DEF InFlight, Lifecycle, Terminal, AcceptsFollowUp
  <1>5. TypeOK' /\ latest' = latest /\ life' = "ready"
    BY <1>1, <1>2, <1>3, ConcludeFacts DEF TypeOK, TurnWritten, Lifecycle
  <1>6. EffectInv'
    BY <1>2, <1>5, RestFacts, RestInv DEF TypeOK
  <1> QED BY <1>4, <1>5, <1>6

(* Fail leaves the session ready exactly when a follow-up is acceptable. *)
LEMMA FailInv ==
    ASSUME IndInv, NEW k \in Nat \ {0}, NEW sr, NEW tr,
           NEW class \in {"retryable", "terminal"},
           NothingInFlight, CommitFail(k, sr, tr, class)
    PROVE  IndInv'
  <1> DEFINE t == active.turn
             n == Fail(turns[t], class)
             l == IF class = "retryable" THEN "ready" ELSE "failed"
  <1> USE DEF IndInv
  <1>1. /\ t \in Turns /\ turns[t] \in TurnRecord /\ latest = t
        /\ turns[t].status = life /\ life \in InFlight /\ k = epoch
    BY FencedFacts DEF CommitFail
  <1>2. /\ life = "running"
        /\ Conclude(k, t, n, l)
        /\ UNCHANGED <<effects, perms, consent>>
    BY <1>1 DEF CommitFail, CanFail, InFlight
  <1>3. n \in TurnRecord /\ n.status = "failed" /\ n.failure = class
    BY <1>1, FailFields DEF Failure
  <1>3a. /\ l \in Lifecycle \ (InFlight \cup {"absent"})
         /\ l = "ready" => AcceptsFollowUp(n)
         /\ l \notin {"waiting_permission", "reconciliation_required"}
    BY <1>3 DEF InFlight, Lifecycle, AcceptsFollowUp
  <1> HIDE DEF n, l
  <1>4. TurnInv'
    BY <1>1, <1>2, <1>3, <1>3a, ConcludeInv DEF Terminal
  <1>5. TypeOK' /\ latest' = latest /\ life' = l
    BY <1>1, <1>2, <1>3, <1>3a, ConcludeFacts DEF TypeOK, TurnWritten
  <1>6. EffectInv'
    BY <1>2, <1>3a, <1>5, RestFacts, RestInv DEF TypeOK
  <1> QED BY <1>4, <1>5, <1>6

(* A transcript append moves the tokens of the turn and of the active row
   together. *)
LEMMA AppendTranscriptInv ==
    ASSUME IndInv, NEW k \in Nat \ {0}, NEW sr, NEW tr,
           AppendTranscript(k, sr, tr)
    PROVE  IndInv'
  <1> DEFINE t == active.turn
  <1> USE DEF IndInv
  <1>1. /\ t \in Turns /\ turns[t] \in TurnRecord /\ turns[t].status = life
        /\ life \in InFlight /\ k = epoch
    BY FencedFacts DEF AppendTranscript
  <1>2. Proceed(k, t, turns[t], life) /\ UNCHANGED <<effects, perms, consent>>
    BY DEF AppendTranscript
  <1>3. TurnInv'
    BY <1>1, <1>2, ProceedInv
  <1>4. /\ TurnWritten(t, turns[t], k)
        /\ active' \in [turn: 0 .. MaxTurns, token: Nat]
        /\ active'.turn = t
        /\ life' = life
        /\ rev' \in Nat
        /\ latest' = t /\ latest = t
        /\ latest' \in 0 .. MaxTurns
        /\ UNCHANGED <<lease, epoch>>
    BY <1>1, <1>2, ProceedFacts DEF TurnInv, LifecycleAgrees
  <1>5. TypeOK'
    BY <1>2, <1>4 DEF TypeOK, TurnWritten
  <1>6. EffectInv'
    <2>1. \A e \in Effects : EffectWellFormed(e)'
      BY <1>2, <1>4 DEF EffectInv, EffectWellFormed
    <2>2. \A e \in Effects : PreparedIsCurrent(e)'
      BY <1>2, <1>4 DEF EffectInv, PreparedIsCurrent, TurnWritten
    <2>3. OneInFlight'
      BY <1>2, <1>4 DEF EffectInv, OneInFlight
    <2>4. PermissionCanBeResolved'
      BY <1>2, <1>4 DEF EffectInv, PermissionCanBeResolved, TurnWritten, OfTurn
    <2>5. StartedWithConsent' /\ StartedIsWatched'
      BY <1>2, <1>4 DEF EffectInv, StartedWithConsent, StartedIsWatched
    <2>6. ReconciliationMatchesUnknown'
      BY <1>2, <1>4 DEF EffectInv, ReconciliationMatchesUnknown, TurnWritten
    <2> QED BY <2>1, <2>2, <2>3, <2>4, <2>5, <2>6 DEF EffectInv
  <1> QED BY <1>3, <1>5, <1>6

(* An append to a finished session touches the token of its latest turn only. *)
LEMMA AppendDetachedInv ==
    ASSUME IndInv, NEW k \in Nat \ {0}, NEW sr, NEW tr,
           AppendDetached(k, sr, tr)
    PROVE  IndInv'
  <1> DEFINE t == latest
  <1> USE DEF IndInv
  <1>1. t \in Turns /\ turns[t] \in TurnRecord /\ k = epoch
    BY BoundsAssumption
       DEF AppendDetached, Fenced, Live, TypeOK, TurnInv, Fences, Turns
  <1>2. /\ active.turn = 0
        /\ Proceed(k, t, turns[t], life)
        /\ UNCHANGED <<effects, perms, consent>>
    BY DEF AppendDetached
  <1>3. /\ TurnWritten(t, turns[t], k)
        /\ active' \in [turn: 0 .. MaxTurns, token: Nat]
        /\ active'.turn = 0
        /\ life' = life
        /\ rev' \in Nat
        /\ latest' = latest
        /\ UNCHANGED <<lease, epoch>>
    BY <1>1, <1>2, ProceedFacts
  <1>4. TypeOK'
    BY <1>2, <1>3 DEF TypeOK, TurnWritten
  <1>5. life # "absent"
    BY DEF AppendDetached
  <1>6. TurnInv'
    <2>1. Fences'
      BY <1>1, <1>3 DEF TurnInv, Fences, TurnWritten, TypeOK
    <2>2. Chronology'
      BY <1>1, <1>3, <1>5 DEF TurnInv, Chronology, TurnWritten, Turns
    <2>3. LifecycleAgrees'
      BY <1>1, <1>2, <1>3
         DEF TurnInv, LifecycleAgrees, TurnWritten, AcceptsFollowUp, InFlight
    <2>4. RecoveryCanFindTurn'
      BY <1>3 DEF RecoveryCanFindTurn
    <2> QED BY <2>1, <2>2, <2>3, <2>4 DEF TurnInv
  <1>7. EffectInv'
    <2>0. life \notin InFlight
      BY <1>2 DEF TurnInv, LifecycleAgrees
    <2>1. \A e \in Effects : EffectWellFormed(e)'
      BY <1>2, <1>3 DEF EffectInv, EffectWellFormed
    <2>2. \A e \in Effects : PreparedIsCurrent(e)'
      BY <1>2, <1>3, <2>0 DEF EffectInv, PreparedIsCurrent, InFlight
    <2>3. OneInFlight' /\ PermissionCanBeResolved'
      BY <1>3, <2>0 DEF OneInFlight, PermissionCanBeResolved, InFlight
    <2>5. StartedWithConsent' /\ StartedIsWatched'
      BY <1>2, <1>3, <2>0
         DEF EffectInv, StartedWithConsent, StartedIsWatched, InFlight
    <2>6. ReconciliationMatchesUnknown'
      BY <1>1, <1>2, <1>3
         DEF EffectInv, ReconciliationMatchesUnknown, TurnWritten
    <2> QED BY <2>1, <2>2, <2>3, <2>5, <2>6 DEF EffectInv
  <1> QED BY <1>4, <1>6, <1>7

-----------------------------------------------------------------------------
(* Sessions and turns are created *)

LEMMA BeginTurnInv ==
    ASSUME IndInv, NEW k \in Nat \ {0}, Live(k), NEW t \in Turns,
           life \in {"absent", "ready"}, t = latest + 1, rev' \in Nat,
           BeginTurn(k, t)
    PROVE  IndInv'
  <1> DEFINE n == Start(Queued)
  <1> USE DEF IndInv
  <1>1. n \in TurnRecord /\ n.status = "running"
    BY StartFields
  <1> HIDE DEF n
  <1>2. /\ turns' = [turns EXCEPT ![t] = [n EXCEPT !.token = k]]
        /\ active' = [turn |-> t, token |-> k]
        /\ latest' = t
        /\ life' = "running"
        /\ UNCHANGED <<effects, perms, consent, lease, epoch>>
    BY DEF BeginTurn, n
  <1>3. TurnWritten(t, n, k)
    BY <1>1, <1>2, WriteTurn
  <1>4. t \in 0 .. MaxTurns /\ t # 0 /\ latest \in Nat /\ k = epoch
    BY BoundsAssumption DEF Turns, TypeOK, TurnInv, Fences, Live
  <1>5. TypeOK'
    BY <1>2, <1>3, <1>4 DEF TypeOK, TurnWritten, Lifecycle
  <1>6. TurnInv'
    <2>0. active.turn = 0
      BY DEF TurnInv, LifecycleAgrees, InFlight
    <2>1. Fences'
      BY <1>2, <1>3, <1>4 DEF TurnInv, Fences, TurnWritten, TypeOK
    <2>2. Chronology'
      BY <1>1, <1>2, <1>3, <1>4 DEF TurnInv, Chronology, TurnWritten, Turns
    <2>3. LifecycleAgrees'
      BY <1>1, <1>2, <1>3, <1>4, <2>0
         DEF TurnInv, LifecycleAgrees, TurnWritten, InFlight, Turns
    <2>4. RecoveryCanFindTurn'
      BY <1>2, <1>3, <1>4 DEF RecoveryCanFindTurn, TurnWritten
    <2> QED BY <2>1, <2>2, <2>3, <2>4 DEF TurnInv
  <1>7. AtRest
    BY RestFacts
  <1>8. EffectInv'
    BY <1>2, <1>4, <1>7, RestInv
  <1> QED BY <1>5, <1>6, <1>8

(* create_session_v2_inner starts the first turn. *)
LEMMA CreateInv ==
    ASSUME IndInv, NEW k \in Nat \ {0}, CreateStartedSession(k)
    PROVE  IndInv'
  <1>1. latest = 0
    BY DEF CreateStartedSession, IndInv, TurnInv, Chronology
  <1> QED BY <1>1, BeginTurnInv DEF CreateStartedSession

(* create_session_follow_up_v2_inner starts the next turn of a ready session. *)
LEMMA FollowUpInv ==
    ASSUME IndInv, NEW k \in Nat \ {0}, NEW sr, CreateStartedFollowUp(k, sr)
    PROVE  IndInv'
  <1>1. rev' \in Nat
    BY DEF CreateStartedFollowUp, IndInv, TypeOK
  <1> QED BY <1>1, BeginTurnInv DEF CreateStartedFollowUp

(* A fork or a switched binding starts nothing. *)
LEMMA ForkInv ==
    ASSUME IndInv, CreateSessionFork
    PROVE  IndInv'
  <1> USE DEF IndInv
  <1>1. /\ life = "absent" /\ life' = "ready" /\ rev' = 0
        /\ UNCHANGED <<latest, turns, active, effects, perms, consent, lease,
                       epoch>>
    BY DEF CreateSessionFork
  <1>2. TypeOK'
    BY <1>1 DEF TypeOK, Lifecycle
  <1>3. TurnInv'
    BY <1>1 DEF TurnInv, Fences, Chronology, LifecycleAgrees,
                RecoveryCanFindTurn, InFlight
  <1>4. EffectInv'
    BY <1>1, RestFacts, RestInv DEF TypeOK
  <1> QED BY <1>2, <1>3, <1>4

(* switch_session_binding_v2 moves the revision and nothing else. *)
LEMMA SwitchInv ==
    ASSUME IndInv, NEW k, NEW sr, SwitchSessionBinding(k, sr)
    PROVE  IndInv'
  <1> USE DEF IndInv
  <1>1. /\ life = "ready" /\ rev' = rev + 1
        /\ UNCHANGED <<life, latest, turns, active, effects, perms, consent,
                       lease, epoch>>
    BY DEF SwitchSessionBinding
  <1>2. TypeOK'
    BY <1>1 DEF TypeOK
  <1>3. TurnInv'
    BY <1>1 DEF TurnInv, Fences, Chronology, LifecycleAgrees,
                RecoveryCanFindTurn, AcceptsFollowUp
  <1>4. EffectInv'
    BY <1>1, RestFacts, RestInv DEF TypeOK
  <1> QED BY <1>2, <1>3, <1>4

-----------------------------------------------------------------------------
(* Commits about one effect *)

(* The effect table after a write of record r over effect e. *)
EffectWritten(e, r) ==
    /\ effects' \in [Effects -> EffectRecord]
    /\ effects'[e] = r
    /\ \A f \in Effects : f # e => effects'[f] = effects[f]

(* An update of one effect row leaves the others as they were. *)
LEMMA WriteEffect ==
    ASSUME TypeOK, NEW e \in Effects, NEW r \in EffectRecord,
           effects' = [effects EXCEPT ![e] = r]
    PROVE  EffectWritten(e, r)
  BY DEF TypeOK, EffectWritten

(* Closing an effect changes its status and its outcome only. *)
LEMMA ClosedFields ==
    ASSUME TypeOK, NEW e \in Effects, NEW s \in EffectStatus, NEW o \in Outcome
    PROVE  /\ Closed(e, s, o) \in EffectRecord
           /\ Closed(e, s, o).status = s
           /\ Closed(e, s, o).outcome = o
           /\ Closed(e, s, o).turn = effects[e].turn
           /\ Closed(e, s, o).policy = effects[e].policy
           /\ Closed(e, s, o).digest = effects[e].digest
  BY DEF TypeOK, Closed, EffectRecord

(* PrepareEffect, policy Allow *)
LEMMA PrepareAllowedInv ==
    ASSUME IndInv, NEW k \in Nat \ {0}, NEW sr, NEW tr, NEW e \in Effects,
           NothingInFlight, PrepareAllowed(k, sr, tr, e)
    PROVE  IndInv'
  <1> DEFINE t == active.turn
             r == Prepared(t, "allow", Digest(tr, k))
  <1> USE DEF IndInv
  <1>1. /\ t \in Turns /\ turns[t] \in TurnRecord /\ latest = t
        /\ turns[t].status = life /\ k = epoch /\ tr \in Nat
    BY FencedFacts DEF PrepareAllowed
  <1>2. /\ life = "running"
        /\ effects[e].status = "absent"
        /\ effects' = [effects EXCEPT ![e] = r]
        /\ Proceed(k, t, turns[t], life)
        /\ UNCHANGED <<perms, consent>>
    BY <1>1 DEF PrepareAllowed
  <1>3. /\ r \in EffectRecord
        /\ r.turn = t /\ r.status = "prepared" /\ r.policy = "allow"
        /\ r.outcome = "none"
    BY <1>1, BoundsAssumption
       DEF Prepared, EffectRecord, EffectStatus, Outcome, OperationDigest,
           Digest, Turns
  <1> HIDE DEF r
  <1>4. TurnInv'
    BY <1>1, <1>2, ProceedInv DEF InFlight
  <1>5. /\ TurnWritten(t, turns[t], k)
        /\ active' \in [turn: 0 .. MaxTurns, token: Nat]
        /\ active'.turn = t
        /\ life' = "running"
        /\ rev' \in Nat
        /\ latest' = latest
        /\ UNCHANGED <<lease, epoch>>
    BY <1>1, <1>2, ProceedFacts
  <1>6. EffectWritten(e, r)
    BY <1>2, <1>3, WriteEffect
  <1>7. TypeOK'
    BY <1>2, <1>5, <1>6 DEF TypeOK, TurnWritten, EffectWritten, Lifecycle
  <1>8. AtRest
    BY <1>2, RestFacts
  <1>9. EffectInv'
    <2>1. \A f \in Effects : EffectWellFormed(f)'
      BY <1>1, <1>2, <1>3, <1>5, <1>6, <1>8
         DEF EffectInv, EffectWellFormed, EffectWritten, AtRest, Turns
    <2>2. \A f \in Effects : PreparedIsCurrent(f)'
      BY <1>3, <1>5, <1>6, <1>8 DEF PreparedIsCurrent, EffectWritten, AtRest
    <2>3. OneInFlight'
      BY <1>6, <1>8 DEF OneInFlight, EffectWritten, AtRest
    <2>4. PermissionCanBeResolved'
      BY <1>5 DEF PermissionCanBeResolved
    <2>5. StartedWithConsent' /\ StartedIsWatched'
      BY <1>2, <1>3, <1>6, <1>8
         DEF EffectInv, StartedWithConsent, StartedIsWatched, EffectWritten,
             AtRest
    <2>6. ReconciliationMatchesUnknown'
      BY <1>3, <1>5, <1>6, <1>8
         DEF ReconciliationMatchesUnknown, EffectWritten, AtRest
    <2> QED BY <2>1, <2>2, <2>3, <2>4, <2>5, <2>6 DEF EffectInv
  <1> QED BY <1>4, <1>7, <1>9

(* PrepareEffect, policy Ask *)
LEMMA PrepareAskInv ==
    ASSUME IndInv, NEW k \in Nat \ {0}, NEW sr, NEW tr, NEW e \in Effects,
           NothingInFlight, PrepareAsk(k, sr, tr, e)
    PROVE  IndInv'
  <1> DEFINE t == active.turn
             d == Digest(tr + 2, k)
             r == Prepared(t, "ask", d)
             q == [state |-> "pending", revision |-> tr + 2, token |-> k,
                   digest |-> d]
             n == RequestPermission(turns[t], e)
  <1> USE DEF IndInv
  <1>1. /\ t \in Turns /\ turns[t] \in TurnRecord /\ latest = t
        /\ turns[t].status = life /\ k = epoch /\ tr \in Nat
        /\ turns[t].revision = tr
    BY FencedFacts DEF PrepareAsk
  <1>2. /\ life = "running"
        /\ effects[e].status = "absent"
        /\ effects' = [effects EXCEPT ![e] = r]
        /\ perms' = [perms EXCEPT ![e] = q]
        /\ Proceed(k, t, n, "waiting_permission")
        /\ UNCHANGED consent
    BY <1>1 DEF PrepareAsk, CanRequestPermission
  <1>3. d \in OperationDigest /\ tr + 2 \in Nat
    BY <1>1 DEF Digest, OperationDigest
  <1> HIDE DEF d
  <1>3r. /\ r \in EffectRecord
         /\ r.turn = t /\ r.status = "prepared" /\ r.policy = "ask"
         /\ r.outcome = "none" /\ r.digest = d
    BY <1>1, <1>3, BoundsAssumption
       DEF Prepared, EffectRecord, EffectStatus, Outcome, Turns
  <1>3q. /\ q \in PermissionRecord
         /\ q.state = "pending" /\ q.revision = tr + 2 /\ q.digest = d
    BY <1>1, <1>3 DEF PermissionRecord
  <1>3n. /\ n \in TurnRecord /\ n.status = "waiting_permission"
         /\ n.permission = e /\ n.revision = tr + 1
    BY <1>1, RequestPermissionFields
  <1> HIDE DEF r, q, n
  <1>4. TurnInv'
    BY <1>1, <1>2, <1>3n, ProceedInv DEF InFlight
  <1>5. /\ TurnWritten(t, n, k)
        /\ active' \in [turn: 0 .. MaxTurns, token: Nat]
        /\ active'.turn = t
        /\ life' = "waiting_permission"
        /\ rev' \in Nat
        /\ latest' = latest
        /\ UNCHANGED <<lease, epoch>>
    BY <1>1, <1>2, <1>3n, ProceedFacts
  <1>6. /\ EffectWritten(e, r)
        /\ perms' \in [Effects -> PermissionRecord]
        /\ perms'[e] = q
        /\ \A f \in Effects : f # e => perms'[f] = perms[f]
    BY <1>2, <1>3r, <1>3q, WriteEffect DEF TypeOK
  <1>7. TypeOK'
    BY <1>2, <1>5, <1>6 DEF TypeOK, TurnWritten, EffectWritten, Lifecycle
  <1>8. AtRest
    BY <1>2, RestFacts
  <1>9. EffectInv'
    <2>1. \A f \in Effects : EffectWellFormed(f)'
      BY <1>1, <1>2, <1>3r, <1>3q, <1>5, <1>6, <1>8
         DEF EffectInv, EffectWellFormed, EffectWritten, AtRest, Turns
    <2>0. e \notin consent
      BY <1>2 DEF EffectInv, EffectWellFormed
    <2>2. \A f \in Effects : PreparedIsCurrent(f)'
      BY <1>2, <1>3r, <1>3n, <1>5, <1>6, <1>8, <2>0
         DEF PreparedIsCurrent, EffectWritten, AtRest, TurnWritten
    <2>3. OneInFlight'
      BY <1>6, <1>8 DEF OneInFlight, EffectWritten, AtRest
    <2>4. PermissionCanBeResolved'
      BY <1>1, <1>3r, <1>3q, <1>3n, <1>5, <1>6
         DEF PermissionCanBeResolved, EffectWritten, TurnWritten, OfTurn
    <2>5. StartedWithConsent' /\ StartedIsWatched'
      BY <1>2, <1>3r, <1>6, <1>8
         DEF EffectInv, StartedWithConsent, StartedIsWatched, EffectWritten,
             AtRest
    <2>6. ReconciliationMatchesUnknown'
      BY <1>3r, <1>5, <1>6, <1>8
         DEF ReconciliationMatchesUnknown, EffectWritten, AtRest
    <2> QED BY <2>1, <2>2, <2>3, <2>4, <2>5, <2>6 DEF EffectInv
  <1> QED BY <1>4, <1>7, <1>9

(* Every effect but e is at rest. *)
OthersAtRest(e) ==
    \A f \in Effects :
        /\ f # e => effects[f].status \notin {"prepared", "started", "unknown"}
        /\ effects[f].outcome # "acknowledged"

(* While one effect of the active turn is in hand, all others are settled. *)
LEMMA OthersFacts ==
    ASSUME IndInv, NEW e \in Effects, life \in InFlight,
           effects[e].turn = active.turn,
           effects[e].status \in {"prepared", "started"}
    PROVE  OthersAtRest(e)
  <1> SUFFICES ASSUME NEW f \in Effects
               PROVE  /\ f # e => effects[f].status \notin
                                    {"prepared", "started", "unknown"}
                      /\ effects[f].outcome # "acknowledged"
    BY DEF OthersAtRest
  <1> USE DEF IndInv
  <1>1. effects[f].status # "unknown" /\ effects[f].outcome # "acknowledged"
    BY DEF EffectInv, ReconciliationMatchesUnknown, EffectWellFormed, InFlight
  <1>2. active.turn # 0
    BY DEF TurnInv, LifecycleAgrees
  <1>3. effects[f].status \in {"prepared", "started"}
           => effects[f].turn = active.turn
    BY DEF EffectInv, PreparedIsCurrent, StartedIsWatched, InFlight
  <1> QED BY <1>1, <1>2, <1>3 DEF EffectInv, OneInFlight

(* ResolvePermission, allowed *)
LEMMA ResolveAllowInv ==
    ASSUME IndInv, NEW k \in Nat \ {0}, NEW sr, NEW tr, NEW e \in Effects,
           ResolveAllow(k, sr, tr, e)
    PROVE  IndInv'
  <1> DEFINE t == active.turn
             d == Digest(tr + 1, k)
             r == [effects[e] EXCEPT !.digest = d]
             q == [perms[e] EXCEPT !.token = k, !.digest = d]
             n == AllowPermission(turns[t])
  <1> USE DEF IndInv
  <1>1. /\ t \in Turns /\ turns[t] \in TurnRecord /\ latest = t
        /\ turns[t].status = life /\ k = epoch /\ tr \in Nat
    BY FencedFacts DEF ResolveAllow
  <1>2. /\ life = "waiting_permission"
        /\ effects[e].turn = t
        /\ effects[e].status = "prepared"
        /\ effects' = [effects EXCEPT ![e] = r]
        /\ perms' = [perms EXCEPT ![e] = q]
        /\ Proceed(k, t, n, "running")
        /\ consent' = consent \cup {e}
    BY <1>1 DEF ResolveAllow, CanResolvePermission, TypeOK
  <1>2p. effects[e].policy = "ask"
    BY <1>1, <1>2 DEF ResolveAllow, CanResolvePermission, EffectInv,
                      PermissionCanBeResolved
  <1>3. d \in OperationDigest
    BY <1>1 DEF Digest, OperationDigest
  <1> HIDE DEF d
  <1>3r. /\ r \in EffectRecord
         /\ r.turn = t /\ r.status = "prepared" /\ r.policy = "ask"
         /\ r.outcome = effects[e].outcome
    BY <1>2, <1>2p, <1>3 DEF TypeOK, EffectRecord
  <1>3q. q \in PermissionRecord /\ q.state = perms[e].state
    BY <1>3 DEF TypeOK, PermissionRecord
  <1>3n. n \in TurnRecord /\ n.status = "running"
    BY <1>1, AllowPermissionFields
  <1> HIDE DEF r, q, n
  <1>4. TurnInv'
    BY <1>1, <1>2, <1>3n, ProceedInv DEF InFlight
  <1>5. /\ TurnWritten(t, n, k)
        /\ active' \in [turn: 0 .. MaxTurns, token: Nat]
        /\ active'.turn = t
        /\ life' = "running"
        /\ rev' \in Nat
        /\ latest' = latest
        /\ UNCHANGED <<lease, epoch>>
    BY <1>1, <1>2, <1>3n, ProceedFacts
  <1>6. /\ EffectWritten(e, r)
        /\ perms' \in [Effects -> PermissionRecord]
        /\ perms'[e] = q
        /\ \A f \in Effects : f # e => perms'[f] = perms[f]
    BY <1>2, <1>3r, <1>3q, WriteEffect DEF TypeOK
  <1>7. TypeOK'
    BY <1>2, <1>5, <1>6 DEF TypeOK, TurnWritten, EffectWritten, Lifecycle
  <1>8. OthersAtRest(e)
    BY <1>2, OthersFacts DEF InFlight
  <1>9. EffectInv'
    <2>1. \A f \in Effects : EffectWellFormed(f)'
      BY <1>1, <1>2, <1>2p, <1>3r, <1>3q, <1>5, <1>6, <1>8
         DEF EffectInv, EffectWellFormed, EffectWritten, OthersAtRest
    <2>2. \A f \in Effects : PreparedIsCurrent(f)'
      BY <1>2, <1>3r, <1>5, <1>6, <1>8
         DEF PreparedIsCurrent, EffectWritten, OthersAtRest
    <2>3. OneInFlight'
      BY <1>6, <1>8 DEF OneInFlight, EffectWritten, OthersAtRest
    <2>4. PermissionCanBeResolved'
      BY <1>5 DEF PermissionCanBeResolved
    <2>5. StartedWithConsent' /\ StartedIsWatched'
      BY <1>2, <1>3r, <1>6, <1>8
         DEF EffectInv, EffectWellFormed, StartedWithConsent, StartedIsWatched,
             EffectWritten, OthersAtRest
    <2>6. ReconciliationMatchesUnknown'
      BY <1>3r, <1>5, <1>6, <1>8
         DEF ReconciliationMatchesUnknown, EffectWritten, OthersAtRest
    <2> QED BY <2>1, <2>2, <2>3, <2>4, <2>5, <2>6 DEF EffectInv
  <1> QED BY <1>4, <1>7, <1>9

(* ResolvePermission, denied *)
LEMMA ResolveDenyInv ==
    ASSUME IndInv, NEW k \in Nat \ {0}, NEW sr, NEW tr, NEW e \in Effects,
           ResolveDeny(k, sr, tr, e)
    PROVE  IndInv'
  <1> DEFINE t == active.turn
             r == Closed(e, "observed_failed", "never_started")
             q == [perms[e] EXCEPT !.state = "consumed"]
             n == DenyPermission(turns[t])
  <1> USE DEF IndInv
  <1>1. /\ t \in Turns /\ turns[t] \in TurnRecord /\ latest = t
        /\ turns[t].status = life /\ k = epoch /\ tr \in Nat
    BY FencedFacts DEF ResolveDeny
  <1>2. life = "waiting_permission" /\ turns[t].permission = e
    BY <1>1 DEF ResolveDeny, CanResolvePermission
  <1>2p. /\ effects[e].turn = t /\ effects[e].status = "prepared"
         /\ effects[e].policy = "ask" /\ perms[e].state = "pending"
    BY <1>1, <1>2 DEF EffectInv, PermissionCanBeResolved, OfTurn
  <1>2a. /\ effects' = [effects EXCEPT ![e] = r]
         /\ perms' = [perms EXCEPT ![e] = q]
         /\ Conclude(k, t, n, "ready")
         /\ UNCHANGED consent
    BY <1>2p DEF ResolveDeny, TypeOK
  <1>3r. /\ r \in EffectRecord
         /\ r.turn = t /\ r.status = "observed_failed" /\ r.policy = "ask"
         /\ r.outcome = "never_started"
    BY <1>2p, ClosedFields DEF EffectStatus, Outcome
  <1>3q. q \in PermissionRecord /\ q.state = "consumed"
    BY DEF TypeOK, PermissionRecord
  <1>3n. n \in TurnRecord /\ n.status = "failed" /\ n.failure = "denied"
    BY <1>1, DenyPermissionFields
  <1> HIDE DEF r, q, n
  <1>4. TurnInv'
    BY <1>1, <1>2a, <1>3n, ConcludeInv
       DEF InFlight, Lifecycle, Terminal, AcceptsFollowUp
  <1>5. /\ TurnWritten(t, n, k)
        /\ active' \in [turn: 0 .. MaxTurns, token: Nat]
        /\ active'.turn = 0
        /\ life' = "ready"
        /\ rev' \in Nat
        /\ latest' = latest
        /\ lease' \in [token: Nat, live: BOOLEAN]
        /\ UNCHANGED epoch
    BY <1>1, <1>2a, <1>3n, ConcludeFacts
  <1>6. /\ EffectWritten(e, r)
        /\ perms' \in [Effects -> PermissionRecord]
        /\ perms'[e] = q
        /\ \A f \in Effects : f # e => perms'[f] = perms[f]
    BY <1>2a, <1>3r, <1>3q, WriteEffect DEF TypeOK
  <1>7. TypeOK'
    BY <1>2a, <1>5, <1>6 DEF TypeOK, TurnWritten, EffectWritten, Lifecycle
  <1>8. OthersAtRest(e)
    BY <1>2, <1>2p, OthersFacts DEF InFlight
  <1>9. EffectInv'
    <2>1. \A f \in Effects : EffectWellFormed(f)'
      BY <1>2a, <1>2p, <1>3r, <1>3q, <1>5, <1>6, <1>8
         DEF EffectInv, EffectWellFormed, EffectWritten, OthersAtRest
    <2>2. \A f \in Effects : PreparedIsCurrent(f)'
      BY <1>3r, <1>6, <1>8 DEF PreparedIsCurrent, EffectWritten, OthersAtRest
    <2>3. OneInFlight' /\ PermissionCanBeResolved'
      BY <1>5 DEF OneInFlight, PermissionCanBeResolved
    <2>5. StartedWithConsent' /\ StartedIsWatched'
      BY <1>2a, <1>3r, <1>6, <1>8
         DEF EffectInv, StartedWithConsent, StartedIsWatched, EffectWritten,
             OthersAtRest
    <2>6. ReconciliationMatchesUnknown'
      BY <1>3r, <1>5, <1>6, <1>8
         DEF ReconciliationMatchesUnknown, EffectWritten, OthersAtRest
    <2> QED BY <2>1, <2>2, <2>3, <2>5, <2>6 DEF EffectInv
  <1> QED BY <1>4, <1>7, <1>9

(* StartEffect: a consumed permission, or the allow marker *)
LEMMA StartEffectInv ==
    ASSUME IndInv, NEW k \in Nat \ {0}, NEW sr, NEW tr, NEW e \in Effects,
           StartEffect(k, sr, tr, e)
    PROVE  IndInv'
  <1> DEFINE t == active.turn
             r == [effects[e] EXCEPT !.status = "started"]
             q == [perms[e] EXCEPT !.state = "consumed"]
  <1> USE DEF IndInv
  <1>1. /\ t \in Turns /\ turns[t] \in TurnRecord /\ latest = t
        /\ turns[t].status = life /\ k = epoch /\ tr \in Nat
    BY FencedFacts DEF StartEffect
  <1>2. /\ life = "running"
        /\ effects[e].turn = t
        /\ effects[e].status = "prepared"
        /\ effects' = [effects EXCEPT ![e] = r]
        /\ Proceed(k, t, turns[t], life)
        /\ UNCHANGED consent
    BY <1>1 DEF StartEffect, TypeOK
  <1>3r. /\ r \in EffectRecord
         /\ r.turn = t /\ r.status = "started"
         /\ r.policy = effects[e].policy /\ r.outcome = effects[e].outcome
    BY <1>2 DEF TypeOK, EffectRecord, EffectStatus
  <1>3q. q \in PermissionRecord /\ q.state = "consumed"
    BY DEF TypeOK, PermissionRecord
  <1>3p. /\ perms' \in [Effects -> PermissionRecord]
         /\ \A f \in Effects : f # e => perms'[f] = perms[f]
         /\ effects[e].policy = "ask" => perms'[e].state = "consumed"
    <2>1. CASE perms[e].state = "absent"
      BY <2>1 DEF StartEffect, TypeOK
    <2>2. CASE perms[e].state # "absent"
      <3>1. perms' = [perms EXCEPT ![e] = q]
        BY <2>2 DEF StartEffect, TypeOK
      <3> QED BY <3>1, <1>3q DEF TypeOK
    <2> QED BY <2>1, <2>2
  <1>3c. effects[e].policy = "ask" => e \in consent
    BY <1>2 DEF EffectInv, PreparedIsCurrent
  <1> HIDE DEF r, q
  <1>4. TurnInv'
    BY <1>1, <1>2, ProceedInv DEF InFlight
  <1>5. /\ TurnWritten(t, turns[t], k)
        /\ active' \in [turn: 0 .. MaxTurns, token: Nat]
        /\ active'.turn = t
        /\ life' = "running"
        /\ rev' \in Nat
        /\ latest' = latest
        /\ UNCHANGED <<lease, epoch>>
    BY <1>1, <1>2, ProceedFacts
  <1>6. EffectWritten(e, r)
    BY <1>2, <1>3r, WriteEffect
  <1>7. TypeOK'
    BY <1>2, <1>3p, <1>5, <1>6 DEF TypeOK, TurnWritten, EffectWritten, Lifecycle
  <1>8. OthersAtRest(e)
    BY <1>2, OthersFacts DEF InFlight
  <1>9. EffectInv'
    <2>1. \A f \in Effects : EffectWellFormed(f)'
      BY <1>2, <1>3r, <1>3p, <1>5, <1>6, <1>8
         DEF EffectInv, EffectWellFormed, EffectWritten, OthersAtRest
    <2>2. \A f \in Effects : PreparedIsCurrent(f)'
      BY <1>3r, <1>6, <1>8 DEF PreparedIsCurrent, EffectWritten, OthersAtRest
    <2>3. OneInFlight'
      BY <1>6, <1>8 DEF OneInFlight, EffectWritten, OthersAtRest
    <2>4. PermissionCanBeResolved'
      BY <1>5 DEF PermissionCanBeResolved
    <2>5. StartedWithConsent' /\ StartedIsWatched'
      BY <1>2, <1>3r, <1>3p, <1>3c, <1>5, <1>6, <1>8
         DEF EffectInv, StartedWithConsent, StartedIsWatched, EffectWritten,
             OthersAtRest
    <2>6. ReconciliationMatchesUnknown'
      BY <1>3r, <1>5, <1>6, <1>8
         DEF ReconciliationMatchesUnknown, EffectWritten, OthersAtRest
    <2> QED BY <2>1, <2>2, <2>3, <2>4, <2>5, <2>6 DEF EffectInv
  <1> QED BY <1>4, <1>7, <1>9

(* ObserveEffect *)
LEMMA ObserveEffectInv ==
    ASSUME IndInv, NEW k \in Nat \ {0}, NEW sr, NEW tr, NEW e \in Effects,
           ObserveEffect(k, sr, tr, e)
    PROVE  IndInv'
  <1> DEFINE t == active.turn
  <1> USE DEF IndInv
  <1>1. /\ t \in Turns /\ turns[t] \in TurnRecord /\ latest = t
        /\ turns[t].status = life /\ k = epoch
    BY FencedFacts DEF ObserveEffect
  <1>s. PICK s \in {"observed_success", "observed_failed"} :
            effects' = [effects EXCEPT ![e] = Closed(e, s, "observed")]
    BY DEF ObserveEffect
  <1> DEFINE r == Closed(e, s, "observed")
  <1>2. /\ life = "running"
        /\ effects[e].turn = t
        /\ effects[e].status = "started"
        /\ effects' = [effects EXCEPT ![e] = r]
        /\ Proceed(k, t, turns[t], life)
        /\ UNCHANGED <<perms, consent>>
    BY <1>1, <1>s DEF ObserveEffect, OfTurn
  <1>3r. /\ r \in EffectRecord
         /\ r.turn = t /\ r.status \in {"observed_success", "observed_failed"}
         /\ r.policy = effects[e].policy /\ r.outcome = "observed"
    BY <1>2, ClosedFields DEF EffectStatus, Outcome
  <1> HIDE DEF r
  <1>4. TurnInv'
    BY <1>1, <1>2, ProceedInv DEF InFlight
  <1>5. /\ TurnWritten(t, turns[t], k)
        /\ active' \in [turn: 0 .. MaxTurns, token: Nat]
        /\ active'.turn = t
        /\ life' = "running"
        /\ rev' \in Nat
        /\ latest' = latest
        /\ UNCHANGED <<lease, epoch>>
    BY <1>1, <1>2, ProceedFacts
  <1>6. EffectWritten(e, r)
    BY <1>2, <1>3r, WriteEffect
  <1>7. TypeOK'
    BY <1>2, <1>5, <1>6 DEF TypeOK, TurnWritten, EffectWritten, Lifecycle
  <1>8. OthersAtRest(e)
    BY <1>2, OthersFacts DEF InFlight
  <1>9. EffectInv'
    <2>1. \A f \in Effects : EffectWellFormed(f)'
      BY <1>2, <1>3r, <1>5, <1>6, <1>8
         DEF EffectInv, EffectWellFormed, EffectWritten, OthersAtRest
    <2>2. \A f \in Effects : PreparedIsCurrent(f)'
      BY <1>3r, <1>6, <1>8 DEF PreparedIsCurrent, EffectWritten, OthersAtRest
    <2>3. OneInFlight'
      BY <1>3r, <1>6, <1>8 DEF OneInFlight, EffectWritten, OthersAtRest
    <2>4. PermissionCanBeResolved'
      BY <1>5 DEF PermissionCanBeResolved
    <2>5. StartedWithConsent' /\ StartedIsWatched'
      BY <1>2, <1>3r, <1>5, <1>6, <1>8
         DEF EffectInv, StartedWithConsent, StartedIsWatched, EffectWritten,
             OthersAtRest
    <2>6. ReconciliationMatchesUnknown'
      BY <1>3r, <1>5, <1>6, <1>8
         DEF ReconciliationMatchesUnknown, EffectWritten, OthersAtRest
    <2> QED BY <2>1, <2>2, <2>3, <2>4, <2>5, <2>6 DEF EffectInv
  <1> QED BY <1>4, <1>7, <1>9

(* A started effect whose turn is interrupted: UnknownEffect, and Interrupt
   when it finds one. *)
LEMMA LoseEffectInv ==
    ASSUME IndInv, NEW k \in Nat \ {0}, NEW e \in Effects,
           active.turn \in Turns, latest = active.turn, k = epoch,
           life \in InFlight,
           effects[e].turn = active.turn, effects[e].status = "started",
           effects' = [effects EXCEPT ![e] = Closed(e, "unknown", "uncertain")],
           Conclude(k, active.turn, Interrupt(Cancel(turns[active.turn])),
                    "reconciliation_required"),
           UNCHANGED <<perms, consent>>
    PROVE  IndInv'
  <1> DEFINE t == active.turn
             r == Closed(e, "unknown", "uncertain")
             n == Interrupt(Cancel(turns[t]))
  <1> USE DEF IndInv
  <1>3r. /\ r \in EffectRecord
         /\ r.turn = t /\ r.status = "unknown"
         /\ r.policy = effects[e].policy /\ r.outcome = "uncertain"
    BY ClosedFields DEF EffectStatus, Outcome
  <1>3n. n \in TurnRecord /\ n.status = "interrupted"
    BY InterruptFields DEF TypeOK
  <1> HIDE DEF r, n
  <1>4. TurnInv'
    BY <1>3n, ConcludeInv
       DEF InFlight, Lifecycle, Terminal, n
  <1>5. /\ TurnWritten(t, n, k)
        /\ active' \in [turn: 0 .. MaxTurns, token: Nat]
        /\ active'.turn = 0
        /\ life' = "reconciliation_required"
        /\ rev' \in Nat
        /\ latest' = t
        /\ lease' \in [token: Nat, live: BOOLEAN]
        /\ UNCHANGED epoch
    BY <1>3n, ConcludeFacts DEF n
  <1>6. EffectWritten(e, r)
    BY <1>3r, WriteEffect DEF r
  <1>7. TypeOK'
    BY <1>5, <1>6 DEF TypeOK, TurnWritten, EffectWritten, Lifecycle
  <1>8. OthersAtRest(e)
    BY OthersFacts
  <1>9. EffectInv'
    <2>1. \A f \in Effects : EffectWellFormed(f)'
      BY <1>3r, <1>5, <1>6, <1>8
         DEF EffectInv, EffectWellFormed, EffectWritten, OthersAtRest
    <2>2. \A f \in Effects : PreparedIsCurrent(f)'
      BY <1>3r, <1>6, <1>8 DEF PreparedIsCurrent, EffectWritten, OthersAtRest
    <2>3. OneInFlight' /\ PermissionCanBeResolved'
      BY <1>5 DEF OneInFlight, PermissionCanBeResolved
    <2>5. StartedWithConsent' /\ StartedIsWatched'
      BY <1>3r, <1>5, <1>6, <1>8
         DEF EffectInv, StartedWithConsent, StartedIsWatched, EffectWritten,
             OthersAtRest
    <2>6. ReconciliationMatchesUnknown'
      BY <1>3r, <1>3n, <1>5, <1>6, <1>8
         DEF ReconciliationMatchesUnknown, EffectWritten, OthersAtRest,
             TurnWritten
    <2> QED BY <2>1, <2>2, <2>3, <2>5, <2>6 DEF EffectInv
  <1> QED BY <1>4, <1>7, <1>9

(* UnknownEffect ends the turn and makes the session wait for reconciliation. *)
LEMMA UnknownEffectInv ==
    ASSUME IndInv, NEW k \in Nat \ {0}, NEW sr, NEW tr, NEW e \in Effects,
           UnknownEffect(k, sr, tr, e)
    PROVE  IndInv'
  <1>1. /\ active.turn \in Turns /\ latest = active.turn
        /\ life \in InFlight /\ k = epoch
    BY FencedFacts DEF UnknownEffect, IndInv
  <1> QED BY <1>1, LoseEffectInv DEF UnknownEffect, OfTurn

(* ReconcileUnknownEffect: the acknowledged effect was the only one in doubt *)
LEMMA ReconcileInv ==
    ASSUME IndInv, NEW k \in Nat \ {0}, NEW sr, NEW tr, NEW e \in Effects,
           ReconcileUnknownEffect(k, sr, tr, e)
    PROVE  IndInv'
  <1> DEFINE t == latest
             r == Closed(e, "observed_failed", "acknowledged")
             n == Fail(turns[t], "terminal")
  <1> USE DEF IndInv
  <1>1. t \in Turns /\ turns[t] \in TurnRecord /\ k = epoch
    BY BoundsAssumption
       DEF ReconcileUnknownEffect, Fenced, Live, TypeOK, TurnInv, Fences, Turns
  <1>2. /\ active.turn = 0
        /\ life = "reconciliation_required"
        /\ effects[e].status = "unknown"
        /\ effects' = [effects EXCEPT ![e] = r]
        /\ Conclude(k, t, n, "failed")
        /\ UNCHANGED <<perms, consent>>
    BY DEF ReconcileUnknownEffect, OfTurn
  <1>3r. /\ r \in EffectRecord
         /\ r.turn = effects[e].turn /\ r.status = "observed_failed"
         /\ r.policy = effects[e].policy /\ r.outcome = "acknowledged"
    BY ClosedFields DEF EffectStatus, Outcome
  <1>3n. n \in TurnRecord /\ n.status = "failed"
    BY <1>1, FailFields DEF Failure
  <1> HIDE DEF r, n
  <1>4. TurnInv'
    BY <1>1, <1>2, <1>3n, ConcludeInv DEF InFlight, Lifecycle, Terminal
  <1>5. /\ TurnWritten(t, n, k)
        /\ active' \in [turn: 0 .. MaxTurns, token: Nat]
        /\ active'.turn = 0
        /\ life' = "failed"
        /\ rev' \in Nat
        /\ latest' = latest
        /\ lease' \in [token: Nat, live: BOOLEAN]
        /\ UNCHANGED epoch
    BY <1>1, <1>2, <1>3n, ConcludeFacts
  <1>6. EffectWritten(e, r)
    BY <1>2, <1>3r, WriteEffect
  <1>7. TypeOK'
    BY <1>2, <1>5, <1>6 DEF TypeOK, TurnWritten, EffectWritten, Lifecycle
  <1>8. \A f \in Effects :
          /\ effects[f].status \notin {"prepared", "started"}
          /\ f # e => effects[f].status # "unknown"
    BY <1>2 DEF EffectInv, PreparedIsCurrent, StartedIsWatched,
                ReconciliationMatchesUnknown
  <1>9. EffectInv'
    <2>1. \A f \in Effects : EffectWellFormed(f)'
      BY <1>2, <1>3r, <1>5, <1>6, <1>8
         DEF EffectInv, EffectWellFormed, EffectWritten
    <2>2. \A f \in Effects : PreparedIsCurrent(f)'
      BY <1>3r, <1>6, <1>8 DEF PreparedIsCurrent, EffectWritten
    <2>3. OneInFlight' /\ PermissionCanBeResolved'
      BY <1>5 DEF OneInFlight, PermissionCanBeResolved
    <2>5. StartedWithConsent' /\ StartedIsWatched'
      BY <1>2, <1>3r, <1>5, <1>6, <1>8
         DEF EffectInv, StartedWithConsent, StartedIsWatched, EffectWritten
    <2>6. ReconciliationMatchesUnknown'
      BY <1>3r, <1>5, <1>6, <1>8
         DEF ReconciliationMatchesUnknown, EffectWritten
    <2> QED BY <2>1, <2>2, <2>3, <2>5, <2>6 DEF EffectInv
  <1> QED BY <1>4, <1>7, <1>9

(* Interrupt of a running turn *)
LEMMA InterruptRunningInv ==
    ASSUME IndInv, NEW k \in Nat \ {0}, NEW sr, NEW tr,
           InterruptRunning(k, sr, tr)
    PROVE  IndInv'
  <1> DEFINE t == active.turn
             n == Interrupt(Cancel(turns[t]))
  <1> USE DEF IndInv
  <1>1. /\ t \in Turns /\ turns[t] \in TurnRecord /\ latest = t
        /\ turns[t].status = life /\ life \in InFlight /\ k = epoch
    BY FencedFacts DEF InterruptRunning
  <1>2. life = "running" /\ UNCHANGED <<perms, consent>>
    BY <1>1 DEF InterruptRunning, Waiting, InFlight
  <1>3. CASE /\ OfTurn(t, "started") = {}
             /\ UNCHANGED effects
             /\ Conclude(k, t, n, "interrupted")
    <2>1. n \in TurnRecord /\ n.status = "interrupted"
      BY <1>1, InterruptFields
    <2> HIDE DEF n
    <2>2. TurnInv'
      BY <1>1, <1>3, <2>1, ConcludeInv DEF InFlight, Lifecycle, Terminal
    <2>3. /\ TurnWritten(t, n, k)
          /\ active' \in [turn: 0 .. MaxTurns, token: Nat]
          /\ active'.turn = 0
          /\ life' = "interrupted"
          /\ rev' \in Nat
          /\ latest' = latest
          /\ lease' \in [token: Nat, live: BOOLEAN]
          /\ UNCHANGED epoch
      BY <1>1, <1>3, <2>1, ConcludeFacts
    <2>4. TypeOK'
      BY <1>2, <1>3, <2>3 DEF TypeOK, TurnWritten, Lifecycle
    <2>5. \A f \in Effects : effects[f].status \notin {"started", "unknown"}
      BY <1>2, <1>3
         DEF EffectInv, StartedIsWatched, ReconciliationMatchesUnknown, OfTurn
    <2>6. EffectInv'
      <3>1. \A f \in Effects : EffectWellFormed(f)'
        BY <1>2, <1>3, <2>3 DEF EffectInv, EffectWellFormed
      <3>2. \A f \in Effects : PreparedIsCurrent(f)'
        BY <2>3 DEF PreparedIsCurrent
      <3>3. OneInFlight' /\ PermissionCanBeResolved'
        BY <2>3 DEF OneInFlight, PermissionCanBeResolved
      <3>4. StartedWithConsent' /\ StartedIsWatched'
        BY <1>2, <1>3, <2>5 DEF EffectInv, StartedWithConsent, StartedIsWatched
      <3>5. ReconciliationMatchesUnknown'
        BY <1>3, <2>3, <2>5 DEF ReconciliationMatchesUnknown
      <3> QED BY <3>1, <3>2, <3>3, <3>4, <3>5 DEF EffectInv
    <2> QED BY <2>2, <2>4, <2>6
  <1>4. ASSUME NEW e \in OfTurn(t, "started"),
               effects' = [effects EXCEPT ![e] =
                              Closed(e, "unknown", "uncertain")],
               Conclude(k, t, n, "reconciliation_required")
        PROVE  IndInv'
    BY <1>1, <1>2, <1>4, LoseEffectInv DEF OfTurn
  <1> QED BY <1>3, <1>4 DEF InterruptRunning

(* Interrupt of a waiting turn *)
LEMMA CancelWaitingInv ==
    ASSUME IndInv, NEW k \in Nat \ {0}, NEW sr, NEW tr,
           CancelWaiting(k, sr, tr)
    PROVE  IndInv'
  <1> DEFINE t == active.turn
             p == turns[t].permission
             a == Fail(turns[t], "cancelled")
             n == [a EXCEPT !.permission = None, !.input = FALSE]
  <1> USE DEF IndInv
  <1>1. /\ t \in Turns /\ turns[t] \in TurnRecord /\ latest = t
        /\ turns[t].status = life /\ life \in InFlight /\ k = epoch
    BY FencedFacts DEF CancelWaiting
  <1>2. /\ life \in {"waiting_permission", "waiting_input"}
        /\ Conclude(k, t, n, "failed")
        /\ UNCHANGED consent
    BY <1>1 DEF CancelWaiting, Waiting
  <1>3. n \in TurnRecord /\ n.status = "failed"
    <2>1. a \in TurnRecord /\ a.status = "failed"
      BY <1>1, FailFields DEF Failure
    <2> HIDE DEF a
    <2> QED BY <2>1, DropRequests
  <1> HIDE DEF n
  <1>4. TurnInv'
    BY <1>1, <1>2, <1>3, ConcludeInv DEF InFlight, Lifecycle, Terminal
  <1>5. /\ TurnWritten(t, n, k)
        /\ active' \in [turn: 0 .. MaxTurns, token: Nat]
        /\ active'.turn = 0
        /\ life' = "failed"
        /\ rev' \in Nat
        /\ latest' = latest
        /\ lease' \in [token: Nat, live: BOOLEAN]
        /\ UNCHANGED epoch
    BY <1>1, <1>2, <1>3, ConcludeFacts
  <1>6. ASSUME NEW e \in Effects
        PROVE  /\ perms'[e] \in PermissionRecord
               /\ perms'[e].state = IF e = p /\ effects[e].turn = t
                                        /\ perms[e].state = "pending"
                                     THEN "consumed" ELSE perms[e].state
               /\ effects'[e] \in EffectRecord
               /\ effects'[e] = IF e = p /\ effects[e].turn = t
                                    /\ effects[e].status = "prepared"
                                 THEN Closed(e, "observed_failed", "never_started")
                                 ELSE effects[e]
    <2>1. [perms[e] EXCEPT !.state = "consumed"] \in PermissionRecord
      BY DEF TypeOK, PermissionRecord
    <2>2. Closed(e, "observed_failed", "never_started") \in EffectRecord
      BY ClosedFields DEF EffectStatus, Outcome
    <2>3. perms'[e] = IF e = p /\ effects[e].turn = t
                         /\ perms[e].state = "pending"
                      THEN [perms[e] EXCEPT !.state = "consumed"] ELSE perms[e]
      BY DEF CancelWaiting
    <2>4. perms'[e] \in PermissionRecord
      BY <2>1, <2>3 DEF TypeOK
    <2>5. perms'[e].state = IF e = p /\ effects[e].turn = t
                               /\ perms[e].state = "pending"
                            THEN "consumed" ELSE perms[e].state
      BY <2>1, <2>3 DEF TypeOK, PermissionRecord
    <2>6. effects'[e] = IF e = p /\ effects[e].turn = t
                                    /\ effects[e].status = "prepared"
                                 THEN Closed(e, "observed_failed", "never_started")
                                 ELSE effects[e]
      BY DEF CancelWaiting, OfTurn
    <2> QED BY <2>2, <2>4, <2>5, <2>6 DEF TypeOK
  <1>7. TypeOK'
    <2>1. perms' \in [Effects -> PermissionRecord]
      BY <1>6 DEF CancelWaiting
    <2>2. effects' \in [Effects -> EffectRecord]
      BY <1>6 DEF CancelWaiting
    <2> QED BY <1>2, <1>5, <2>1, <2>2 DEF TypeOK, TurnWritten, Lifecycle
  <1>8. \A e \in Effects :
          /\ effects[e].status \notin {"started", "unknown"}
          /\ effects[e].status = "prepared" => e = p /\ effects[e].turn = t
          /\ effects[e].outcome # "acknowledged"
    BY <1>2 DEF EffectInv, StartedIsWatched, ReconciliationMatchesUnknown,
                PreparedIsCurrent, EffectWellFormed
  <1>9. \A e \in Effects :
          /\ effects'[e].status \notin {"prepared", "started", "unknown"}
          /\ effects'[e].turn = effects[e].turn
          /\ effects'[e].policy = effects[e].policy
          /\ \/ effects'[e] = effects[e]
             \/ /\ effects[e].status = "prepared"
                /\ effects'[e].status = "observed_failed"
                /\ effects'[e].outcome = "never_started"
    BY <1>6, <1>8, ClosedFields DEF EffectStatus, Outcome
  <1>10. EffectInv'
    <2>1. \A f \in Effects : EffectWellFormed(f)'
      BY <1>2, <1>5, <1>6, <1>8, <1>9 DEF EffectInv, EffectWellFormed
    <2>2. \A f \in Effects : PreparedIsCurrent(f)'
      BY <1>9 DEF PreparedIsCurrent
    <2>3. OneInFlight' /\ PermissionCanBeResolved'
      BY <1>5 DEF OneInFlight, PermissionCanBeResolved
    <2>5. StartedWithConsent' /\ StartedIsWatched'
      BY <1>2, <1>6, <1>9 DEF EffectInv, StartedWithConsent, StartedIsWatched
    <2>6. ReconciliationMatchesUnknown'
      BY <1>5, <1>9 DEF ReconciliationMatchesUnknown
    <2> QED BY <2>1, <2>2, <2>3, <2>5, <2>6 DEF EffectInv
  <1> QED BY <1>4, <1>7, <1>10

-----------------------------------------------------------------------------
(* Leases and recovery *)

(* Recovery closes whatever the turn had in flight. *)
LEMMA RecoverInv ==
    ASSUME IndInv, NEW k \in Nat, RecoverLinkedSessionTurn(k),
           lease' \in [token: Nat, live: BOOLEAN],
           lease'.token \in {0, lease.token}, epoch' = epoch
    PROVE  IndInv'
  <1> DEFINE t == active.turn
             a == Advance(turns[t], "interrupted")
             n == [a EXCEPT !.permission = None, !.input = FALSE]
  <1> USE DEF IndInv
  <1>1. /\ t \in Turns /\ turns[t] \in TurnRecord /\ latest = t /\ t # 0
        /\ turns[t].status = life /\ life \in InFlight
    BY BoundsAssumption
       DEF RecoverLinkedSessionTurn, CanRecover, TypeOK, Turns, TurnInv,
           LifecycleAgrees
  <1>2. /\ turns' = [turns EXCEPT ![t] = n]
        /\ active' = NoActive
        /\ rev' = rev + 1
        /\ life' = IF OfTurn(t, "started") = {} THEN "interrupted"
                   ELSE "reconciliation_required"
        /\ latest' = t
        /\ UNCHANGED consent
    BY DEF RecoverLinkedSessionTurn
  <1>3. n \in TurnRecord /\ n.status = "interrupted" /\ n.token = turns[t].token
    <2>1. a \in TurnRecord /\ a.status = "interrupted" /\ a.token = turns[t].token
      BY <1>1, AdvanceFields DEF Status
    <2> HIDE DEF a
    <2> QED BY <2>1, DropRequests
  <1> HIDE DEF n
  <1>4. /\ turns' \in [Turns -> TurnRecord] /\ turns'[t] = n
        /\ \A u \in Turns : u # t => turns'[u] = turns[u]
        /\ active' \in [turn: 0 .. MaxTurns, token: Nat]
        /\ active'.turn = 0
    BY <1>1, <1>2, <1>3, BoundsAssumption DEF TypeOK, NoActive
  <1>5. life' \in {"interrupted", "reconciliation_required"}
    BY <1>2
  <1>6. ASSUME NEW e \in Effects
        PROVE  /\ perms'[e] \in PermissionRecord
               /\ perms'[e].state = IF effects[e].turn = t
                                        /\ perms[e].state = "pending"
                                     THEN "consumed" ELSE perms[e].state
               /\ effects'[e] \in EffectRecord
               /\ effects'[e] =
                    IF effects[e].turn = t /\ effects[e].status = "prepared"
                    THEN Closed(e, "observed_failed", "never_started")
                    ELSE IF effects[e].turn = t /\ effects[e].status = "started"
                    THEN Closed(e, "unknown", "uncertain")
                    ELSE effects[e]
    <2>1. [perms[e] EXCEPT !.state = "consumed"] \in PermissionRecord
      BY DEF TypeOK, PermissionRecord
    <2>2. /\ Closed(e, "observed_failed", "never_started") \in EffectRecord
          /\ Closed(e, "unknown", "uncertain") \in EffectRecord
      BY ClosedFields DEF EffectStatus, Outcome
    <2>3. perms'[e] = IF effects[e].turn = t /\ perms[e].state = "pending"
                      THEN [perms[e] EXCEPT !.state = "consumed"] ELSE perms[e]
      BY DEF RecoverLinkedSessionTurn
    <2>4. perms'[e] \in PermissionRecord
      BY <2>1, <2>3 DEF TypeOK
    <2>5. perms'[e].state = IF effects[e].turn = t /\ perms[e].state = "pending"
                            THEN "consumed" ELSE perms[e].state
      BY <2>1, <2>3 DEF TypeOK, PermissionRecord
    <2>6. effects'[e] =
                    IF effects[e].turn = t /\ effects[e].status = "prepared"
                    THEN Closed(e, "observed_failed", "never_started")
                    ELSE IF effects[e].turn = t /\ effects[e].status = "started"
                    THEN Closed(e, "unknown", "uncertain")
                    ELSE effects[e]
      BY DEF RecoverLinkedSessionTurn, OfTurn
    <2> QED BY <2>2, <2>4, <2>5, <2>6 DEF TypeOK
  <1>7. TypeOK'
    <2>1. perms' \in [Effects -> PermissionRecord]
      BY <1>6 DEF RecoverLinkedSessionTurn
    <2>2. effects' \in [Effects -> EffectRecord]
      BY <1>6 DEF RecoverLinkedSessionTurn
    <2> QED BY <1>1, <1>2, <1>4, <1>5, <2>1, <2>2 DEF TypeOK, Lifecycle
  <1>8. TurnInv'
    <2>1. Fences'
      BY <1>1, <1>3, <1>4 DEF TurnInv, Fences
    <2>2. Chronology'
      BY <1>1, <1>2, <1>3, <1>4, <1>5 DEF TurnInv, Chronology, Turns, InFlight
    <2>3. LifecycleAgrees'
      BY <1>1, <1>3, <1>4, <1>5 DEF TurnInv, LifecycleAgrees, InFlight, Turns
    <2>4. RecoveryCanFindTurn'
      BY <1>4 DEF RecoveryCanFindTurn
    <2> QED BY <2>1, <2>2, <2>3, <2>4 DEF TurnInv
  <1>9. \A e \in Effects :
          /\ effects[e].status # "unknown"
          /\ effects[e].status \in {"prepared", "started"}
                => effects[e].turn = t
          /\ effects[e].outcome # "acknowledged"
    BY <1>1 DEF EffectInv, StartedIsWatched, ReconciliationMatchesUnknown,
                PreparedIsCurrent, EffectWellFormed, InFlight
  <1>10. \A e \in Effects :
          /\ effects'[e].turn = effects[e].turn
          /\ effects'[e].policy = effects[e].policy
          /\ \/ /\ effects[e].status \notin {"prepared", "started"}
                /\ effects'[e] = effects[e]
             \/ /\ effects[e].status = "prepared"
                /\ effects'[e].status = "observed_failed"
                /\ effects'[e].outcome = "never_started"
             \/ /\ effects[e].status = "started"
                /\ effects'[e].status = "unknown"
                /\ effects'[e].outcome = "uncertain"
    BY <1>6, <1>9, ClosedFields DEF EffectStatus, Outcome
  <1>11. EffectInv'
    <2>1. \A f \in Effects : EffectWellFormed(f)'
      BY <1>1, <1>2, <1>5, <1>6, <1>9, <1>10 DEF EffectInv, EffectWellFormed
    <2>2. \A f \in Effects : PreparedIsCurrent(f)'
      BY <1>10 DEF PreparedIsCurrent
    <2>3. OneInFlight' /\ PermissionCanBeResolved'
      BY <1>4, <1>5 DEF OneInFlight, PermissionCanBeResolved
    <2>5. StartedWithConsent' /\ StartedIsWatched'
      BY <1>2, <1>6, <1>10 DEF EffectInv, StartedWithConsent, StartedIsWatched
    <2>6. ReconciliationMatchesUnknown'
      <3>1. life' = "reconciliation_required" =>
              \E e \in Effects : effects'[e].status = "unknown"
        BY <1>2, <1>10 DEF OfTurn
      <3>2. ASSUME NEW e \in Effects, effects'[e].status = "unknown"
            PROVE  /\ life' = "reconciliation_required"
                   /\ effects'[e].turn = latest'
                   /\ turns'[latest'].status = "interrupted"
                   /\ \A f \in Effects : effects'[f].status = "unknown" => f = e
        <4>1. effects[e].status = "started" /\ effects[e].turn = t
          BY <3>2, <1>9, <1>10
        <4>2. e \in OfTurn(t, "started")
          BY <4>1 DEF OfTurn
        <4>3. \A f \in Effects : effects'[f].status = "unknown" => f = e
          BY <4>1, <1>9, <1>10 DEF EffectInv, StartedIsWatched
        <4> QED BY <1>2, <1>3, <1>4, <1>10, <4>1, <4>2, <4>3
      <3> QED BY <3>1, <3>2 DEF ReconciliationMatchesUnknown
    <2> QED BY <2>1, <2>2, <2>3, <2>5, <2>6 DEF EffectInv
  <1> QED BY <1>7, <1>8, <1>11

(* The lease changes, the ledger does not. *)
LEMMA LeaseOnlyInv ==
    ASSUME IndInv, UNCHANGED ledger,
           lease' \in [token: Nat, live: BOOLEAN],
           epoch' \in Nat, epoch' >= epoch, lease'.token \in {0, epoch'}
    PROVE  IndInv'
  <1> USE DEF IndInv, ledger
  <1>1. TypeOK'
    BY DEF TypeOK
  <1>2. TurnInv'
    <2>1. Fences'
      BY DEF TurnInv, Fences, TypeOK, TurnRecord
    <2> QED BY <2>1 DEF TurnInv, Chronology, LifecycleAgrees, AcceptsFollowUp,
                        RecoveryCanFindTurn
  <1>3. EffectInv'
    BY DEF EffectInv, EffectWellFormed, PreparedIsCurrent, OneInFlight, OfTurn,
           PermissionCanBeResolved, StartedWithConsent, StartedIsWatched,
           ReconciliationMatchesUnknown
  <1> QED BY <1>1, <1>2, <1>3

(* Releasing the lease of a waiting turn clears both tokens and keeps the wait. *)
LEMMA QuiesceInv ==
    ASSUME IndInv, NEW k \in Nat \ {0}, ReleaseQuiesced(k)
    PROVE  IndInv'
  <1> DEFINE t == active.turn
             n == [turns[t] EXCEPT !.token = 0]
             b == [active EXCEPT !.token = 0]
  <1> USE DEF IndInv
  <1>1. /\ t \in Turns /\ turns[t] \in TurnRecord /\ t # 0
        /\ turns[t].status = life /\ life \in {"waiting_permission", "waiting_input"}
    BY BoundsAssumption
       DEF ReleaseQuiesced, CanRecover, TypeOK, Turns, TurnInv,
           LifecycleAgrees, Waiting
  <1>2. /\ turns' = [turns EXCEPT ![t] = n]
        /\ active' = b
        /\ lease' = [token |-> 0, live |-> FALSE]
        /\ UNCHANGED <<life, rev, latest, effects, perms, consent, epoch>>
    BY DEF ReleaseQuiesced, DeleteLease, TypeOK
  <1>3. /\ n \in TurnRecord /\ n.status = turns[t].status /\ n.token = 0
        /\ n.revision = turns[t].revision /\ n.permission = turns[t].permission
        /\ n.failure = turns[t].failure
    BY <1>1, SetToken
  <1>4. /\ b \in [turn: 0 .. MaxTurns, token: Nat]
        /\ b.turn = t /\ b.token = 0
    BY DEF TypeOK
  <1> HIDE DEF n, b
  <1>5. /\ turns' \in [Turns -> TurnRecord] /\ turns'[t] = n
        /\ \A u \in Turns : u # t => turns'[u] = turns[u]
    BY <1>1, <1>2, <1>3 DEF TypeOK
  <1>6. TypeOK'
    BY <1>2, <1>4, <1>5 DEF TypeOK
  <1>7. TurnInv'
    <2>1. Fences'
      BY <1>2, <1>3, <1>5 DEF TurnInv, Fences, TypeOK
    <2>2. Chronology'
      BY <1>1, <1>2, <1>3, <1>5 DEF TurnInv, Chronology
    <2>3. LifecycleAgrees'
      BY <1>1, <1>2, <1>3, <1>4, <1>5
         DEF TurnInv, LifecycleAgrees, AcceptsFollowUp
    <2>4. RecoveryCanFindTurn'
      BY <1>1, <1>2, <1>3, <1>4, <1>5 DEF RecoveryCanFindTurn
    <2> QED BY <2>1, <2>2, <2>3, <2>4 DEF TurnInv
  <1>8. EffectInv'
    <2>1. \A f \in Effects : EffectWellFormed(f)'
      BY <1>2 DEF EffectInv, EffectWellFormed
    <2>2. \A f \in Effects : PreparedIsCurrent(f)'
      BY <1>2, <1>3, <1>4, <1>5 DEF EffectInv, PreparedIsCurrent
    <2>3. OneInFlight'
      BY <1>2, <1>4 DEF EffectInv, OneInFlight
    <2>4. PermissionCanBeResolved'
      BY <1>2, <1>3, <1>4, <1>5 DEF EffectInv, PermissionCanBeResolved, OfTurn
    <2>5. StartedWithConsent' /\ StartedIsWatched'
      BY <1>2, <1>4 DEF EffectInv, StartedWithConsent, StartedIsWatched
    <2>6. ReconciliationMatchesUnknown'
      BY <1>1, <1>2 DEF EffectInv, ReconciliationMatchesUnknown
    <2> QED BY <2>1, <2>2, <2>3, <2>4, <2>5, <2>6 DEF EffectInv
  <1> QED BY <1>6, <1>7, <1>8

-----------------------------------------------------------------------------
(* The theorems *)

LEMMA InitInv == Init => IndInv
  <1> SUFFICES ASSUME Init PROVE IndInv
    OBVIOUS
  <1> USE DEF Init
  <1>1. NoTurn \in TurnRecord /\ NoTurn.status = "none" /\ NoTurn.token = 0
    BY DEF NoTurn, TurnRecord, Status, Failure
  <1>2. NoEffect \in EffectRecord /\ NoEffect.status = "absent"
        /\ NoEffect.policy = "none" /\ NoEffect.outcome = "none"
    BY BoundsAssumption DEF NoEffect, EffectRecord, EffectStatus, Outcome,
                            OperationDigest, Digest
  <1>3. NoPermission \in PermissionRecord /\ NoPermission.state = "absent"
    BY DEF NoPermission, PermissionRecord, OperationDigest, Digest
  <1>4. NoActive \in [turn: 0 .. MaxTurns, token: Nat] /\ NoActive.turn = 0
    BY BoundsAssumption DEF NoActive
  <1> USE <1>1, <1>2, <1>3, <1>4
  <1>5. TypeOK
    BY BoundsAssumption DEF TypeOK, Lifecycle
  <1>6. TurnInv
    BY DEF TurnInv, Fences, Chronology, LifecycleAgrees, RecoveryCanFindTurn,
           InFlight, Turns
  <1>7. EffectInv
    BY DEF EffectInv, EffectWellFormed, PreparedIsCurrent, OneInFlight,
           PermissionCanBeResolved, StartedWithConsent, StartedIsWatched,
           ReconciliationMatchesUnknown
  <1> QED BY <1>5, <1>6, <1>7 DEF IndInv

(* Acquisition, expiry and a release that finds nothing to do. *)
LEMMA LeaseInv ==
    ASSUME IndInv, Acquire \/ Expire \/ \E k \in Tokens : ReleaseIdle(k)
    PROVE  IndInv'
  <1>1. epoch \in Nat /\ epoch + 1 \in Nat
    BY DEF IndInv, TypeOK
  <1>2. CASE Acquire
    <2>1. /\ UNCHANGED ledger /\ epoch' = epoch + 1
          /\ lease' = [token |-> epoch + 1, live |-> TRUE]
      BY <1>2 DEF Acquire
    <2>2. lease' \in [token: Nat, live: BOOLEAN] /\ lease'.token = epoch'
      BY <1>1, <2>1
    <2> QED BY <1>1, <2>1, <2>2, LeaseOnlyInv
  <1>3. CASE Expire
    <2>1. /\ UNCHANGED ledger /\ epoch' = epoch
          /\ lease' = [lease EXCEPT !.live = FALSE]
      BY <1>3 DEF Expire
    <2>2. lease' \in [token: Nat, live: BOOLEAN] /\ lease'.token \in {0, epoch}
      BY <2>1 DEF IndInv, TypeOK, TurnInv, Fences
    <2> QED BY <1>1, <2>1, <2>2, LeaseOnlyInv
  <1>4. CASE \E k \in Tokens : ReleaseIdle(k)
    <2>1. /\ UNCHANGED ledger /\ epoch' = epoch
          /\ lease' = [token |-> 0, live |-> FALSE]
      BY <1>4 DEF ReleaseIdle, DeleteLease
    <2>2. lease' \in [token: Nat, live: BOOLEAN] /\ lease'.token = 0
      BY <2>1
    <2> QED BY <1>1, <2>1, <2>2, LeaseOnlyInv
  <1> QED BY <1>2, <1>3, <1>4

(* The three ways a lost turn is recovered. *)
LEMMA RecoveryInv ==
    ASSUME IndInv,
           \/ RecoverAt
           \/ \E k \in Tokens : \E tr \in Nat : RecoverAfterLeaseLoss(k, tr)
           \/ \E k \in Tokens : ReleaseAbandoned(k)
    PROVE  IndInv'
  <1>0. \A k \in Tokens : k \in Nat
    BY DEF Tokens
  <1>1. lease \in [token: Nat, live: BOOLEAN]
    BY DEF IndInv, TypeOK
  <1>2. CASE RecoverAt
    <2>1. turns[active.turn].token \in Nat
      BY <1>2, BoundsAssumption
         DEF RecoverAt, IndInv, TypeOK, TurnRecord, Turns
    <2> QED BY <1>1, <1>2, <2>1, RecoverInv DEF RecoverAt
  <1>3. CASE \E k \in Tokens : \E tr \in Nat : RecoverAfterLeaseLoss(k, tr)
    BY <1>0, <1>1, <1>3, RecoverInv DEF RecoverAfterLeaseLoss
  <1>4. ASSUME NEW k \in Tokens, ReleaseAbandoned(k) PROVE IndInv'
    <2>1. lease' = [token |-> 0, live |-> FALSE] /\ epoch' = epoch
      BY <1>4 DEF ReleaseAbandoned, DeleteLease
    <2>2. lease' \in [token: Nat, live: BOOLEAN] /\ lease'.token = 0
      BY <2>1
    <2> QED BY <1>0, <1>4, <2>1, <2>2, RecoverInv DEF ReleaseAbandoned
  <1> QED BY <1>2, <1>3, <1>4

(* Every commit. *)
LEMMA CommitInv ==
    ASSUME IndInv, NEW k \in Nat \ {0}, Commit(k)
    PROVE  IndInv'
  <1>1. CASE CreateStartedSession(k) \/ CreateStartedFollowUp(k, rev)
             \/ SwitchSessionBinding(k, rev)
    BY <1>1, CreateInv, FollowUpInv, SwitchInv
  <1>2. CASE CommitTurn(k, rev, LatestRevision)
    <2>1. \A class \in {"retryable", "terminal"} :
            NothingInFlight /\ CommitFail(k, rev, LatestRevision, class) => IndInv'
      BY FailInv
    <2> QED BY <1>2, <2>1, AppendTranscriptInv, AppendDetachedInv,
               RequestInputInv, ProvideInputInv, CompleteInv, CancelWaitingInv,
               InterruptRunningInv DEF CommitTurn
  <1>3. ASSUME NEW e \in Effects,
               \/ NothingInFlight /\ PrepareAllowed(k, rev, LatestRevision, e)
               \/ NothingInFlight /\ PrepareAsk(k, rev, LatestRevision, e)
               \/ ResolveAllow(k, rev, LatestRevision, e)
               \/ ResolveDeny(k, rev, LatestRevision, e)
               \/ StartEffect(k, rev, LatestRevision, e)
               \/ ObserveEffect(k, rev, LatestRevision, e)
               \/ UnknownEffect(k, rev, LatestRevision, e)
               \/ ReconcileUnknownEffect(k, rev, LatestRevision, e)
        PROVE  IndInv'
    BY <1>3, PrepareAllowedInv, PrepareAskInv, ResolveAllowInv, ResolveDenyInv,
       StartEffectInv, ObserveEffectInv, UnknownEffectInv, ReconcileInv
  <1> QED BY <1>1, <1>2, <1>3 DEF Commit, CommitEffect

(* Every step of the ledger preserves the inductive invariant. *)
LEMMA NextInv == IndInv /\ [Next]_vars => IndInv'
  <1> SUFFICES ASSUME IndInv, [Next]_vars PROVE IndInv'
    OBVIOUS
  <1>1. CASE UNCHANGED vars
    <2>1. UNCHANGED ledger /\ UNCHANGED <<lease, epoch>>
      BY <1>1 DEF vars
    <2> QED BY <2>1, LeaseOnlyInv DEF IndInv, TypeOK, TurnInv, Fences
  <1>2. LatestRevision \in Nat
    BY BoundsAssumption
       DEF IndInv, TypeOK, LatestRevision, TurnRecord, Turns
  <1>3. CASE Acquire \/ Expire \/ CreateSessionFork \/ RecoverAt
    BY <1>3, LeaseInv, ForkInv, RecoveryInv
  <1>4. ASSUME NEW k \in Tokens,
               \/ Commit(k)
               \/ RecoverAfterLeaseLoss(k, LatestRevision)
               \/ ReleaseLease(k)
        PROVE  IndInv'
    <2>1. k \in Nat \ {0}
      BY DEF Tokens, IndInv, TypeOK
    <2> QED BY <1>2, <1>4, <2>1, CommitInv, RecoveryInv, LeaseInv, QuiesceInv
            DEF ReleaseLease
  <1> QED BY <1>1, <1>3, <1>4 DEF Next

(* The conjunction of everything below is inductive. *)
THEOREM Invariance == Spec => []IndInv
  BY InitInv, NextInv, PTL DEF Spec

(* Every variable keeps its type, whatever clients do. *)
THEOREM TypeCorrect == Spec => []TypeOK
  <1>1. IndInv => TypeOK
    BY DEF IndInv
  <1> QED BY <1>1, Invariance, PTL

(* The lifecycle column, the active row and the turn never disagree, and a
   running turn can always be found by recovery. *)
THEOREM SessionConsistent == Spec => [](LifecycleAgrees /\ RecoveryCanFindTurn)
  <1>1. IndInv => LifecycleAgrees /\ RecoveryCanFindTurn
    BY DEF IndInv, TurnInv
  <1> QED BY <1>1, Invariance, PTL

(* An effect the policy asks about is never started without the user's
   consent, and a pending question can always be answered. *)
THEOREM ConsentSafety ==
    Spec => [](StartedWithConsent /\ PermissionCanBeResolved)
  <1>1. IndInv => StartedWithConsent /\ PermissionCanBeResolved
    BY DEF IndInv, EffectInv
  <1> QED BY <1>1, Invariance, PTL

(* A started effect is watched by a running turn, and the outcome of one that
   was lost is admitted and can be reconciled. *)
THEOREM EffectSafety ==
    Spec => [](StartedIsWatched /\ ReconciliationMatchesUnknown)
  <1>1. IndInv => StartedIsWatched /\ ReconciliationMatchesUnknown
    BY DEF IndInv, EffectInv
  <1> QED BY <1>1, Invariance, PTL
=============================================================================
