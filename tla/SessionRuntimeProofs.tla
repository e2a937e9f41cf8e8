------------------------ MODULE SessionRuntimeProofs ------------------------
(* Proofs about SessionRuntime, for every set of coordinators and effects: it
   implements SessionStore, and what it executes is what the ledger says. *)
EXTENDS SessionRuntime, SessionStoreSteps, FiniteSetTheorems

-----------------------------------------------------------------------------
(* The inductive invariants *)

(* Where a coordinator has closed whatever it had in hand. *)
Between == {"driving", "compacted", "provider", "answered", "cut", "round",
            "batch", "verified"}

(* A coordinator whose snapshot is still current has nothing in hand there:
   what SessionStore assumes of its clients. *)
HandsAreEmpty ==
    \A c \in Coords :
        /\ co[c].sr <= rev
        /\ co[c].pc \in Between /\ co[c].sr = rev => NothingInFlight

(* One that is at work on an effect knows which. *)
EffectIsNamed ==
    \A c \in Coords :
        co[c].pc \in {"prepared", "started", "executing"} => co[c].e \in Effects

StoreInv ==
    IndInv /\ TokensIssued /\ RuntimeTypeOK /\ HandsAreEmpty /\ EffectIsNamed

(* Effects that run, or of which it is not known what they did. *)
Doubtful == {e \in Effects :
                EffectState(e) \in {"running", "unknown", "acknowledged"}}

(* There is one of them in the life of a session. *)
OneDoubt == \A e, f \in Doubtful : e = f

(* An executor that was started has its effect in one of the states that come
   after Started, and one at work has it in doubt. *)
RanIsRecorded ==
    \A e \in Effects :
        /\ ran[e] \in {0, 1}
        /\ ran[e] = 1 =>
              EffectState(e) \in {"running", "done", "unknown", "acknowledged"}
        /\ e \in working => ran[e] = 1 /\ e \in Doubtful
        /\ effects[e].outcome = "observed" => ran[e] = 1

(* The one coordinator between Started and the execution: nothing has run yet,
   whatever was done to its turn in the meantime. *)
StarterIsAlone ==
    \A c \in Coords :
        /\ At(c, "started") =>
              /\ co[c].e \in Doubtful
              /\ ran[co[c].e] = 0
              /\ \A d \in Coords : At(d, "started") => d = c
        /\ At(c, "executing") => ran[co[c].e] = 1

WorldInv == OneDoubt /\ RanIsRecorded /\ StarterIsAlone

-----------------------------------------------------------------------------
(* Every step of a coordinator is a step of the ledger *)

(* Past the acquisition a coordinator holds a token that was issued. *)
LEMMA TokenOf ==
    ASSUME StoreInv, NEW c \in Coords, co[c].pc \notin {"idle", "loaded"}
    PROVE  co[c].k \in Tokens /\ co[c].k \in Nat \ {0}
  <1>1. co[c].k \in Nat /\ co[c].k # 0 /\ co[c].k <= epoch /\ epoch \in Nat
    BY DEF StoreInv, RuntimeTypeOK, Coordinator, TypeOK
  <1> QED BY <1>1 DEF Tokens

(* A commit that is let through was made against the current revisions. *)
LEMMA CommitIsNext ==
    ASSUME IndInv, rev < MaxRevision, NEW k \in Tokens, NEW sr, NEW tr,
           CommitTurn(k, sr, tr) \/ CommitEffect(k, sr, tr)
    PROVE  Next
  <1>1. k \in Nat \ {0}
    BY DEF Tokens, IndInv, TypeOK
  <1>2. CASE FencedActive(k, sr, active.turn, tr)
    <2>1. /\ turns[active.turn].revision = tr /\ latest = active.turn
          /\ active.turn \in Turns
      BY <1>1, <1>2, FencedFacts DEF IndInv
    <2>2. sr = rev /\ tr = LatestRevision
      BY <1>2, <2>1 DEF FencedActive, Fenced, LatestRevision, Turns
    <2> QED BY <2>2 DEF Next, Commit
  <1>3. CASE Fenced(k, sr, latest, tr)
    <2>1. sr = rev /\ tr = LatestRevision
      BY <1>3 DEF Fenced, LatestRevision
    <2> QED BY <2>1 DEF Next, Commit
  <1> QED
    BY <1>2, <1>3
       DEF CommitTurn, AppendTranscript, AppendDetached, CommitRequestInput,
           CommitProvideInput, CommitComplete, CommitFail, CancelWaiting,
           InterruptRunning, CommitEffect, PrepareAllowed, PrepareAsk,
           ResolveAllow, ResolveDeny, StartEffect, ObserveEffect,
           UnknownEffect, ReconcileUnknownEffect

(* Between two effects a coordinator whose commit is let through has nothing
   in hand. *)
LEMMA EmptyHands ==
    ASSUME StoreInv, NEW c \in Coords, co[c].pc \in Between, NEW tr,
           FencedActive(co[c].k, co[c].sr, active.turn, tr)
    PROVE  NothingInFlight
  BY DEF StoreInv, HandsAreEmpty, FencedActive, Fenced

(* The first commit of an operation. *)
LEMMA SubmitIsNext ==
    ASSUME StoreInv, rev < MaxRevision, NEW c \in Coords, Submit(c)
    PROVE  Next
  <1> DEFINE k == co[c].k
             sr == co[c].sr
             tr == co[c].tr
  <1>1. IndInv /\ k \in Tokens /\ co[c].e \in Effects \cup {None}
    BY TokenOf
       DEF StoreInv, Submit, SubmitStart, SubmitFollowUp, SubmitSwitch,
           SubmitPermission, SubmitInput, SubmitCancel, SubmitReconcile,
           SubmitAppend, Submits, At, RuntimeTypeOK, Coordinator
  <1>2. CASE SubmitStart(c) \/ SubmitFollowUp(c) \/ SubmitSwitch(c)
    <2>1. \/ CreateStartedSession(k)
          \/ CreateStartedFollowUp(k, sr)
          \/ SwitchSessionBinding(k, sr)
      BY <1>2 DEF SubmitStart, SubmitFollowUp, SubmitSwitch
    <2>2. CASE CreateStartedSession(k)
      BY <1>1, <2>2 DEF Next, Commit
    <2>3. CASE CreateStartedFollowUp(k, sr) \/ SwitchSessionBinding(k, sr)
      <3>1. sr = rev
        BY <2>3 DEF CreateStartedFollowUp, SwitchSessionBinding
      <3> QED BY <1>1, <2>3, <3>1 DEF Next, Commit
    <2> QED BY <2>1, <2>2, <2>3
  <1>3. CASE SubmitInput(c) \/ SubmitCancel(c) \/ SubmitAppend(c)
    <2>1. CommitTurn(k, sr, tr)
      BY <1>3 DEF SubmitInput, SubmitCancel, SubmitAppend, CommitTurn
    <2> QED BY <1>1, <2>1, CommitIsNext
  <1>4. CASE SubmitPermission(c) \/ SubmitReconcile(c)
    <2>1. PICK e : /\ e = co[c].e
                   /\ \/ ResolveAllow(k, sr, tr, e) \/ ResolveDeny(k, sr, tr, e)
                      \/ ReconcileUnknownEffect(k, sr, tr, e)
      BY <1>4 DEF SubmitPermission, SubmitReconcile
    <2>2. e \in Effects
      <3>1. CASE ResolveAllow(k, sr, tr, e) \/ ResolveDeny(k, sr, tr, e)
        <4>1. CanResolvePermission(turns[active.turn], e)
              /\ FencedActive(k, sr, active.turn, tr)
          BY <3>1 DEF ResolveAllow, ResolveDeny
        <4>2. life = "waiting_permission" /\ e = turns[active.turn].permission
          BY <1>1, <4>1, FencedFacts
             DEF CanResolvePermission, IndInv, TypeOK, Tokens
        <4> QED BY <1>1, <4>2 DEF IndInv, EffectInv, PermissionCanBeResolved, OfTurn
      <3>2. CASE ReconcileUnknownEffect(k, sr, tr, e)
        BY <3>2 DEF ReconcileUnknownEffect, OfTurn
      <3> QED BY <2>1, <3>1, <3>2
    <2>3. CommitEffect(k, sr, tr)
      BY <2>1, <2>2 DEF CommitEffect
    <2> QED BY <1>1, <2>3, CommitIsNext
  <1> QED BY <1>2, <1>3, <1>4 DEF Submit

(* The commits of run_provider_turn. *)
LEMMA ReplyIsNext ==
    ASSUME StoreInv, rev < MaxRevision, NEW c \in Coords,
           \/ Compact(c) \/ CannotCall(c) \/ Reply(c) \/ FailCut(c)
           \/ Conclusion(c)
    PROVE  Next
  <1> DEFINE k == co[c].k
             sr == co[c].sr
             tr == co[c].tr
  <1>1. co[c].pc \in Between
    BY DEF Compact, CannotCall, Reply, FailCut, Conclusion, ReplyCancelled,
           ReplyOverflow, ReplyFailed, ReplyInput, ReplyCut, ReplyText,
           ReplyTools, At, Between
  <1>2. IndInv /\ k \in Tokens
    BY <1>1, TokenOf DEF Between, StoreInv
  <1>3. \/ AppendTranscript(k, sr, tr) \/ CommitRequestInput(k, sr, tr)
        \/ CommitComplete(k, sr, tr)
        \/ \E class \in {"retryable", "terminal"} : CommitFail(k, sr, tr, class)
        \/ InterruptRunning(k, sr, tr)
    BY DEF Compact, CannotCall, Reply, FailCut, Conclusion, ReplyCancelled,
           ReplyOverflow, ReplyFailed, ReplyInput, ReplyCut, ReplyText,
           ReplyTools
  <1>4. NothingInFlight
    <2>1. FencedActive(k, sr, active.turn, tr)
      BY <1>3 DEF AppendTranscript, CommitRequestInput, CommitComplete,
                  CommitFail, InterruptRunning
    <2> QED BY <1>1, <2>1, EmptyHands
  <1>5. CommitTurn(k, sr, tr)
    BY <1>3, <1>4 DEF CommitTurn
  <1> QED BY <1>2, <1>5, CommitIsNext

(* The commits around one effect. *)
LEMMA EffectIsNext ==
    ASSUME StoreInv, rev < MaxRevision, NEW c \in Coords,
           \/ Prepare(c) \/ StartPrepared(c) \/ Refuse(c) \/ Observe(c)
           \/ ObserveUnknown(c)
    PROVE  Next
  <1> DEFINE k == co[c].k
             sr == co[c].sr
             tr == co[c].tr
  <1>1. IndInv /\ k \in Tokens
    BY TokenOf DEF Prepare, StartPrepared, Refuse, Observe, ObserveUnknown, At,
                   StoreInv
  <1>2. CASE Prepare(c)
    <2>1. PICK e \in Effects :
              /\ co[c].pc \in {"round", "batch", "answered"}
              /\ PrepareAllowed(k, sr, tr, e) \/ PrepareAsk(k, sr, tr, e)
      BY <1>2 DEF Prepare, At
    <2>2. NothingInFlight
      <3>1. FencedActive(k, sr, active.turn, tr)
        BY <2>1 DEF PrepareAllowed, PrepareAsk
      <3> QED BY <2>1, <3>1, EmptyHands DEF Between
    <2>3. CommitEffect(k, sr, tr)
      BY <2>1, <2>2 DEF CommitEffect
    <2> QED BY <1>1, <2>3, CommitIsNext
  <1>3. CASE ~Prepare(c)
    <2>1. PICK e : /\ e = co[c].e
                   /\ \/ StartEffect(k, sr, tr, e) \/ UnknownEffect(k, sr, tr, e)
                      \/ ObserveEffect(k, sr, tr, e)
      BY <1>3 DEF StartPrepared, Refuse, Observe, ObserveUnknown
    <2>2. e \in Effects
      BY <1>3, <2>1
         DEF StartPrepared, Refuse, Observe, ObserveUnknown, At, StoreInv,
             EffectIsNamed
    <2>3. CommitEffect(k, sr, tr)
      BY <2>1, <2>2 DEF CommitEffect
    <2> QED BY <1>1, <2>3, CommitIsNext
  <1> QED BY <1>2, <1>3

(* The lease: acquired, lost or returned. *)
LEMMA LeaseIsNext ==
    ASSUME StoreInv, NEW c \in Coords, AcquireLease(c) \/ LeaseLost(c) \/ Leave(c)
    PROVE  Next \/ UNCHANGED vars
  <1>1. CASE AcquireLease(c)
    BY <1>1 DEF AcquireLease, Next
  <1>2. CASE LeaseLost(c)
    <2>1. co[c].k \in Tokens
      BY <1>2, TokenOf DEF LeaseLost, Registered
    <2>2. CASE RecoverAfterLeaseLoss(co[c].k, co[c].tr)
      <3>1. active.turn # 0 /\ co[c].tr = LatestRevision
        BY <2>2 DEF RecoverAfterLeaseLoss, CanRecover, LatestRevision, StoreInv,
                    IndInv, TurnInv, LifecycleAgrees
      <3> QED BY <2>1, <2>2, <3>1 DEF Next
    <2> QED BY <1>2, <2>2 DEF LeaseLost
  <1>3. CASE Leave(c)
    <2>1. co[c].k \in Tokens
      BY <1>3, TokenOf DEF Leave, At
    <2> QED BY <1>3, <2>1 DEF Leave, Next
  <1> QED BY <1>1, <1>2, <1>3

(* A step of the system is a step of the ledger, or leaves it alone. *)
LEMMA RuntimeIsNext ==
    ASSUME StoreInv, [RuntimeNext]_allVars
    PROVE  [Next]_vars
  <1>1. CASE UNCHANGED allVars
    BY <1>1 DEF allVars
  <1>2. ASSUME NEW c \in Coords, Step(c) PROVE [Next]_vars
    <2>1. rev < MaxRevision
      BY <1>2 DEF Step
    <2>2. CASE Submit(c)
      BY <2>1, <2>2, SubmitIsNext
    <2>3. CASE Compact(c) \/ CannotCall(c) \/ Reply(c) \/ FailCut(c)
               \/ Conclusion(c)
      BY <2>1, <2>3, ReplyIsNext
    <2>4. CASE Prepare(c) \/ StartPrepared(c) \/ Refuse(c) \/ Observe(c)
               \/ ObserveUnknown(c)
      BY <2>1, <2>4, EffectIsNext
    <2>5. CASE AcquireLease(c) \/ LeaseLost(c) \/ Leave(c)
      BY <2>5, LeaseIsNext
    <2>6. CASE Busy(c) \/ SignalCancel(c) \/ CallProvider(c) \/ BatchDone(c)
               \/ Execute(c) \/ Rejected(c)
      BY <2>6 DEF Busy, SignalCancel, CallProvider, BatchDone, Execute, Rejected
    <2> QED BY <1>2, <2>2, <2>3, <2>4, <2>5, <2>6 DEF Step
  <1>3. ASSUME NEW c \in Coords,
               (\E op \in Requests : Load(c, op)) \/ Abandon(c) \/ Crash(c)
        PROVE  [Next]_vars
    BY <1>3 DEF Load, Abandon, Crash
  <1>4. CASE \E e \in Effects : ExecutorEnds(e)
    BY <1>4 DEF ExecutorEnds
  <1>5. CASE Sweep \/ Timeout \/ Fork
    BY <1>5 DEF Sweep, Timeout, Fork, Next
  <1> QED BY <1>1, <1>2, <1>3, <1>4, <1>5 DEF RuntimeNext

-----------------------------------------------------------------------------
(* The invariant that makes it so is inductive *)

(* The step takes coordinator c to the local state r, which fits the ledger
   after the step. *)
MovesTo(c, r) ==
    /\ co' = [co EXCEPT ![c] = r]
    /\ r \in Coordinator
    /\ r.k <= epoch'
    /\ r.k = 0 <=> r.pc \in {"idle", "loaded"}
    /\ r.sr <= rev'
    /\ r.pc \in Between /\ r.sr = rev' => NothingInFlight'
    /\ r.pc \in {"prepared", "started", "executing"} => r.e \in Effects

(* What everybody else may rely on when the ledger takes a step. *)
LedgerMoves ==
    /\ IndInv' /\ TokensIssued'
    /\ epoch' >= epoch
    /\ rev' >= rev
    /\ rev' = rev => UNCHANGED <<latest, effects, active.turn>>

LEMMA NextMoves ==
    ASSUME IndInv, TokensIssued, [Next]_vars
    PROVE  LedgerMoves
  <1>1. IndInv' /\ TokensIssued'
    BY NextInv, NextTokens
  <1>2. epoch' >= epoch
    <2>1. epoch \in Nat
      BY DEF IndInv, TypeOK
    <2>2. CASE Acquire
      BY <2>1, <2>2 DEF Acquire
    <2>3. ASSUME NEW k \in Tokens, Commit(k)
          PROVE  epoch' = epoch
      BY <2>3, CommitTokens DEF Tokens, IndInv, TypeOK
    <2>4. CASE Expire \/ CreateSessionFork \/ RecoverAt \/ UNCHANGED vars
      BY <2>1, <2>4 DEF Expire, CreateSessionFork, RecoverAt, vars
    <2>5. ASSUME NEW k \in Tokens,
                 RecoverAfterLeaseLoss(k, LatestRevision) \/ ReleaseLease(k)
          PROVE  epoch' = epoch
      BY <2>5 DEF RecoverAfterLeaseLoss, ReleaseLease, ReleaseQuiesced,
                  ReleaseAbandoned, ReleaseIdle, DeleteLease
    <2> QED BY <2>1, <2>2, <2>3, <2>4, <2>5 DEF Next
  <1>3. /\ rev' >= rev
        /\ rev' = rev => UNCHANGED <<latest, effects, active.turn>>
    <2>1. rev \in Nat /\ rev' \in Nat
      BY <1>1 DEF IndInv, TypeOK
    <2>2. CASE UNCHANGED vars
      BY <2>1, <2>2 DEF vars, ledger
    <2>3. CASE ~UNCHANGED vars
      <3>1. Next /\ StepMovesOn
        BY <2>3, NextMovesOn
      <3> QED BY <2>1, <3>1 DEF StepMovesOn, RevisionMovesOn
    <2> QED BY <2>2, <2>3
  <1> QED BY <1>1, <1>2, <1>3 DEF LedgerMoves

(* What is said of the coordinators, the world left aside. *)
CoordInv ==
    /\ co \in [Coords -> Coordinator]
    /\ \A c \in Coords : /\ co[c].k <= epoch
                         /\ co[c].k = 0 <=> co[c].pc \in {"idle", "loaded"}
    /\ HandsAreEmpty
    /\ EffectIsNamed

(* The others are where they were, and what they know is at worst outdated. *)
LEMMA OthersKeep ==
    ASSUME StoreInv, LedgerMoves, NEW d \in Coords, co'[d] = co[d]
    PROVE  /\ co'[d] \in Coordinator
           /\ co'[d].k <= epoch'
           /\ co'[d].k = 0 <=> co'[d].pc \in {"idle", "loaded"}
           /\ co'[d].sr <= rev'
           /\ co'[d].pc \in Between /\ co'[d].sr = rev' => NothingInFlight'
           /\ co'[d].pc \in {"prepared", "started", "executing"} =>
                 co'[d].e \in Effects
  <1>1. /\ co[d] \in Coordinator /\ co[d].k \in Nat /\ co[d].sr \in Nat
        /\ co[d].k <= epoch /\ co[d].sr <= rev
        /\ rev \in Nat /\ rev' \in Nat /\ epoch \in Nat /\ epoch' \in Nat
        /\ epoch <= epoch' /\ rev <= rev'
    BY DEF StoreInv, RuntimeTypeOK, Coordinator, HandsAreEmpty, LedgerMoves,
           IndInv, TypeOK
  <1>2. CASE co[d].pc \in Between /\ co[d].sr = rev'
    <2>1. rev' = rev
      BY <1>1, <1>2
    <2>2. NothingInFlight
      BY <1>2, <2>1 DEF StoreInv, HandsAreEmpty
    <2>3. UNCHANGED <<effects, active.turn>>
      BY <2>1 DEF LedgerMoves
    <2>4. NothingInFlight'
      BY <2>2, <2>3 DEF NothingInFlight, OfTurn
    <2> QED BY <1>1, <2>4 DEF StoreInv, RuntimeTypeOK, EffectIsNamed
  <1>3. CASE ~(co[d].pc \in Between /\ co[d].sr = rev')
    BY <1>1, <1>3 DEF StoreInv, RuntimeTypeOK, EffectIsNamed
  <1> QED BY <1>2, <1>3

LEMMA MovedInv ==
    ASSUME StoreInv, LedgerMoves, NEW c \in Coords, NEW r, MovesTo(c, r)
    PROVE  CoordInv'
  <1>1. co \in [Coords -> Coordinator]
    BY DEF StoreInv, RuntimeTypeOK
  <1>2. co' \in [Coords -> Coordinator]
    BY <1>1 DEF MovesTo
  <1>3. ASSUME NEW d \in Coords
        PROVE  /\ co'[d].k <= epoch'
               /\ co'[d].k = 0 <=> co'[d].pc \in {"idle", "loaded"}
               /\ co'[d].sr <= rev'
               /\ co'[d].pc \in Between /\ co'[d].sr = rev' => NothingInFlight'
               /\ co'[d].pc \in {"prepared", "started", "executing"} =>
                     co'[d].e \in Effects
    <2>1. CASE d = c
      BY <1>1, <2>1 DEF MovesTo
    <2>2. CASE d # c
      <3>1. co'[d] = co[d]
        BY <1>1, <2>2 DEF MovesTo
      <3> QED BY <3>1, OthersKeep
    <2> QED BY <2>1, <2>2
  <1> QED BY <1>2, <1>3 DEF CoordInv, HandsAreEmpty, EffectIsNamed

LEMMA StayedInv ==
    ASSUME StoreInv, LedgerMoves, co' = co
    PROVE  CoordInv'
  <1>1. co' \in [Coords -> Coordinator]
    BY DEF StoreInv, RuntimeTypeOK
  <1> QED BY <1>1, OthersKeep DEF CoordInv, HandsAreEmpty, EffectIsNamed

(* The ways in which a coordinator moves. *)
LEMMA IdleMoves ==
    ASSUME StoreInv, LedgerMoves, NEW c \in Coords, co' = [co EXCEPT ![c] = Idle]
    PROVE  CoordInv'
  <1>1. /\ Idle \in Coordinator /\ Idle.k = 0 /\ Idle.pc = "idle" /\ Idle.sr = 0
    BY BoundsAssumption DEF Idle, Coordinator, PC
  <1>2. MovesTo(c, Idle)
    BY <1>1 DEF MovesTo, LedgerMoves, IndInv, TypeOK, Between
  <1> QED BY <1>2, MovedInv

LEMMA LeavingFields ==
    ASSUME NEW k \in Nat
    PROVE  /\ [Idle EXCEPT !.pc = "leaving", !.k = k] \in Coordinator
           /\ [Idle EXCEPT !.pc = "leaving", !.k = k].k = k
           /\ [Idle EXCEPT !.pc = "leaving", !.k = k].pc = "leaving"
           /\ [Idle EXCEPT !.pc = "leaving", !.k = k].sr = 0
  <1>1. Idle \in Coordinator /\ Idle.sr = 0
    BY BoundsAssumption DEF Idle, Coordinator, PC
  <1> QED BY <1>1 DEF Coordinator, PC

LEMMA FinishMoves ==
    ASSUME StoreInv, LedgerMoves, NEW c \in Coords, Finish(c),
           co[c].pc \notin {"idle", "loaded"}
    PROVE  CoordInv'
  <1> DEFINE r == [Idle EXCEPT !.pc = "leaving", !.k = co[c].k]
  <1>1. /\ co[c].k \in Nat /\ co[c].k # 0 /\ co[c].k <= epoch
    BY DEF StoreInv, RuntimeTypeOK, Coordinator
  <1>2. /\ r \in Coordinator /\ r.k = co[c].k /\ r.pc = "leaving" /\ r.sr = 0
    BY <1>1, LeavingFields
  <1>3. co' = [co EXCEPT ![c] = r]
    BY DEF Finish
  <1> HIDE DEF r
  <1>4. MovesTo(c, r)
    BY <1>1, <1>2, <1>3
       DEF MovesTo, LedgerMoves, IndInv, TypeOK, Between, StoreInv
  <1> QED BY <1>4, MovedInv

(* The snapshot that a commit returns. *)
LEMMA RefreshedFields ==
    ASSUME StoreInv, LedgerMoves, NEW c \in Coords, NEW p \in PC
    PROVE  /\ Refreshed(c, p) \in Coordinator
           /\ Refreshed(c, p).pc = p
           /\ Refreshed(c, p).k = co[c].k
           /\ Refreshed(c, p).sr = rev'
           /\ Refreshed(c, p).e = co[c].e
  <1>1. co[c] \in Coordinator
    BY DEF StoreInv, RuntimeTypeOK
  <1>2. rev' \in Nat /\ LatestRevision' \in Nat
    BY BoundsAssumption
       DEF LedgerMoves, IndInv, TypeOK, LatestRevision, TurnRecord, Turns
  <1> HIDE DEF LatestRevision
  <1>3. 0 \in 0 .. MaxTurns
    BY BoundsAssumption
  <1> QED BY <1>1, <1>2, <1>3 DEF Refreshed, Coordinator

LEMMA ThenMoves ==
    ASSUME StoreInv, LedgerMoves, NEW c \in Coords,
           NEW p \in PC \ {"idle", "loaded"},
           co[c].pc \notin {"idle", "loaded"},
           Then(c, p),
           p \in Between => NothingInFlight',
           p \in {"prepared", "started", "executing"} => co[c].e \in Effects
    PROVE  CoordInv'
  <1> DEFINE r == Refreshed(c, p)
  <1>1. /\ r \in Coordinator /\ r.pc = p /\ r.k = co[c].k /\ r.sr = rev'
        /\ r.e = co[c].e
    BY RefreshedFields
  <1>2. /\ co[c].k \in Nat /\ co[c].k # 0 /\ co[c].k <= epoch
        /\ epoch \in Nat /\ epoch' \in Nat /\ epoch <= epoch' /\ rev' \in Nat
    BY DEF StoreInv, RuntimeTypeOK, Coordinator, LedgerMoves, IndInv, TypeOK
  <1>3. co' = [co EXCEPT ![c] = r]
    BY DEF Then
  <1> HIDE DEF r
  <1>4. MovesTo(c, r)
    BY <1>1, <1>2, <1>3 DEF MovesTo
  <1> QED BY <1>4, MovedInv

LEMMA GotoMoves ==
    ASSUME StoreInv, LedgerMoves, UNCHANGED vars, NEW c \in Coords,
           NEW p \in PC \ {"idle", "loaded"},
           co[c].pc \notin {"idle", "loaded"},
           Goto(c, p),
           p \in Between => co[c].pc \in Between,
           p \in {"prepared", "started", "executing"} => co[c].e \in Effects
    PROVE  CoordInv'
  <1> DEFINE r == [co[c] EXCEPT !.pc = p]
  <1>1. /\ r \in Coordinator /\ r.pc = p /\ r.k = co[c].k /\ r.sr = co[c].sr
        /\ r.e = co[c].e
    BY DEF StoreInv, RuntimeTypeOK, Coordinator
  <1>2. /\ co[c].k # 0 /\ co[c].k <= epoch /\ co[c].sr <= rev
        /\ co[c].pc \in Between /\ co[c].sr = rev => NothingInFlight
    BY DEF StoreInv, RuntimeTypeOK, HandsAreEmpty
  <1>3. /\ epoch' = epoch /\ rev' = rev
        /\ NothingInFlight' <=> NothingInFlight
    BY DEF vars, ledger, NothingInFlight, OfTurn
  <1>4. co' = [co EXCEPT ![c] = r]
    BY DEF Goto, StoreInv, RuntimeTypeOK
  <1> HIDE DEF r
  <1>5. MovesTo(c, r)
    BY <1>1, <1>2, <1>3, <1>4 DEF MovesTo
  <1> QED BY <1>5, MovedInv

(* With every effect settled nothing is in hand, whichever turn is active. *)
LEMMA RestIsEmpty ==
    ASSUME AtRest, effects' = effects
    PROVE  NothingInFlight'
  BY DEF AtRest, NothingInFlight, OfTurn

(* A card changes nothing about effects. *)
LEMMA AppendIsEmpty ==
    ASSUME StoreInv, NEW c \in Coords, co[c].pc \in Between, NEW tr,
           AppendTranscript(co[c].k, co[c].sr, tr)
    PROVE  NothingInFlight'
  <1>1. NothingInFlight
    BY EmptyHands DEF AppendTranscript
  <1>2. active'.turn = active.turn /\ effects' = effects
    BY DEF AppendTranscript, Proceed, StoreInv, IndInv, TypeOK
  <1> QED BY <1>1, <1>2 DEF NothingInFlight, OfTurn

(* An effect that was observed was the only one in hand. *)
LEMMA ObserveIsEmpty ==
    ASSUME IndInv, NEW k, NEW sr, NEW tr, NEW e \in Effects,
           ObserveEffect(k, sr, tr, e)
    PROVE  NothingInFlight'
  <1> DEFINE t == active.turn
  <1>1. /\ e \in OfTurn(t, "started") /\ active'.turn = t /\ t # 0
        /\ effects'[e].status \in {"observed_success", "observed_failed"}
        /\ \A f \in Effects \ {e} : effects'[f] = effects[f]
    <2>1. PICK s \in {"observed_success", "observed_failed"} :
              effects' = [effects EXCEPT ![e] = Closed(e, s, "observed")]
      BY DEF ObserveEffect
    <2>2. Closed(e, s, "observed").status = s
      BY ClosedFields DEF IndInv, EffectStatus, Outcome
    <2> QED BY <2>1, <2>2
            DEF ObserveEffect, FencedActive, Fenced, Proceed, IndInv, TypeOK
  <1>2. \A f \in Effects :
            f # e /\ effects[f].turn = t => effects[f].status \notin {"prepared", "started"}
    BY <1>1 DEF IndInv, EffectInv, OneInFlight, OfTurn
  <1> QED BY <1>1, <1>2 DEF NothingInFlight, OfTurn

(* The first commit of an operation. *)
LEMMA SubmitCoord ==
    ASSUME StoreInv, LedgerMoves, NEW c \in Coords, Submit(c)
    PROVE  CoordInv'
  <1>1. co[c].pc \notin {"idle", "loaded"} /\ co[c].k \in Nat \ {0}
    BY TokenOf
       DEF Submit, SubmitStart, SubmitFollowUp, SubmitSwitch, SubmitPermission,
           SubmitInput, SubmitCancel, SubmitReconcile, SubmitAppend, Submits, At
  <1>2. IndInv
    BY DEF StoreInv
  <1>3. CASE SubmitStart(c) \/ SubmitFollowUp(c) \/ SubmitInput(c)
    <2>1. Then(c, "driving") /\ effects' = effects
      BY <1>3 DEF SubmitStart, SubmitFollowUp, SubmitInput, CommitProvideInput,
                  CreateStartedSession, CreateStartedFollowUp, BeginTurn
    <2>2. life \in {"absent", "ready", "waiting_input"}
      <3>1. CASE SubmitInput(c)
        <4>1. CommitProvideInput(co[c].k, co[c].sr, co[c].tr)
          BY <3>1 DEF SubmitInput
        <4>2. /\ FencedActive(co[c].k, co[c].sr, active.turn, co[c].tr)
              /\ turns[active.turn].status = "waiting_input"
          BY <4>1 DEF CommitProvideInput, CanProvideInput
        <4> QED BY <1>1, <1>2, <4>2, FencedFacts DEF IndInv
      <3> QED BY <1>3, <3>1 DEF SubmitStart, SubmitFollowUp,
                                CreateStartedSession, CreateStartedFollowUp
    <2>3. NothingInFlight'
      BY <1>2, <2>1, <2>2, RestFacts, RestIsEmpty
    <2> QED BY <1>1, <2>1, <2>3, ThenMoves DEF PC
  <1>4. CASE Submits(c, "allow") /\ Then(c, "prepared")
             /\ ResolveAllow(co[c].k, co[c].sr, co[c].tr, co[c].e)
    <2>1. /\ FencedActive(co[c].k, co[c].sr, active.turn, co[c].tr)
          /\ CanResolvePermission(turns[active.turn], co[c].e)
      BY <1>4 DEF ResolveAllow
    <2>2. /\ life = "waiting_permission"
          /\ co[c].e = turns[active.turn].permission
      BY <1>1, <1>2, <2>1, FencedFacts DEF CanResolvePermission, IndInv
    <2>3. co[c].e \in Effects
      BY <1>2, <2>2 DEF IndInv, EffectInv, PermissionCanBeResolved, OfTurn
    <2> QED BY <1>1, <1>4, <2>3, ThenMoves DEF PC, Between
  <1>5. CASE Finish(c)
    BY <1>1, <1>5, FinishMoves
  <1> QED BY <1>3, <1>4, <1>5
          DEF Submit, SubmitSwitch, SubmitPermission, SubmitCancel,
              SubmitReconcile, SubmitAppend

(* The commits of run_provider_turn. *)
LEMMA ReplyCoord ==
    ASSUME StoreInv, LedgerMoves, NEW c \in Coords,
           \/ Compact(c) \/ CannotCall(c) \/ Reply(c) \/ FailCut(c)
           \/ Conclusion(c)
    PROVE  CoordInv'
  <1>1. co[c].pc \in Between /\ co[c].pc \notin {"idle", "loaded"}
    BY DEF Compact, CannotCall, Reply, FailCut, Conclusion, ReplyCancelled,
           ReplyOverflow, ReplyFailed, ReplyInput, ReplyCut, ReplyText,
           ReplyTools, At, Between
  <1>2. CASE Finish(c)
    BY <1>1, <1>2, FinishMoves
  <1>3. ASSUME NEW p \in {"compacted", "cut", "answered", "round"},
               AppendTranscript(co[c].k, co[c].sr, co[c].tr), Then(c, p)
        PROVE  CoordInv'
    BY <1>1, <1>3, AppendIsEmpty, ThenMoves DEF PC, Between
  <1>4. CASE ReplyOverflow(c)
    <2> DEFINE q == Refreshed(c, "compacted")
               r == [q EXCEPT !.retried = TRUE]
    <2>1. /\ q \in Coordinator /\ q.pc = "compacted" /\ q.k = co[c].k
          /\ q.sr = rev'
      BY RefreshedFields DEF PC
    <2>2. co' = [co EXCEPT ![c] = r]
      BY <1>4 DEF ReplyOverflow
    <2> HIDE DEF q
    <2>3. /\ r \in Coordinator /\ r.pc = "compacted" /\ r.k = co[c].k
          /\ r.sr = rev'
      BY <2>1 DEF Coordinator
    <2> HIDE DEF r
    <2>4. NothingInFlight'
      BY <1>1, <1>4, AppendIsEmpty DEF ReplyOverflow
    <2>5. /\ co[c].k \in Nat /\ co[c].k # 0 /\ co[c].k <= epoch
          /\ epoch \in Nat /\ epoch' \in Nat /\ epoch <= epoch' /\ rev' \in Nat
      BY <1>1 DEF StoreInv, RuntimeTypeOK, Coordinator, LedgerMoves, IndInv,
                  TypeOK
    <2>6. MovesTo(c, r)
      BY <2>2, <2>3, <2>4, <2>5 DEF MovesTo
    <2> QED BY <2>6, MovedInv
  <1> QED BY <1>2, <1>3, <1>4
          DEF Compact, CannotCall, Reply, FailCut, Conclusion, ReplyCancelled,
              ReplyFailed, ReplyInput, ReplyCut, ReplyText, ReplyTools

(* A commit after which the coordinator remembers, or forgets, its effect. *)
LEMMA NamedMoves ==
    ASSUME StoreInv, LedgerMoves, NEW c \in Coords,
           NEW p \in {"prepared", "batch", "verified"},
           co[c].pc \notin {"idle", "loaded"},
           NEW e \in Effects \cup {None},
           co' = [co EXCEPT ![c] = [Refreshed(c, p) EXCEPT !.e = e]],
           p = "prepared" => e \in Effects,
           p \in {"batch", "verified"} => NothingInFlight'
    PROVE  CoordInv'
  <1> DEFINE q == Refreshed(c, p)
             r == [q EXCEPT !.e = e]
  <1>1. q \in Coordinator /\ q.pc = p /\ q.k = co[c].k /\ q.sr = rev'
    BY RefreshedFields DEF PC
  <1> HIDE DEF q
  <1>2. /\ r \in Coordinator /\ r.pc = p /\ r.k = co[c].k /\ r.sr = rev'
        /\ r.e = e
    BY <1>1 DEF Coordinator
  <1>3. co' = [co EXCEPT ![c] = r]
    BY DEF q
  <1> HIDE DEF r
  <1>4. /\ co[c].k \in Nat /\ co[c].k # 0 /\ co[c].k <= epoch
        /\ epoch \in Nat /\ epoch' \in Nat /\ epoch <= epoch' /\ rev' \in Nat
    BY DEF StoreInv, RuntimeTypeOK, Coordinator, LedgerMoves, IndInv, TypeOK
  <1>5. /\ p \in Between => NothingInFlight'
        /\ p \in {"prepared", "started", "executing"} => e \in Effects
        /\ p \notin {"idle", "loaded"}
    BY DEF Between
  <1>6. r.k <= epoch' /\ r.k # 0 /\ r.sr <= rev'
    BY <1>2, <1>4
  <1>7. MovesTo(c, r)
    BY <1>2, <1>3, <1>5, <1>6 DEF MovesTo
  <1> QED BY <1>7, MovedInv

(* The steps around one effect. *)
LEMMA EffectCoord ==
    ASSUME StoreInv, LedgerMoves, NEW c \in Coords,
           \/ Prepare(c) \/ StartPrepared(c) \/ Execute(c) \/ Refuse(c)
           \/ Observe(c) \/ ObserveUnknown(c)
    PROVE  CoordInv'
  <1>1. co[c].pc \notin {"idle", "loaded"}
    BY DEF Prepare, StartPrepared, Execute, Refuse, Observe, ObserveUnknown, At
  <1>2. CASE Finish(c)
    BY <1>1, <1>2, FinishMoves
  <1>3. CASE Prepare(c) /\ ~Finish(c)
    <2>1. PICK e \in Effects :
              co' = [co EXCEPT ![c] = [Refreshed(c, "prepared") EXCEPT !.e = e]]
      BY <1>3 DEF Prepare
    <2> QED BY <1>1, <2>1, NamedMoves
  <1>4. CASE StartPrepared(c)
    BY <1>1, <1>4, ThenMoves
       DEF StartPrepared, At, PC, Between, StoreInv, EffectIsNamed
  <1>5. CASE Execute(c)
    BY <1>1, <1>5, GotoMoves
       DEF Execute, At, PC, Between, StoreInv, EffectIsNamed
  <1>6. CASE Observe(c)
    <2>1. co[c].e \in Effects
      BY <1>6 DEF Observe, At, StoreInv, EffectIsNamed
    <2>2. NothingInFlight'
      BY <1>6, <2>1, ObserveIsEmpty DEF Observe, StoreInv
    <2>3. PICK p \in {"batch", "verified"} :
              co' = [co EXCEPT ![c] = [Refreshed(c, p) EXCEPT !.e = None]]
      BY <1>6 DEF Observe
    <2> QED BY <1>1, <2>2, <2>3, NamedMoves
  <1> QED BY <1>2, <1>3, <1>4, <1>5, <1>6 DEF Refuse, ObserveUnknown

(* The snapshot an operation starts from. *)
LEMMA LoadCoord ==
    ASSUME StoreInv, LedgerMoves, NEW c \in Coords, NEW op \in Requests,
           Load(c, op)
    PROVE  CoordInv'
  <1>1. PICK e \in Subject(op) :
            co' = [co EXCEPT ![c] = [Idle EXCEPT
                     !.pc = "loaded", !.op = op, !.sr = rev,
                     !.tr = LatestRevision, !.turn = latest, !.e = e]]
    BY DEF Load
  <1>2. Accepts(op) /\ op \in Operations /\ UNCHANGED vars
    BY RuntimeAssumption DEF Load
  <1>3. e \in Effects \cup {None}
    <2>1. CASE op \in {"allow", "deny"}
      <3>1. life = "waiting_permission" /\ e = turns[active.turn].permission
        BY <1>1, <1>2, <2>1 DEF Accepts, Subject
      <3> QED BY <3>1 DEF StoreInv, IndInv, EffectInv, PermissionCanBeResolved,
                          OfTurn
    <2>2. CASE op = "reconcile"
      BY <1>1, <2>2 DEF Subject, OfTurn
    <2>3. CASE op \notin {"allow", "deny", "reconcile"}
      BY <1>1, <2>3 DEF Subject
    <2> QED BY <2>1, <2>2, <2>3
  <1>4. /\ rev \in Nat /\ LatestRevision \in Nat /\ latest \in 0 .. MaxTurns
        /\ epoch' \in Nat /\ rev' = rev
    BY <1>2, BoundsAssumption
       DEF StoreInv, IndInv, TypeOK, LatestRevision, TurnRecord, Turns,
           LedgerMoves, vars, ledger
  <1> DEFINE r == [Idle EXCEPT !.pc = "loaded", !.op = op, !.sr = rev,
                               !.tr = LatestRevision, !.turn = latest, !.e = e]
  <1> HIDE DEF LatestRevision
  <1>5. co' = [co EXCEPT ![c] = r]
    BY <1>1
  <1>6. /\ r \in Coordinator /\ r.k = 0 /\ r.pc = "loaded" /\ r.sr = rev
    <2>1. Idle \in Coordinator /\ Idle.k = 0
      BY BoundsAssumption DEF Idle, Coordinator, PC
    <2> QED BY <1>2, <1>3, <1>4, <2>1 DEF Coordinator, PC
  <1> HIDE DEF r
  <1>7. MovesTo(c, r)
    BY <1>4, <1>5, <1>6 DEF MovesTo, Between
  <1> QED BY <1>7, MovedInv

(* The token of an acquisition. *)
LEMMA AcquireCoord ==
    ASSUME StoreInv, LedgerMoves, NEW c \in Coords, AcquireLease(c)
    PROVE  CoordInv'
  <1> DEFINE r == [co[c] EXCEPT !.pc = "leased", !.k = epoch']
  <1>1. epoch' \in Nat /\ epoch' # 0 /\ rev' = rev
    BY DEF AcquireLease, Acquire, ledger, StoreInv, IndInv, TypeOK
  <1>2. co[c] \in Coordinator /\ co[c].sr <= rev
    BY DEF StoreInv, RuntimeTypeOK, HandsAreEmpty
  <1>3. co' = [co EXCEPT ![c] = r]
    BY DEF AcquireLease, StoreInv, RuntimeTypeOK
  <1>4. /\ r \in Coordinator /\ r.k = epoch' /\ r.pc = "leased"
        /\ r.sr = co[c].sr
    BY <1>1, <1>2 DEF Coordinator, PC
  <1> HIDE DEF r
  <1>5. MovesTo(c, r)
    BY <1>1, <1>2, <1>3, <1>4 DEF MovesTo, Between
  <1> QED BY <1>5, MovedInv

(* Every step of the system keeps what is said of the coordinators. *)
LEMMA RuntimeCoord ==
    ASSUME StoreInv, LedgerMoves, [RuntimeNext]_allVars
    PROVE  CoordInv'
  <1>1. CASE co' = co
    BY <1>1, StayedInv
  <1>2. ASSUME NEW c \in Coords, Step(c) PROVE CoordInv'
    <2>1. CASE Submit(c)
      BY <2>1, SubmitCoord
    <2>2. CASE Compact(c) \/ CannotCall(c) \/ Reply(c) \/ FailCut(c)
               \/ Conclusion(c)
      BY <2>2, ReplyCoord
    <2>3. CASE Prepare(c) \/ StartPrepared(c) \/ Execute(c) \/ Refuse(c)
               \/ Observe(c) \/ ObserveUnknown(c)
      BY <2>3, EffectCoord
    <2>4. CASE AcquireLease(c)
      BY <2>4, AcquireCoord
    <2>5. CASE Busy(c) \/ SignalCancel(c) \/ Leave(c)
      BY <2>5, IdleMoves DEF Busy, SignalCancel, Leave
    <2>6. CASE CallProvider(c) \/ BatchDone(c)
      BY <2>6, GotoMoves DEF CallProvider, BatchDone, At, PC, Between
    <2>7. CASE LeaseLost(c) \/ Rejected(c)
      BY <2>7, FinishMoves DEF LeaseLost, Rejected, Registered
    <2> QED BY <1>2, <2>1, <2>2, <2>3, <2>4, <2>5, <2>6, <2>7 DEF Step
  <1>3. ASSUME NEW c \in Coords, NEW op \in Requests, Load(c, op)
        PROVE  CoordInv'
    BY <1>3, LoadCoord
  <1>4. ASSUME NEW c \in Coords, Abandon(c) PROVE CoordInv'
    BY <1>4, FinishMoves DEF Abandon
  <1>5. ASSUME NEW c \in Coords, Crash(c) PROVE CoordInv'
    BY <1>5, IdleMoves DEF Crash
  <1>6. CASE (\E e \in Effects : ExecutorEnds(e)) \/ Sweep \/ Timeout \/ Fork
             \/ UNCHANGED allVars
    BY <1>1, <1>6 DEF ExecutorEnds, Sweep, Timeout, Fork, local, allVars
  <1> QED BY <1>2, <1>3, <1>4, <1>5, <1>6 DEF RuntimeNext

(* Only an execution and its end touch the world. *)
LEMMA WorldMoves ==
    ASSUME cancelled \subseteq Coords, [RuntimeNext]_allVars
    PROVE  /\ cancelled' \subseteq Coords
           /\ \/ UNCHANGED <<ran, working>>
              \/ \E c \in Coords : Execute(c)
              \/ \E e \in Effects : ExecutorEnds(e)
  <1> DEFINE Quiet(c) == cancelled' \subseteq Coords /\ UNCHANGED <<ran, working>>
  <1>1. ASSUME NEW c \in Coords, Finish(c) PROVE Quiet(c)
    BY <1>1 DEF Finish
  <1>2. ASSUME NEW c \in Coords, NEW p, Then(c, p) PROVE Quiet(c)
    BY <1>2 DEF Then
  <1>3. ASSUME NEW c \in Coords, Submit(c) PROVE Quiet(c)
    BY <1>1, <1>2, <1>3
       DEF Submit, SubmitStart, SubmitFollowUp, SubmitSwitch, SubmitPermission,
           SubmitInput, SubmitCancel, SubmitReconcile, SubmitAppend
  <1>4. ASSUME NEW c \in Coords,
               \/ Compact(c) \/ CannotCall(c) \/ Reply(c) \/ FailCut(c)
               \/ Conclusion(c)
        PROVE  Quiet(c)
    BY <1>1, <1>2, <1>4
       DEF Compact, CannotCall, Reply, FailCut, Conclusion, ReplyCancelled,
           ReplyOverflow, ReplyFailed, ReplyInput, ReplyCut, ReplyText,
           ReplyTools
  <1>5. ASSUME NEW c \in Coords,
               \/ Prepare(c) \/ StartPrepared(c) \/ Refuse(c) \/ Observe(c)
               \/ ObserveUnknown(c) \/ LeaseLost(c) \/ Rejected(c) \/ Abandon(c)
        PROVE  Quiet(c)
    BY <1>1, <1>2, <1>5
       DEF Prepare, StartPrepared, Refuse, Observe, ObserveUnknown, LeaseLost,
           Rejected, Abandon
  <1>6. ASSUME NEW c \in Coords,
               \/ AcquireLease(c) \/ Busy(c) \/ SignalCancel(c) \/ Leave(c)
               \/ CallProvider(c) \/ BatchDone(c) \/ Crash(c)
               \/ \E op \in Requests : Load(c, op)
        PROVE  Quiet(c)
    BY <1>6 DEF AcquireLease, Busy, SignalCancel, Leave, CallProvider,
                BatchDone, Crash, Load
  <1>7. CASE \/ \E c \in Coords : Execute(c)
             \/ \E e \in Effects : ExecutorEnds(e)
    BY <1>7 DEF Execute, ExecutorEnds
  <1>8. CASE Sweep \/ Timeout \/ Fork \/ UNCHANGED allVars
    BY <1>8 DEF Sweep, Timeout, Fork, allVars, local
  <1> QED BY <1>3, <1>4, <1>5, <1>6, <1>7, <1>8 DEF RuntimeNext, Step

(* Types of the world. *)
LEMMA WorldTypes ==
    ASSUME StoreInv, [RuntimeNext]_allVars
    PROVE  /\ cancelled' \subseteq Coords
           /\ ran' \in [Effects -> Nat]
           /\ working' \subseteq Effects
  <1>1. /\ cancelled \subseteq Coords /\ ran \in [Effects -> Nat]
        /\ working \subseteq Effects
    BY DEF StoreInv, RuntimeTypeOK
  <1>2. ASSUME NEW c \in Coords, Execute(c)
        PROVE  ran' \in [Effects -> Nat] /\ working' \subseteq Effects
    <2>1. co[c].e \in Effects
      BY <1>2 DEF Execute, At, StoreInv, EffectIsNamed
    <2> QED BY <1>1, <1>2, <2>1 DEF Execute
  <1> QED BY <1>1, <1>2, WorldMoves DEF ExecutorEnds

LEMMA StoreInvInit == RuntimeInit => StoreInv
  <1> SUFFICES ASSUME RuntimeInit PROVE StoreInv
    OBVIOUS
  <1>1. IndInv /\ TokensIssued
    BY InitInv, TokensInit DEF RuntimeInit
  <1>2. Idle \in Coordinator /\ Idle.k = 0 /\ Idle.pc = "idle" /\ Idle.sr = 0
    BY BoundsAssumption DEF Idle, Coordinator, PC
  <1>3. \A c \in Coords : co[c] = Idle
    BY DEF RuntimeInit
  <1>4. RuntimeTypeOK
    BY <1>1, <1>2, <1>3 DEF RuntimeInit, RuntimeTypeOK, IndInv, TypeOK
  <1>5. HandsAreEmpty /\ EffectIsNamed
    BY <1>1, <1>2, <1>3 DEF HandsAreEmpty, EffectIsNamed, Between, IndInv, TypeOK
  <1> QED BY <1>1, <1>4, <1>5 DEF StoreInv

LEMMA StoreInvNext ==
    StoreInv /\ [RuntimeNext]_allVars => StoreInv' /\ [Next]_vars
  <1> SUFFICES ASSUME StoreInv, [RuntimeNext]_allVars
               PROVE  StoreInv' /\ [Next]_vars
    OBVIOUS
  <1>1. [Next]_vars
    BY RuntimeIsNext
  <1>2. LedgerMoves
    BY <1>1, NextMoves DEF StoreInv
  <1>3. CoordInv'
    BY <1>2, RuntimeCoord
  <1>4. RuntimeTypeOK'
    BY <1>2, <1>3, WorldTypes DEF LedgerMoves, IndInv, CoordInv, RuntimeTypeOK
  <1> QED BY <1>1, <1>2, <1>3, <1>4 DEF LedgerMoves, CoordInv, StoreInv

LEMMA StoreInvariant == RuntimeSpec => []StoreInv
  BY StoreInvInit, StoreInvNext, PTL DEF RuntimeSpec

(* The coordinators are clients as the ledger assumes them: whatever they do
   to each other, whoever crashes, each of their steps is a transaction of
   SessionStore or none, and nobody prepares, asks or ends a turn with an
   effect in hand (execute_tool_batch). *)
THEOREM RuntimeRefines == RuntimeSpec => ImplementsStore
  <1>1. RuntimeInit => Init
    BY DEF RuntimeInit
  <1> QED BY <1>1, StoreInvNext, StoreInvariant, PTL
          DEF RuntimeSpec, ImplementsStore, Spec

-----------------------------------------------------------------------------
(* The world *)

Happened == {"running", "done", "unknown", "acknowledged"}

(* What the steps of the abstract ledger do to doubt: it comes up where there
   was none, ends in "done", and what happened stays so. *)
LEMMA DoubtMoves ==
    ASSUME IndInv, OneDoubt, [Next]_vars
    PROVE  /\ OneDoubt'
           /\ \A e \in Effects :
                 /\ EffectState(e) \in Happened => EffectState(e)' \in Happened
                 /\ e \in Doubtful /\ e \notin Doubtful' =>
                       /\ EffectState(e) = "running"
                       /\ EffectState(e)' = "done"
  <1> DEFINE st == [e \in Effects |-> EffectState(e)]
             D == {e \in Effects : st[e] \in {"running", "unknown", "acknowledged"}}
  <1>1. [Ledger!Next]_st
    BY LedgerStep
  <1>2. D = Doubtful /\ D' = Doubtful'
    BY DEF Doubtful
  <1>3. \A e \in Effects : st[e] = EffectState(e) /\ st'[e] = EffectState(e)'
    OBVIOUS
  <1>4. st' \in [Effects -> {EffectState(e)' : e \in Effects}]
        /\ DOMAIN st = Effects
    OBVIOUS
  <1> HIDE DEF st
  <1>5. \A e, f \in D : e = f
    BY <1>2 DEF OneDoubt
  <1>6. CASE st' = st
    BY <1>2, <1>3, <1>5, <1>6 DEF OneDoubt
  <1>7. CASE Ledger!Next
    <2>1. PICK e \in Effects, s \in Ledger!State :
              /\ Ledger!Become(e, s)
              /\ s = "running" => Ledger!Quiet
              /\ s = "unknown" => EffectState(e) = "running"
              /\ s = "acknowledged" => EffectState(e) = "unknown"
              /\ EffectState(e) \in Happened => s \in Happened
              /\ EffectState(e) \in {"running", "unknown", "acknowledged"} =>
                    \/ s \in {"unknown", "acknowledged"}
                    \/ EffectState(e) = "running" /\ s = "done"
      <3>1. PICK e \in Effects :
                \/ Ledger!Propose(e) \/ Ledger!Grant(e) \/ Ledger!Void(e)
                \/ Ledger!Begin(e) \/ Ledger!End(e) \/ Ledger!Lose(e)
                \/ Ledger!Acknowledge(e)
        BY <1>7 DEF Ledger!Next
      <3>2. CASE Ledger!Propose(e) \/ Ledger!Grant(e) \/ Ledger!Void(e)
        BY <3>2 DEF Ledger!Propose, Ledger!Grant, Ledger!Void, Ledger!State,
                    Happened
      <3>3. CASE Ledger!Begin(e)
        BY <3>3 DEF Ledger!Begin, Ledger!State, Happened
      <3>4. CASE Ledger!End(e) \/ Ledger!Lose(e) \/ Ledger!Acknowledge(e)
        BY <3>4 DEF Ledger!End, Ledger!Lose, Ledger!Acknowledge, Ledger!State,
                    Happened
      <3> QED BY <3>1, <3>2, <3>3, <3>4
    <2>2. st' = [st EXCEPT ![e] = s]
      BY <2>1 DEF Ledger!Become, st
    <2>3. st'[e] = s /\ \A f \in Effects \ {e} : st'[f] = st[f]
      BY <1>4, <2>2
    <2>4. s = "running" => D = {}
      BY <2>1, <1>3 DEF Ledger!Quiet
    <2>5. \A f, g \in D' : f = g
      BY <1>3, <1>5, <2>1, <2>3, <2>4 DEF Ledger!State
    <2>6. \A f \in Effects :
             /\ EffectState(f) \in Happened => EffectState(f)' \in Happened
             /\ f \in D /\ f \notin D' =>
                   EffectState(f) = "running" /\ EffectState(f)' = "done"
      BY <1>3, <2>1, <2>3
    <2> QED BY <1>2, <2>5, <2>6 DEF OneDoubt
  <1> QED BY <1>1, <1>6, <1>7

(* No effect is closed as observed by the step. *)
NoneObserved ==
    \A e \in Effects :
        effects'[e].outcome = "observed" => effects[e].outcome = "observed"

(* The commits on effects, ObserveEffect apart. *)
LEMMA CommitsObserveNone ==
    ASSUME IndInv, NEW k, NEW sr, NEW tr, NEW e,
           \/ ResolveAllow(k, sr, tr, e) \/ ResolveDeny(k, sr, tr, e)
           \/ ReconcileUnknownEffect(k, sr, tr, e)
           \/ PrepareAllowed(k, sr, tr, e) \/ PrepareAsk(k, sr, tr, e)
           \/ StartEffect(k, sr, tr, e) \/ UnknownEffect(k, sr, tr, e)
           \/ CancelWaiting(k, sr, tr) \/ InterruptRunning(k, sr, tr)
    PROVE  NoneObserved
  <1>1. /\ effects \in [Effects -> EffectRecord]
        /\ \A f \in Effects, s \in EffectStatus, o \in Outcome :
              Closed(f, s, o).outcome = o
    BY ClosedFields DEF IndInv, TypeOK
  <1>2. CASE ResolveAllow(k, sr, tr, e) \/ StartEffect(k, sr, tr, e)
    <2>1. ASSUME NEW f \in Effects
          PROVE  effects'[f].outcome = effects[f].outcome
      <3>1. CASE f # e
        BY <1>1, <1>2, <3>1 DEF ResolveAllow, StartEffect
      <3>2. CASE f = e
        BY <1>1, <1>2, <3>2 DEF ResolveAllow, StartEffect, EffectRecord
      <3> QED BY <3>1, <3>2
    <2> QED BY <2>1 DEF NoneObserved
  <1>3. CASE PrepareAllowed(k, sr, tr, e) \/ PrepareAsk(k, sr, tr, e)
    <2>1. \A t, p, d : Prepared(t, p, d).outcome = "none"
      BY DEF Prepared
    <2>2. PICK t, p, d : effects' = [effects EXCEPT ![e] = Prepared(t, p, d)]
      BY <1>3 DEF PrepareAllowed, PrepareAsk
    <2> QED BY <1>1, <2>1, <2>2 DEF NoneObserved
  <1>4. CASE ResolveDeny(k, sr, tr, e) \/ ReconcileUnknownEffect(k, sr, tr, e)
             \/ UnknownEffect(k, sr, tr, e)
    <2>1. \/ effects' = effects
          \/ \E s \in EffectStatus, o \in Outcome \ {"observed"} :
                effects' = [effects EXCEPT ![e] = Closed(e, s, o)]
      BY <1>1, <1>4
         DEF ResolveDeny, ReconcileUnknownEffect, UnknownEffect, EffectStatus,
             Outcome
    <2> QED BY <1>1, <2>1 DEF NoneObserved
  <1>5. CASE CancelWaiting(k, sr, tr)
    <2>1. \A f \in Effects :
              effects'[f] \in {effects[f],
                               Closed(f, "observed_failed", "never_started")}
      BY <1>5 DEF CancelWaiting
    <2> QED BY <1>1, <2>1 DEF NoneObserved, EffectStatus, Outcome
  <1>6. CASE InterruptRunning(k, sr, tr)
    <2>1. \A f \in Effects :
              effects'[f] \in {effects[f], Closed(f, "unknown", "uncertain")}
      BY <1>1, <1>6 DEF InterruptRunning
    <2> QED BY <1>1, <2>1 DEF NoneObserved, EffectStatus, Outcome
  <1> QED BY <1>2, <1>3, <1>4, <1>5, <1>6

LEMMA RecoveryObservesNone ==
    ASSUME IndInv, NEW k, RecoverLinkedSessionTurn(k)
    PROVE  NoneObserved
  <1>1. \A f \in Effects, s \in EffectStatus, o \in Outcome :
            Closed(f, s, o).outcome = o
    BY ClosedFields DEF IndInv
  <1>2. \A f \in Effects :
            effects'[f] \in {effects[f], Closed(f, "unknown", "uncertain"),
                             Closed(f, "observed_failed", "never_started")}
    BY DEF RecoverLinkedSessionTurn
  <1> QED BY <1>1, <1>2 DEF NoneObserved, EffectStatus, Outcome

(* In the whole system only the coordinator that ran the effect, and awaited
   its end, closes it as observed. *)
LEMMA OnlyObserve ==
    ASSUME StoreInv, [RuntimeNext]_allVars
    PROVE  NoneObserved \/ \E c \in Coords : Observe(c)
  <1>0. IndInv
    BY DEF StoreInv
  <1>1. effects' = effects => NoneObserved
    BY DEF NoneObserved
  <1>2. ASSUME NEW c \in Coords, Submit(c) PROVE NoneObserved
    <2>1. CASE SubmitPermission(c) \/ SubmitReconcile(c) \/ SubmitCancel(c)
      BY <1>0, <2>1, CommitsObserveNone
         DEF SubmitPermission, SubmitReconcile, SubmitCancel
    <2>2. CASE SubmitStart(c) \/ SubmitFollowUp(c) \/ SubmitSwitch(c)
               \/ SubmitInput(c) \/ SubmitAppend(c)
      BY <1>1, <2>2
         DEF SubmitStart, SubmitFollowUp, SubmitSwitch, SubmitInput,
             SubmitAppend, CreateStartedSession, CreateStartedFollowUp,
             SwitchSessionBinding, CommitProvideInput, AppendDetached, BeginTurn
    <2> QED BY <1>2, <2>1, <2>2 DEF Submit
  <1>3. ASSUME NEW c \in Coords,
               \/ Compact(c) \/ CannotCall(c) \/ Reply(c) \/ FailCut(c)
               \/ Conclusion(c)
        PROVE  NoneObserved
    <2>1. CASE ReplyCancelled(c)
      BY <1>0, <2>1, CommitsObserveNone DEF ReplyCancelled
    <2>2. CASE ~ReplyCancelled(c)
      BY <1>1, <1>3, <2>2
         DEF Compact, CannotCall, Reply, FailCut, Conclusion, ReplyOverflow,
             ReplyFailed, ReplyInput, ReplyCut, ReplyText, ReplyTools,
             AppendTranscript, CommitFail, CommitRequestInput, CommitComplete
    <2> QED BY <2>1, <2>2
  <1>4. ASSUME NEW c \in Coords,
               Prepare(c) \/ StartPrepared(c) \/ Refuse(c) \/ ObserveUnknown(c)
        PROVE  NoneObserved
    BY <1>0, <1>4, CommitsObserveNone
       DEF Prepare, StartPrepared, Refuse, ObserveUnknown
  <1>5. ASSUME NEW c \in Coords, LeaseLost(c) \/ Leave(c)
        PROVE  NoneObserved
    <2>1. CASE UNCHANGED vars
      BY <1>1, <2>1 DEF vars, ledger
    <2>2. CASE ~UNCHANGED vars
      BY <1>0, <1>1, <1>5, <2>2, RecoveryObservesNone
         DEF LeaseLost, Leave, RecoverAfterLeaseLoss, ReleaseLease,
             ReleaseQuiesced, ReleaseAbandoned, ReleaseIdle, ledger
    <2> QED BY <2>1, <2>2
  <1>6. ASSUME NEW c \in Coords,
               \/ AcquireLease(c) \/ Busy(c) \/ SignalCancel(c) \/ CallProvider(c)
               \/ BatchDone(c) \/ Execute(c) \/ Rejected(c) \/ Abandon(c)
               \/ Crash(c) \/ \E op \in Requests : Load(c, op)
        PROVE  NoneObserved
    BY <1>1, <1>6
       DEF AcquireLease, Acquire, Busy, SignalCancel, CallProvider, BatchDone,
           Execute, Rejected, Abandon, Crash, Load, vars, ledger
  <1>7. CASE Sweep
    BY <1>0, <1>7, RecoveryObservesNone DEF Sweep, RecoverAt
  <1>8. CASE (\E e \in Effects : ExecutorEnds(e)) \/ Timeout \/ Fork
             \/ UNCHANGED allVars
    BY <1>1, <1>8 DEF ExecutorEnds, Timeout, Fork, Expire, CreateSessionFork,
                      allVars, vars, ledger
  <1> QED BY <1>2, <1>3, <1>4, <1>5, <1>6, <1>7, <1>8 DEF RuntimeNext, Step

(* A step of c writes the local state of c. *)
LEMMA OneMoves ==
    ASSUME StoreInv, NEW c \in Coords,
           \/ Step(c) \/ (\E op \in Requests : Load(c, op)) \/ Abandon(c)
           \/ Crash(c)
    PROVE  \E r : co' = [co EXCEPT ![c] = r]
  <1>0. co \in [Coords -> Coordinator]
    BY DEF StoreInv, RuntimeTypeOK
  <1>1. (\E p : Then(c, p)) \/ Finish(c) => \E r : co' = [co EXCEPT ![c] = r]
    BY DEF Then, Finish
  <1>2. CASE Submit(c)
    BY <1>1, <1>2
       DEF Submit, SubmitStart, SubmitFollowUp, SubmitSwitch, SubmitPermission,
           SubmitInput, SubmitCancel, SubmitReconcile, SubmitAppend
  <1>3. CASE Compact(c) \/ CannotCall(c) \/ Reply(c) \/ FailCut(c)
             \/ Conclusion(c)
    BY <1>1, <1>3
       DEF Compact, CannotCall, Reply, FailCut, Conclusion, ReplyCancelled,
           ReplyOverflow, ReplyFailed, ReplyInput, ReplyCut, ReplyText,
           ReplyTools
  <1>4. CASE Prepare(c) \/ StartPrepared(c) \/ Refuse(c) \/ Observe(c)
             \/ ObserveUnknown(c)
    BY <1>1, <1>4 DEF Prepare, StartPrepared, Refuse, Observe, ObserveUnknown
  <1>5. CASE CallProvider(c) \/ BatchDone(c) \/ Execute(c) \/ AcquireLease(c)
    <2>1. \/ \E p : co' = [co EXCEPT ![c] = [co[c] EXCEPT !.pc = p]]
          \/ co' = [co EXCEPT ![c] = [co[c] EXCEPT !.pc = "leased", !.k = epoch']]
      BY <1>0, <1>5 DEF CallProvider, BatchDone, Execute, AcquireLease, Goto
    <2> QED BY <2>1
  <1>6. CASE Busy(c) \/ SignalCancel(c) \/ Leave(c) \/ Crash(c)
             \/ LeaseLost(c) \/ Rejected(c) \/ Abandon(c)
             \/ \E op \in Requests : Load(c, op)
    BY <1>1, <1>6 DEF Busy, SignalCancel, Leave, Crash, LeaseLost, Rejected,
                      Abandon, Load
  <1> QED BY <1>2, <1>3, <1>4, <1>5, <1>6 DEF Step

(* Nobody but c changes place when c does; nobody does in the other steps. *)
LEMMA PlaceMoves ==
    ASSUME StoreInv, LedgerMoves, [RuntimeNext]_allVars, NEW d \in Coords
    PROVE  /\ co'[d].pc = "started" =>
                 \/ At(d, "started") /\ co'[d].e = co[d].e
                 \/ StartPrepared(d) /\ co'[d].e = co[d].e
           /\ co'[d].pc = "executing" =>
                 \/ At(d, "executing") /\ co'[d].e = co[d].e
                 \/ Execute(d) /\ co'[d].e = co[d].e
  <1> DEFINE Elsewhere == co'[d].pc \notin {"started", "executing"}
  <1>0. co \in [Coords -> Coordinator]
    BY DEF StoreInv, RuntimeTypeOK
  <1>1. ASSUME NEW c \in Coords, Finish(c), c = d PROVE Elsewhere
    <2>1. co'[d] = [Idle EXCEPT !.pc = "leaving", !.k = co[d].k]
      BY <1>0, <1>1 DEF Finish
    <2>2. co[d].k \in Nat
      BY <1>0 DEF Coordinator
    <2> QED BY <2>1, <2>2, LeavingFields
  <1>2. ASSUME NEW c \in Coords, c = d, NEW p, Then(c, p)
        PROVE  co'[d].pc = p /\ co'[d].e = co[d].e
    <2>1. co'[d] = Refreshed(d, p) /\ co[d] \in Coordinator
      BY <1>0, <1>2 DEF Then
    <2> QED BY <2>1 DEF Refreshed, Coordinator
  <1>3. ASSUME NEW c \in Coords, c = d, co' = [co EXCEPT ![c] = Idle]
        PROVE  Elsewhere
    BY <1>0, <1>3 DEF Idle
  <1>4. ASSUME NEW c \in Coords, c = d, Submit(c) PROVE Elsewhere
    BY <1>1, <1>2, <1>4
       DEF Submit, SubmitStart, SubmitFollowUp, SubmitSwitch, SubmitPermission,
           SubmitInput, SubmitCancel, SubmitReconcile, SubmitAppend
  <1>5. ASSUME NEW c \in Coords, c = d,
               \/ Compact(c) \/ CannotCall(c) \/ Reply(c) \/ FailCut(c)
               \/ Conclusion(c)
        PROVE  Elsewhere
    <2>1. CASE ReplyOverflow(c)
      <3> DEFINE q == Refreshed(c, "compacted")
      <3>1. q \in Coordinator /\ q.pc = "compacted"
        BY RefreshedFields DEF PC
      <3> HIDE DEF q
      <3>2. [q EXCEPT !.retried = TRUE].pc = "compacted"
        BY <3>1 DEF Coordinator
      <3>3. co'[d] = [q EXCEPT !.retried = TRUE]
        BY <1>0, <1>5, <2>1 DEF ReplyOverflow, q
      <3> QED BY <3>2, <3>3
    <2>2. CASE ~ReplyOverflow(c)
      BY <1>1, <1>2, <1>5, <2>2
         DEF Compact, CannotCall, Reply, FailCut, Conclusion, ReplyCancelled,
             ReplyFailed, ReplyInput, ReplyCut, ReplyText, ReplyTools
    <2> QED BY <2>1, <2>2
  <1>6. ASSUME NEW c \in Coords, c = d, NEW p \in PC \ {"started", "executing"},
               NEW e, co' = [co EXCEPT ![c] = [Refreshed(c, p) EXCEPT !.e = e]]
        PROVE  Elsewhere
    <2> DEFINE q == Refreshed(c, p)
    <2>1. q \in Coordinator /\ q.pc = p
      BY RefreshedFields
    <2>2. co'[d] = [q EXCEPT !.e = e]
      BY <1>0, <1>6
    <2> HIDE DEF q
    <2> QED BY <2>1, <2>2 DEF Coordinator
  <1>7. ASSUME NEW c \in Coords, c = d,
               Prepare(c) \/ Observe(c) \/ Refuse(c) \/ ObserveUnknown(c)
        PROVE  Elsewhere
    <2>1. CASE Finish(c)
      BY <1>1, <1>7, <2>1
    <2>2. CASE ~Finish(c)
      BY <1>6, <1>7, <2>2 DEF Prepare, Observe, Refuse, ObserveUnknown, PC
    <2> QED BY <2>1, <2>2
  <1>8. ASSUME NEW c \in Coords, c = d, StartPrepared(c)
        PROVE  co'[d].pc = "started" /\ co'[d].e = co[d].e
    BY <1>2, <1>8 DEF StartPrepared
  <1>9. ASSUME NEW c \in Coords, c = d,
               CallProvider(c) \/ BatchDone(c) \/ AcquireLease(c)
        PROVE  Elsewhere
    BY <1>0, <1>9 DEF CallProvider, BatchDone, AcquireLease, Goto, Coordinator
  <1>10. ASSUME NEW c \in Coords, c = d, Execute(c)
         PROVE  co'[d].pc = "executing" /\ co'[d].e = co[d].e
    BY <1>0, <1>10 DEF Execute, Goto, Coordinator
  <1>11. ASSUME NEW c \in Coords, c = d,
                \/ Busy(c) \/ SignalCancel(c) \/ Leave(c) \/ Crash(c)
                \/ LeaseLost(c) \/ Rejected(c) \/ Abandon(c)
         PROVE  Elsewhere
    BY <1>1, <1>3, <1>11
       DEF Busy, SignalCancel, Leave, Crash, LeaseLost, Rejected, Abandon
  <1>12. ASSUME NEW c \in Coords, c = d, NEW op \in Requests, Load(c, op)
         PROVE  Elsewhere
    <2>1. CoordInv' /\ co'[d].k = 0
      <3>1. PICK e : co'[d] = [Idle EXCEPT
                        !.pc = "loaded", !.op = op, !.sr = rev,
                        !.tr = LatestRevision, !.turn = latest, !.e = e]
        BY <1>0, <1>12 DEF Load
      <3>2. Idle.k = 0 /\ DOMAIN Idle = {"pc", "op", "k", "sr", "tr", "turn",
                                         "e", "retried"}
        BY DEF Idle
      <3>3. co'[d].k = Idle.k
        BY <3>1, <3>2
      <3> QED BY <1>12, <3>2, <3>3, LoadCoord
    <2> QED BY <2>1 DEF CoordInv
  <1>13. ASSUME NEW c \in Coords, c # d,
                \/ Step(c) \/ (\E op \in Requests : Load(c, op)) \/ Abandon(c)
                \/ Crash(c)
         PROVE  co'[d] = co[d]
    <2>1. \E r : co' = [co EXCEPT ![c] = r]
      BY <1>13, OneMoves
    <2> QED BY <1>0, <1>13, <2>1
  <1>14. CASE (\E e \in Effects : ExecutorEnds(e)) \/ Sweep \/ Timeout \/ Fork
              \/ UNCHANGED allVars
    BY <1>14 DEF ExecutorEnds, Sweep, Timeout, Fork, allVars, local, At
  <1> QED
    BY <1>4, <1>5, <1>7, <1>8, <1>9, <1>10, <1>11, <1>12, <1>13, <1>14
       DEF RuntimeNext, Step, At

(* StartEffect finds nothing in doubt and leaves its effect running. *)
LEMMA StartFacts ==
    ASSUME IndInv, NEW k \in Nat \ {0}, NEW sr, NEW tr, NEW e \in Effects,
           StartEffect(k, sr, tr, e)
    PROVE  /\ Doubtful = {}
           /\ EffectState(e) \notin Happened
           /\ EffectState(e)' = "running"
  <1>1. /\ FencedActive(k, sr, active.turn, tr)
        /\ effects[e].status = "prepared" /\ effects[e].turn = active.turn
        /\ turns[active.turn].status = "running"
        /\ effects' = [effects EXCEPT ![e].status = "started"]
    BY DEF StartEffect
  <1>2. life = "running" /\ active.turn # 0
    BY <1>1, FencedFacts DEF IndInv, Turns
  <1>3. \A f \in Effects : effects[f].status # "started"
    BY <1>1, <1>2 DEF IndInv, EffectInv, StartedIsWatched, OneInFlight
  <1>4. Ledger!Quiet
    BY <1>2, <1>3, QuietWhenRunning
  <1>5. Doubtful = {}
    BY <1>4 DEF Ledger!Quiet, Doubtful
  <1>6. EffectState(e) \in {"asked", "authorized"}
    BY <1>1 DEF EffectState, StateOf
  <1>7. effects'[e].status = "started"
    BY <1>1 DEF IndInv, TypeOK, EffectRecord
  <1>8. EffectState(e)' = "running"
    BY <1>7 DEF EffectState, StateOf
  <1> QED BY <1>5, <1>6, <1>8 DEF Happened

(* An effect that is done was observed, and one that was observed is done. *)
LEMMA DoneIsObserved ==
    ASSUME IndInv, NEW e \in Effects
    PROVE  /\ EffectState(e) = "done" => effects[e].outcome = "observed"
           /\ effects[e].outcome = "observed" => EffectState(e) = "done"
           /\ effects[e].outcome = "never_started" => EffectState(e) = "void"
  <1>1. effects[e] \in EffectRecord /\ EffectWellFormed(e)
    BY DEF IndInv, TypeOK, EffectInv
  <1> QED BY <1>1 DEF EffectWellFormed, EffectState, StateOf, EffectRecord,
                      EffectStatus

LEMMA DoneObservedNext ==
    ASSUME NEW e \in Effects
    PROVE  IndInv' => (EffectState(e)' = "done" => effects'[e].outcome = "observed")
  <1>1. IndInv' => effects'[e] \in EffectRecord /\ EffectWellFormed(e)'
    BY DEF IndInv, TypeOK, EffectInv
  <1> QED BY <1>1 DEF EffectWellFormed, EffectState, StateOf, EffectRecord,
                      EffectStatus

(* An effect whose coordinator has not observed it stays in doubt. *)
LEMMA DoubtStays ==
    ASSUME StoreInv, WorldInv, LedgerMoves, [Next]_vars, [RuntimeNext]_allVars,
           NEW e \in Doubtful,
           \A c \in Coords : Observe(c) => co[c].e # e
    PROVE  e \in Doubtful'
  <1>1. SUFFICES ASSUME e \notin Doubtful' PROVE FALSE
    OBVIOUS
  <1>2. e \in Effects /\ EffectState(e) = "running" /\ EffectState(e)' = "done"
    BY <1>1, DoubtMoves DEF StoreInv, WorldInv, Doubtful
  <1>3. effects[e].outcome # "observed"
    BY <1>2, DoneIsObserved DEF StoreInv
  <1>4. effects'[e].outcome = "observed"
    <2>1. IndInv' => (EffectState(e)' = "done" => effects'[e].outcome = "observed")
      BY <1>2, DoneObservedNext
    <2> QED BY <1>2, <2>1 DEF LedgerMoves
  <1>5. PICK c \in Coords : Observe(c)
    BY <1>2, <1>3, <1>4, OnlyObserve DEF NoneObserved
  <1>6. effects'[e] = effects[e]
    <2>1. co[c].e # e /\ co[c].e \in Effects
      BY <1>5 DEF Observe, At, StoreInv, EffectIsNamed
    <2> QED BY <1>2, <1>5, <2>1
            DEF Observe, ObserveEffect, StoreInv, IndInv, TypeOK
  <1> QED BY <1>3, <1>4, <1>6

(* Nothing moves in the ledger when an executor starts or ends. *)
LEMMA LedgerStill ==
    ASSUME UNCHANGED vars
    PROVE  /\ Doubtful' = Doubtful
           /\ \A e \in Effects : EffectState(e)' = EffectState(e)
           /\ \A e \in Effects : effects'[e] = effects[e]
  <1>1. effects' = effects /\ consent' = consent
    BY DEF vars, ledger
  <1>2. \A e \in Effects : EffectState(e)' = EffectState(e)
    BY <1>1 DEF EffectState
  <1> QED BY <1>1, <1>2 DEF Doubtful

LEMMA ExecuteWorld ==
    ASSUME StoreInv, WorldInv, LedgerMoves, [RuntimeNext]_allVars,
           NEW c \in Coords, Execute(c)
    PROVE  WorldInv'
  <1> DEFINE x == co[c].e
  <1>1. /\ x \in Effects /\ x \in Doubtful /\ ran[x] = 0
        /\ \A d \in Coords : At(d, "started") => d = c
    BY DEF Execute, WorldInv, StarterIsAlone, Doubtful
  <1>2. /\ Doubtful' = Doubtful
        /\ \A e \in Effects : EffectState(e)' = EffectState(e)
        /\ \A e \in Effects : effects'[e] = effects[e]
    BY LedgerStill DEF Execute
  <1>3. /\ ran'[x] = 1
        /\ \A e \in Effects \ {x} : ran'[e] = ran[e]
        /\ working' = working \cup {x}
    BY <1>1 DEF Execute, StoreInv, RuntimeTypeOK
  <1>4. /\ co'[c].pc = "executing" /\ co'[c].e = x
        /\ \A d \in Coords \ {c} : co'[d] = co[d]
    BY DEF Execute, Goto, StoreInv, RuntimeTypeOK, Coordinator
  <1>5. OneDoubt'
    BY <1>2 DEF WorldInv, OneDoubt
  <1>6. RanIsRecorded'
    <2>1. EffectState(x) \in {"running", "unknown", "acknowledged"}
      BY <1>1 DEF Doubtful
    <2> QED BY <1>1, <1>2, <1>3, <2>1 DEF WorldInv, RanIsRecorded
  <1>7. StarterIsAlone'
    <2>1. ASSUME NEW d \in Coords, co'[d].pc = "started" PROVE FALSE
      BY <1>1, <1>4, <2>1 DEF At
    <2>2. ASSUME NEW d \in Coords, co'[d].pc = "executing"
          PROVE  ran'[co'[d].e] = 1
      <3>1. CASE d = c
        BY <1>3, <1>4, <3>1
      <3>2. CASE d # c
        <4>1. co'[d] = co[d] /\ ran[co[d].e] = 1 /\ co[d].e \in Effects
          BY <1>4, <2>2, <3>2
             DEF WorldInv, StarterIsAlone, At, StoreInv, EffectIsNamed
        <4> QED BY <1>1, <1>3, <4>1
      <3> QED BY <3>1, <3>2
    <2> QED BY <2>1, <2>2 DEF StarterIsAlone, At
  <1> QED BY <1>5, <1>6, <1>7 DEF WorldInv

LEMMA ExecutorEndsWorld ==
    ASSUME WorldInv, NEW e \in Effects, ExecutorEnds(e)
    PROVE  WorldInv'
  <1>1. /\ Doubtful' = Doubtful
        /\ \A f \in Effects : EffectState(f)' = EffectState(f)
        /\ \A f \in Effects : effects'[f] = effects[f]
        /\ co' = co /\ ran' = ran /\ working' \subseteq working
    BY LedgerStill DEF ExecutorEnds
  <1> QED BY <1>1 DEF WorldInv, OneDoubt, RanIsRecorded, StarterIsAlone, At

(* Steps of the ledger, with the world as it is. *)
LEMMA QuietWorld ==
    ASSUME StoreInv, WorldInv, LedgerMoves, [Next]_vars, [RuntimeNext]_allVars,
           UNCHANGED <<ran, working>>
    PROVE  WorldInv'
  <1> USE DEF WorldInv
  <1>1. /\ OneDoubt'
        /\ \A e \in Effects :
              EffectState(e) \in Happened => EffectState(e)' \in Happened
    BY DoubtMoves DEF StoreInv
  <1>2. ASSUME NEW c \in Coords, Observe(c)
        PROVE  /\ co[c].e \in Effects /\ ran[co[c].e] = 1
               /\ co[c].e \notin working
               /\ \A e \in Effects \ {co[c].e} : effects'[e] = effects[e]
    BY <1>2 DEF Observe, ObserveEffect, StarterIsAlone, At, StoreInv,
                EffectIsNamed, IndInv, TypeOK
  <1>3. RanIsRecorded'
    <2> SUFFICES ASSUME NEW e \in Effects
                 PROVE  /\ ran'[e] \in {0, 1}
                        /\ ran'[e] = 1 => EffectState(e)' \in Happened
                        /\ e \in working' => ran'[e] = 1 /\ e \in Doubtful'
                        /\ effects'[e].outcome = "observed" => ran'[e] = 1
      BY DEF RanIsRecorded, Happened
    <2>1. /\ ran[e] \in {0, 1}
          /\ ran[e] = 1 => EffectState(e) \in Happened
          /\ e \in working => ran[e] = 1 /\ e \in Doubtful
          /\ effects[e].outcome = "observed" => ran[e] = 1
      BY DEF RanIsRecorded, Happened
    <2>2. e \in working => e \in Doubtful'
      BY <1>2, <2>1, DoubtStays
    <2>3. effects'[e].outcome = "observed" => ran[e] = 1
      <3>1. CASE NoneObserved
        BY <2>1, <3>1 DEF NoneObserved
      <3>2. ASSUME NEW c \in Coords, Observe(c)
            PROVE  effects'[e].outcome = "observed" => ran[e] = 1
        BY <1>2, <2>1, <3>2
      <3> QED BY <3>1, <3>2, OnlyObserve
    <2> QED BY <1>1, <2>1, <2>2, <2>3
  <1>4. ASSUME NEW d \in Coords, At(d, "started"), co'[d].e = co[d].e
        PROVE  co'[d].e \in Doubtful' /\ ran'[co'[d].e] = 0
    <2>1. co[d].e \in Doubtful /\ ran[co[d].e] = 0
      BY <1>4 DEF StarterIsAlone
    <2>2. \A c \in Coords : Observe(c) => co[c].e # co[d].e
      BY <1>2, <2>1
    <2> QED BY <1>4, <2>1, <2>2, DoubtStays
  <1>5. ASSUME NEW d \in Coords, StartPrepared(d), co'[d].e = co[d].e
        PROVE  /\ co'[d].e \in Doubtful' /\ ran'[co'[d].e] = 0
               /\ Doubtful = {}
               /\ \A c \in Coords \ {d} : co'[c] = co[c]
    <2>1. co[d].e \in Effects /\ co[d].k \in Nat \ {0}
      BY <1>5, TokenOf DEF StartPrepared, At, StoreInv, EffectIsNamed
    <2>2. /\ Doubtful = {} /\ EffectState(co[d].e) \notin Happened
          /\ EffectState(co[d].e)' = "running"
      BY <1>5, <2>1, StartFacts DEF StartPrepared, StoreInv
    <2>3. ran[co[d].e] = 0
      BY <2>1, <2>2 DEF RanIsRecorded, Happened
    <2>4. \A c \in Coords \ {d} : co'[c] = co[c]
      BY <1>5 DEF StartPrepared, Then, StoreInv, RuntimeTypeOK
    <2> QED BY <1>5, <2>1, <2>2, <2>3, <2>4 DEF Doubtful
  <1>6. ASSUME NEW d \in Coords, co'[d].pc = "started"
        PROVE  /\ co'[d].e \in Doubtful' /\ ran'[co'[d].e] = 0
               /\ \A c \in Coords : co'[c].pc = "started" => c = d
    <2>1. CASE At(d, "started") /\ co'[d].e = co[d].e
      <3>1. ASSUME NEW c \in Coords, co'[c].pc = "started", c # d PROVE FALSE
        <4>1. StartPrepared(c) /\ co'[c].e = co[c].e
          BY <2>1, <3>1, PlaceMoves DEF StarterIsAlone
        <4>2. Doubtful = {}
          BY <1>5, <4>1
        <4> QED BY <2>1, <4>2 DEF StarterIsAlone
      <3> QED BY <1>4, <2>1, <3>1
    <2>2. CASE StartPrepared(d) /\ co'[d].e = co[d].e
      <3>1. ASSUME NEW c \in Coords, co'[c].pc = "started", c # d PROVE FALSE
        <4>1. At(c, "started")
          BY <1>5, <2>2, <3>1 DEF At
        <4> QED BY <1>5, <2>2, <4>1 DEF StarterIsAlone
      <3> QED BY <1>5, <2>2, <3>1
    <2> QED BY <1>6, <2>1, <2>2, PlaceMoves
  <1>7. ASSUME NEW d \in Coords, co'[d].pc = "executing"
        PROVE  ran'[co'[d].e] = 1
    <2>1. CASE At(d, "executing") /\ co'[d].e = co[d].e
      BY <2>1 DEF StarterIsAlone
    <2>2. CASE Execute(d)
      <3>1. co[d].e \in Effects /\ ran[co[d].e] = 0
        BY <2>2 DEF Execute, StarterIsAlone, Doubtful
      <3>2. ran'[co[d].e] = 1
        BY <2>2, <3>1 DEF Execute, StoreInv, RuntimeTypeOK
      <3> QED BY <3>1, <3>2
    <2> QED BY <1>7, <2>1, <2>2, PlaceMoves
  <1>8. StarterIsAlone'
    BY <1>6, <1>7 DEF StarterIsAlone, At
  <1> QED BY <1>1, <1>3, <1>8

LEMMA WorldInvNext ==
    StoreInv /\ WorldInv /\ [RuntimeNext]_allVars => WorldInv'
  <1> SUFFICES ASSUME StoreInv, WorldInv, [RuntimeNext]_allVars
               PROVE  WorldInv'
    OBVIOUS
  <1>1. [Next]_vars
    BY RuntimeIsNext
  <1>2. LedgerMoves
    BY <1>1, NextMoves DEF StoreInv
  <1> QED BY <1>1, <1>2, WorldMoves, ExecuteWorld, ExecutorEndsWorld, QuietWorld
          DEF StoreInv, RuntimeTypeOK

LEMMA WorldInvInit == RuntimeInit => WorldInv
  <1> SUFFICES ASSUME RuntimeInit PROVE WorldInv
    OBVIOUS
  <1>1. \A e \in Effects : EffectState(e) = "new"
    BY LedgerInit DEF RuntimeInit, Ledger!Init
  <1>2. \A c \in Coords : co[c].pc = "idle"
    BY DEF RuntimeInit, Idle
  <1>3. IndInv
    BY InitInv DEF RuntimeInit
  <1> QED BY <1>1, <1>2, <1>3, DoneIsObserved
          DEF WorldInv, OneDoubt, RanIsRecorded, StarterIsAlone, Doubtful, At,
              RuntimeInit

LEMMA WorldInvariant == RuntimeSpec => [](StoreInv /\ WorldInv)
  BY StoreInvInit, StoreInvNext, WorldInvInit, WorldInvNext, PTL DEF RuntimeSpec

(* An effect is executed at most once, only after its Started record is
   durable, and alone, whoever crashes, stalls or is superseded in between
   (execute_and_observe_effect). *)
THEOREM ExecutionSafety == RuntimeSpec => []EffectsRunOnce
  <1>1. StoreInv /\ WorldInv => EffectsRunOnce
    <2> SUFFICES ASSUME StoreInv, WorldInv PROVE EffectsRunOnce
      OBVIOUS
    <2>1. RuntimeTypeOK
      BY DEF StoreInv
    <2>2. ExecutedOnceAfterStart
      <3> SUFFICES ASSUME NEW e \in Effects
                   PROVE  /\ ran[e] <= 1
                          /\ ran[e] = 1 =>
                                effects[e].status \notin {"absent", "prepared"}
        BY DEF ExecutedOnceAfterStart
      <3>1. ran[e] \in {0, 1} /\ (ran[e] = 1 => EffectState(e) \in Happened)
        BY DEF WorldInv, RanIsRecorded, Happened
      <3>2. effects[e].status \in {"absent", "prepared"} =>
                EffectState(e) \in {"new", "asked", "authorized"}
        BY DEF EffectState, StateOf
      <3> QED BY <3>1, <3>2 DEF Happened
    <2>3. OneExecutor
      <3>1. \A e, f \in working : e = f
        BY DEF WorldInv, RanIsRecorded, OneDoubt, StoreInv, RuntimeTypeOK
      <3>2. CASE working = {}
        BY <3>2, FS_EmptySet DEF OneExecutor
      <3>3. CASE working # {}
        <4>1. PICK e \in working : working = {e}
          BY <3>1, <3>3
        <4> QED BY <4>1, FS_Singleton DEF OneExecutor
      <3> QED BY <3>2, <3>3
    <2> QED BY <2>1, <2>2, <2>3 DEF EffectsRunOnce
  <1> QED BY <1>1, WorldInvariant, PTL

(* What the ledger says of the world is true: what it calls never started
   never ran, and what it calls observed ran and is over (recovery, Observe). *)
THEOREM LedgerTruth == RuntimeSpec => []LedgerIsTruthful
  <1>1. StoreInv /\ WorldInv => LedgerIsTruthful
    <2> SUFFICES ASSUME StoreInv, WorldInv, NEW e \in Effects
                 PROVE  /\ effects[e].outcome = "never_started" => ran[e] = 0
                        /\ effects[e].outcome = "observed" =>
                              ran[e] = 1 /\ e \notin working
      BY DEF LedgerIsTruthful
    <2>1. /\ EffectState(e) = "done" => effects[e].outcome = "observed"
          /\ effects[e].outcome = "observed" => EffectState(e) = "done"
          /\ effects[e].outcome = "never_started" => EffectState(e) = "void"
      BY DoneIsObserved DEF StoreInv
    <2> QED BY <2>1 DEF WorldInv, RanIsRecorded, Doubtful
  <1> QED BY <1>1, WorldInvariant, PTL
=============================================================================
