------------------------- MODULE SessionStoreSteps -------------------------
(* What no step of SessionStore undoes, and the step of EffectLedger that each
   of its steps is, for every set of effects and every bound. *)
EXTENDS SessionStoreProofs

-----------------------------------------------------------------------------
(* Tokens *)

(* No digest and no capability names a token that was never issued: the part
   of the invariant that a new lease needs to be above all of them. *)
TokensIssued ==
    \A e \in Effects : effects[e].digest.token <= epoch /\ perms[e].token <= epoch

(* A commit writes the token of its caller or none. *)
WritesOwnToken(e) ==
    /\ effects'[e].digest.token \in {effects[e].digest.token, epoch}
    /\ perms'[e].token \in {perms[e].token, epoch}

(* Steps that only close effects and consume permissions, or leave them. *)
LEMMA TokensKept ==
    ASSUME IndInv, TokensIssued, epoch' = epoch,
           \A e \in Effects : WritesOwnToken(e)
    PROVE  TokensIssued'
  BY DEF IndInv, TypeOK, TokensIssued, WritesOwnToken

(* Closing an effect keeps its digest. *)
LEMMA ClosedToken ==
    ASSUME TypeOK, NEW e \in Effects, NEW s, NEW o
    PROVE  Closed(e, s, o).digest = effects[e].digest
  BY DEF TypeOK, Closed, EffectRecord

(* The tokens that PrepareEffect, ResolvePermission and StartEffect write. *)
LEMMA PrepareTokens ==
    ASSUME IndInv, NEW k \in Nat \ {0}, NEW sr, NEW tr, NEW e \in Effects,
           \/ PrepareAllowed(k, sr, tr, e) \/ PrepareAsk(k, sr, tr, e)
           \/ ResolveAllow(k, sr, tr, e) \/ StartEffect(k, sr, tr, e)
    PROVE  epoch' = epoch /\ \A f \in Effects : WritesOwnToken(f)
  <1>1. k = epoch
    BY FencedFacts
       DEF IndInv, PrepareAllowed, PrepareAsk, ResolveAllow, StartEffect
  <1>2. epoch' = epoch
    BY DEF PrepareAllowed, PrepareAsk, ResolveAllow, StartEffect, Proceed
  <1>3. CASE PrepareAllowed(k, sr, tr, e)
    BY <1>1, <1>2, <1>3
       DEF PrepareAllowed, Prepared, Digest, IndInv, TypeOK, WritesOwnToken
  <1>4. CASE PrepareAsk(k, sr, tr, e)
    BY <1>1, <1>2, <1>4
       DEF PrepareAsk, Prepared, Digest, IndInv, TypeOK, WritesOwnToken
  <1>5. CASE ResolveAllow(k, sr, tr, e)
    BY <1>1, <1>2, <1>5
       DEF ResolveAllow, Digest, IndInv, TypeOK, EffectRecord, PermissionRecord,
           WritesOwnToken
  <1>6. CASE StartEffect(k, sr, tr, e)
    BY <1>2, <1>6
       DEF StartEffect, IndInv, TypeOK, EffectRecord, PermissionRecord,
           WritesOwnToken
  <1> QED BY <1>2, <1>3, <1>4, <1>5, <1>6

(* The commits that end an effect. *)
LEMMA ClosingTokens ==
    ASSUME IndInv, NEW k \in Nat \ {0}, NEW sr, NEW tr,
           \/ \E e \in Effects :
                 \/ ResolveDeny(k, sr, tr, e) \/ ObserveEffect(k, sr, tr, e)
                 \/ UnknownEffect(k, sr, tr, e)
                 \/ ReconcileUnknownEffect(k, sr, tr, e)
           \/ CancelWaiting(k, sr, tr)
           \/ InterruptRunning(k, sr, tr)
    PROVE  epoch' = epoch /\ \A f \in Effects : WritesOwnToken(f)
  <1> USE ClosedToken DEF IndInv, TypeOK, WritesOwnToken
  <1>1. ASSUME NEW e \in Effects, ResolveDeny(k, sr, tr, e)
        PROVE  epoch' = epoch /\ \A f \in Effects : WritesOwnToken(f)
    BY <1>1 DEF ResolveDeny, Conclude, PermissionRecord
  <1>2. ASSUME NEW e \in Effects, ObserveEffect(k, sr, tr, e)
        PROVE  epoch' = epoch /\ \A f \in Effects : WritesOwnToken(f)
    BY <1>2 DEF ObserveEffect, Proceed
  <1>3. ASSUME NEW e \in Effects, UnknownEffect(k, sr, tr, e)
        PROVE  epoch' = epoch /\ \A f \in Effects : WritesOwnToken(f)
    BY <1>3 DEF UnknownEffect, Conclude
  <1>4. ASSUME NEW e \in Effects, ReconcileUnknownEffect(k, sr, tr, e)
        PROVE  epoch' = epoch /\ \A f \in Effects : WritesOwnToken(f)
    BY <1>4 DEF ReconcileUnknownEffect, Conclude
  <1>5. CASE CancelWaiting(k, sr, tr)
    BY <1>5 DEF CancelWaiting, Conclude, PermissionRecord
  <1>6. CASE InterruptRunning(k, sr, tr)
    BY <1>6 DEF InterruptRunning, Conclude
  <1> QED BY <1>1, <1>2, <1>3, <1>4, <1>5, <1>6

(* Recovery closes effects and consumes permissions of one turn. *)
LEMMA RecoveryTokens ==
    ASSUME IndInv, NEW k, RecoverLinkedSessionTurn(k)
    PROVE  \A f \in Effects : WritesOwnToken(f)
  BY ClosedToken
     DEF RecoverLinkedSessionTurn, IndInv, TypeOK, PermissionRecord,
         WritesOwnToken

(* Every commit that touches no effect and no permission. *)
LEMMA QuietTokens ==
    ASSUME IndInv, epoch' = epoch, UNCHANGED <<effects, perms>>
    PROVE  \A f \in Effects : WritesOwnToken(f)
  BY DEF WritesOwnToken

LEMMA CommitTokens ==
    ASSUME IndInv, NEW k \in Nat \ {0}, Commit(k)
    PROVE  epoch' = epoch /\ \A f \in Effects : WritesOwnToken(f)
  <1>1. CASE CreateStartedSession(k) \/ CreateStartedFollowUp(k, rev)
             \/ SwitchSessionBinding(k, rev)
    BY <1>1, QuietTokens
       DEF CreateStartedSession, CreateStartedFollowUp, SwitchSessionBinding,
           BeginTurn
  <1>2. CASE CommitTurn(k, rev, LatestRevision)
    <2>1. CASE \/ AppendTranscript(k, rev, LatestRevision)
               \/ AppendDetached(k, rev, LatestRevision)
               \/ CommitRequestInput(k, rev, LatestRevision)
               \/ CommitProvideInput(k, rev, LatestRevision)
      BY <2>1, QuietTokens
         DEF AppendTranscript, AppendDetached, CommitRequestInput,
             CommitProvideInput, Proceed
    <2>2. CASE \/ CommitComplete(k, rev, LatestRevision)
               \/ \E class \in {"retryable", "terminal"} :
                     CommitFail(k, rev, LatestRevision, class)
      BY <2>2, QuietTokens DEF CommitComplete, CommitFail, Conclude
    <2>3. CASE \/ CancelWaiting(k, rev, LatestRevision)
               \/ InterruptRunning(k, rev, LatestRevision)
      BY <2>3, ClosingTokens
    <2> QED BY <1>2, <2>1, <2>2, <2>3 DEF CommitTurn
  <1>3. CASE CommitEffect(k, rev, LatestRevision)
    BY <1>3, PrepareTokens, ClosingTokens DEF CommitEffect
  <1> QED BY <1>1, <1>2, <1>3 DEF Commit

(* Only an acquisition issues a token, and it writes none. *)
LEMMA NextTokens ==
    ASSUME IndInv, TokensIssued, [Next]_vars
    PROVE  TokensIssued'
  <1> USE DEF IndInv
  <1>1. CASE Acquire
    BY <1>1 DEF Acquire, ledger, TypeOK, EffectRecord, PermissionRecord,
                OperationDigest, TokensIssued
  <1>2. CASE Expire \/ CreateSessionFork \/ UNCHANGED vars
    BY <1>2, QuietTokens, TokensKept
       DEF Expire, CreateSessionFork, ledger, vars
  <1>3. CASE RecoverAt
    BY <1>3, RecoveryTokens, TokensKept DEF RecoverAt
  <1>4. ASSUME NEW k \in Tokens,
               \/ Commit(k)
               \/ RecoverAfterLeaseLoss(k, LatestRevision)
               \/ ReleaseLease(k)
        PROVE  TokensIssued'
    <2>1. CASE Commit(k)
      BY <2>1, CommitTokens, TokensKept DEF Tokens, TypeOK
    <2>2. CASE RecoverAfterLeaseLoss(k, LatestRevision)
      BY <2>2, RecoveryTokens, TokensKept DEF RecoverAfterLeaseLoss
    <2>3. CASE ReleaseQuiesced(k) \/ ReleaseIdle(k)
      BY <2>3, QuietTokens, TokensKept
         DEF ReleaseQuiesced, ReleaseIdle, DeleteLease, ledger
    <2>4. CASE ReleaseAbandoned(k)
      BY <2>4, RecoveryTokens, TokensKept DEF ReleaseAbandoned, DeleteLease
    <2> QED BY <1>4, <2>1, <2>2, <2>3, <2>4 DEF ReleaseLease
  <1> QED BY <1>1, <1>2, <1>3, <1>4 DEF Next

-----------------------------------------------------------------------------
(* What no step undoes *)

(* The three facts about a step together. *)
StepMovesOn ==
    AuthorityMovesOn /\ RevisionMovesOn /\ \A t \in Turns : FinishedStays(t)

(* A commit on the turn in flight: its caller has the newest token. *)
LEMMA ActiveCommitMovesOn ==
    ASSUME IndInv, NEW k \in Nat \ {0}, NEW sr, NEW tr,
           FencedActive(k, sr, active.turn, tr), NEW n \in TurnRecord, NEW l,
           Proceed(k, active.turn, n, l) \/ Conclude(k, active.turn, n, l)
    PROVE  StepMovesOn
  <1> DEFINE t == active.turn
  <1> USE DEF IndInv
  <1>1. /\ t \in Turns /\ k = epoch
        /\ turns[t].status \in InFlight
    BY FencedFacts
  <1>2. /\ TurnWritten(t, n, k) /\ rev' = rev + 1
        /\ lease'.token = lease.token
    BY <1>1, ProceedFacts, ConcludeFacts
  <1>3. AuthorityMovesOn
    BY <1>1, <1>2 DEF AuthorityMovesOn, TurnWritten, TurnInv, Fences, TypeOK,
                      TurnRecord
  <1>4. RevisionMovesOn
    BY <1>2 DEF RevisionMovesOn, TypeOK
  <1>5. ASSUME NEW u \in Turns PROVE FinishedStays(u)
    <2>1. CASE u = t
      BY <1>1, <2>1 DEF FinishedStays, InFlight, Terminal
    <2>2. CASE u # t
      BY <1>2, <2>2 DEF FinishedStays, TurnWritten, TypeOK, TurnRecord
    <2> QED BY <2>1, <2>2
  <1> QED BY <1>3, <1>4, <1>5 DEF StepMovesOn

(* Recovery keeps the token of the turn it ends. *)
LEMMA RecoveryMovesOn ==
    ASSUME IndInv, NEW k \in Nat, RecoverLinkedSessionTurn(k),
           lease'.token \in {0, lease.token}
    PROVE  StepMovesOn
  <1> DEFINE t == active.turn
             a == Advance(turns[t], "interrupted")
             n == [a EXCEPT !.permission = None, !.input = FALSE]
  <1> USE DEF IndInv
  <1>1. /\ t \in Turns /\ turns[t] \in TurnRecord
        /\ turns[t].status \in InFlight
    BY BoundsAssumption
       DEF RecoverLinkedSessionTurn, CanRecover, TypeOK, Turns, TurnInv,
           LifecycleAgrees
  <1>2. turns' = [turns EXCEPT ![t] = n] /\ rev' = rev + 1
    BY DEF RecoverLinkedSessionTurn
  <1>3. n.token = turns[t].token
    <2>1. a \in TurnRecord /\ a.token = turns[t].token
      BY <1>1, AdvanceFields DEF Status
    <2> HIDE DEF a
    <2> QED BY <2>1, DropRequests
  <1> HIDE DEF n
  <1>4. AuthorityMovesOn
    BY <1>1, <1>2, <1>3 DEF AuthorityMovesOn, TypeOK, TurnRecord
  <1>5. RevisionMovesOn
    BY <1>2 DEF RevisionMovesOn, TypeOK
  <1>6. ASSUME NEW u \in Turns PROVE FinishedStays(u)
    BY <1>1, <1>2 DEF FinishedStays, InFlight, Terminal, TypeOK, TurnRecord
  <1> QED BY <1>4, <1>5, <1>6 DEF StepMovesOn

(* Steps that write no turn: the lease, the binding, a fork. *)
LEMMA LeaseMovesOn ==
    ASSUME IndInv, TokensIssued, UNCHANGED <<latest, effects, perms, turns, active>>,
           life' = life \/ life = "absent", rev' = rev \/ rev' > rev,
           lease'.token \in {0, lease.token} \/ lease'.token = epoch + 1
    PROVE  StepMovesOn
  <1> USE DEF IndInv, TypeOK, TurnRecord, EffectRecord, PermissionRecord,
              OperationDigest
  <1>1. AuthorityMovesOn
    BY DEF AuthorityMovesOn, TurnInv, Fences, TokensIssued
  <1>2. RevisionMovesOn
    BY DEF RevisionMovesOn
  <1>3. \A t \in Turns : FinishedStays(t)
    BY DEF FinishedStays
  <1> QED BY <1>1, <1>2, <1>3 DEF StepMovesOn

(* A new turn takes a row that was empty. *)
LEMMA BeginMovesOn ==
    ASSUME IndInv, NEW k \in Nat \ {0}, Live(k), rev' > rev,
           NEW t \in Turns, t > latest, BeginTurn(k, t)
    PROVE  StepMovesOn
  <1> DEFINE n == [Start(Queued) EXCEPT !.token = k]
  <1> USE DEF IndInv
  <1>1. n.token = k
    BY StartFields, SetToken
  <1>2. turns' = [turns EXCEPT ![t] = n] /\ lease' = lease
    BY DEF BeginTurn
  <1> HIDE DEF n
  <1>3. k = epoch /\ turns[t].status = "none"
    BY DEF Live, TurnInv, Fences, Chronology
  <1>4. AuthorityMovesOn
    BY <1>1, <1>2, <1>3
       DEF AuthorityMovesOn, TurnInv, Fences, TypeOK, TurnRecord
  <1>5. RevisionMovesOn
    BY DEF RevisionMovesOn
  <1>6. ASSUME NEW u \in Turns PROVE FinishedStays(u)
    BY <1>2, <1>3 DEF FinishedStays, Terminal, TypeOK, TurnRecord
  <1> QED BY <1>4, <1>5, <1>6 DEF StepMovesOn

LEMMA CreateMovesOn ==
    ASSUME IndInv, NEW k \in Nat \ {0},
           CreateStartedSession(k) \/ CreateStartedFollowUp(k, rev)
    PROVE  StepMovesOn
  <1> USE DEF IndInv
  <1>1. CASE CreateStartedSession(k)
    <2>1. latest = 0 /\ rev = 0
      BY <1>1 DEF CreateStartedSession, TurnInv, Chronology
    <2> QED BY <1>1, <2>1, BeginMovesOn DEF CreateStartedSession
  <1>2. CASE CreateStartedFollowUp(k, rev)
    BY <1>2, BeginMovesOn DEF CreateStartedFollowUp, TypeOK
  <1> QED BY <1>1, <1>2

(* The transcript of a finished turn gets another card: only its token moves. *)
LEMMA DetachedMovesOn ==
    ASSUME IndInv, NEW k \in Nat \ {0}, NEW tr, AppendDetached(k, rev, tr)
    PROVE  StepMovesOn
  <1> USE DEF IndInv
  <1>1. /\ latest \in Turns /\ k = epoch
        /\ lease' = lease /\ rev' = rev + 1
        /\ turns' = [turns EXCEPT ![latest] = [turns[latest] EXCEPT !.token = k]]
    BY BoundsAssumption
       DEF AppendDetached, Fenced, Live, Proceed, TurnInv, Fences, TypeOK, Turns
  <1>2. AuthorityMovesOn
    BY <1>1 DEF AuthorityMovesOn, TurnInv, Fences, TypeOK, TurnRecord
  <1>3. RevisionMovesOn
    BY <1>1 DEF RevisionMovesOn, TypeOK
  <1>4. ASSUME NEW u \in Turns PROVE FinishedStays(u)
    <2>1. CASE u = latest
      BY <1>1, <2>1 DEF FinishedStays, TypeOK, TurnRecord
    <2>2. CASE u # latest
      BY <1>1, <2>2 DEF FinishedStays, TypeOK, TurnRecord
    <2> QED BY <2>1, <2>2
  <1> QED BY <1>2, <1>3, <1>4 DEF StepMovesOn

(* The one commit that changes a finished turn. *)
LEMMA ReconcileMovesOn ==
    ASSUME IndInv, NEW k \in Nat \ {0}, NEW tr, NEW e \in Effects,
           ReconcileUnknownEffect(k, rev, tr, e)
    PROVE  StepMovesOn
  <1> DEFINE n == Fail(turns[latest], "terminal")
  <1> USE DEF IndInv
  <1>1. /\ latest \in Turns /\ k = epoch /\ e \in OfTurn(latest, "unknown")
        /\ turns[latest].status = "interrupted"
        /\ Conclude(k, latest, n, "failed")
        /\ effects'[e] = Closed(e, "observed_failed", "acknowledged")
    BY BoundsAssumption
       DEF ReconcileUnknownEffect, Fenced, Live, TurnInv, Fences, TypeOK, Turns,
           OfTurn
  <1>2. n \in TurnRecord /\ n.status = "failed"
    BY <1>1, FailFields DEF TypeOK, Failure
  <1> HIDE DEF n
  <1>3. /\ TurnWritten(latest, n, k) /\ rev' = rev + 1
        /\ lease'.token = lease.token
    BY <1>1, <1>2, ConcludeFacts
  <1>4. effects'[e].outcome = "acknowledged"
    BY <1>1, ClosedFields DEF EffectStatus, Outcome
  <1>5. AuthorityMovesOn
    BY <1>1, <1>3 DEF AuthorityMovesOn, TurnWritten, TurnInv, Fences, TypeOK,
                      TurnRecord
  <1>6. RevisionMovesOn
    BY <1>3 DEF RevisionMovesOn, TypeOK
  <1>7. ASSUME NEW u \in Turns PROVE FinishedStays(u)
    <2>1. CASE u = latest
      BY <1>1, <1>2, <1>3, <1>4, <2>1 DEF FinishedStays, TurnWritten
    <2>2. CASE u # latest
      BY <1>3, <2>2 DEF FinishedStays, TurnWritten, TypeOK, TurnRecord
    <2> QED BY <2>1, <2>2
  <1> QED BY <1>5, <1>6, <1>7 DEF StepMovesOn

(* A parked wait gives its token up. *)
LEMMA QuiesceMovesOn ==
    ASSUME IndInv, NEW k \in Nat, ReleaseQuiesced(k)
    PROVE  StepMovesOn
  <1> DEFINE t == active.turn
  <1> USE DEF IndInv
  <1>1. /\ t \in Turns /\ turns[t].status \in Waiting
        /\ turns' = [turns EXCEPT ![t].token = 0]
        /\ lease'.token = 0 /\ active'.turn = t
        /\ UNCHANGED <<life, rev, latest, effects, perms>>
    BY BoundsAssumption
       DEF ReleaseQuiesced, CanRecover, DeleteLease, TypeOK, Turns
  <1>2. AuthorityMovesOn
    BY <1>1 DEF AuthorityMovesOn, TypeOK, TurnRecord
  <1>3. RevisionMovesOn
    BY <1>1 DEF RevisionMovesOn, TypeOK, TurnRecord
  <1>4. ASSUME NEW u \in Turns PROVE FinishedStays(u)
    BY <1>1 DEF FinishedStays, Waiting, Terminal, TypeOK, TurnRecord
  <1> QED BY <1>2, <1>3, <1>4 DEF StepMovesOn

(* The commits of the turn in flight that leave the effects alone. *)
LEMMA TurnCommitMovesOn ==
    ASSUME IndInv, NEW k \in Nat \ {0}, CommitTurn(k, rev, LatestRevision)
    PROVE  StepMovesOn
  <1> DEFINE tr == LatestRevision
             t == active.turn
             n == turns[t]
  <1> USE DEF IndInv
  <1>1. CASE AppendDetached(k, rev, tr)
    BY <1>1, DetachedMovesOn
  <1>2. CASE ~AppendDetached(k, rev, tr)
    <2>1. FencedActive(k, rev, t, tr)
      BY <1>2 DEF CommitTurn, AppendTranscript, CommitRequestInput,
                  CommitProvideInput, CommitComplete, CommitFail, CancelWaiting,
                  InterruptRunning
    <2>2. n \in TurnRecord
      BY <2>1, FencedFacts
    <2> HIDE DEF n, tr
    <2>3. CASE AppendTranscript(k, rev, tr)
      BY <2>1, <2>2, <2>3, ActiveCommitMovesOn DEF AppendTranscript, n
    <2>4. CASE CommitRequestInput(k, rev, tr) \/ CommitProvideInput(k, rev, tr)
      <3>1. RequestInput(n) \in TurnRecord /\ ProvideInput(n) \in TurnRecord
        BY <2>2, InputFields
      <3> QED BY <2>1, <2>4, <3>1, ActiveCommitMovesOn
              DEF CommitRequestInput, CommitProvideInput, n
    <2>5. CASE CommitComplete(k, rev, tr)
      <3>1. Complete(n, TRUE) \in TurnRecord
        BY <2>2, CompleteFields
      <3> QED BY <2>1, <2>5, <3>1, ActiveCommitMovesOn DEF CommitComplete, n
    <2>6. ASSUME NEW class \in {"retryable", "terminal"},
                 CommitFail(k, rev, tr, class)
          PROVE  StepMovesOn
      <3>1. Fail(n, class) \in TurnRecord
        BY <2>2, FailFields DEF Failure
      <3> QED BY <2>1, <2>6, <3>1, ActiveCommitMovesOn DEF CommitFail, n
    <2>7. CASE CancelWaiting(k, rev, tr)
      <3> DEFINE f == Fail(n, "cancelled")
                 d == [f EXCEPT !.permission = None, !.input = FALSE]
      <3>1. f \in TurnRecord
        BY <2>2, FailFields DEF Failure
      <3> HIDE DEF f
      <3>2. d \in TurnRecord
        BY <3>1, DropRequests
      <3>3. Conclude(k, t, d, "failed")
        BY <2>7 DEF CancelWaiting, f, n
      <3> HIDE DEF d
      <3> QED BY <2>1, <3>2, <3>3, ActiveCommitMovesOn
    <2>8. CASE InterruptRunning(k, rev, tr)
      <3>1. Interrupt(Cancel(n)) \in TurnRecord
        BY <2>2, InterruptFields
      <3> QED BY <2>1, <2>8, <3>1, ActiveCommitMovesOn DEF InterruptRunning, n
    <2> QED BY <1>2, <2>3, <2>4, <2>5, <2>6, <2>7, <2>8 DEF CommitTurn, tr
  <1> QED BY <1>1, <1>2

(* The commits about one effect. *)
LEMMA EffectCommitMovesOn ==
    ASSUME IndInv, NEW k \in Nat \ {0}, CommitEffect(k, rev, LatestRevision)
    PROVE  StepMovesOn
  <1> DEFINE tr == LatestRevision
             t == active.turn
             n == turns[t]
  <1> USE DEF IndInv
  <1>1. PICK e \in Effects :
            \/ PrepareAllowed(k, rev, tr, e) \/ PrepareAsk(k, rev, tr, e)
            \/ ResolveAllow(k, rev, tr, e) \/ ResolveDeny(k, rev, tr, e)
            \/ StartEffect(k, rev, tr, e) \/ ObserveEffect(k, rev, tr, e)
            \/ UnknownEffect(k, rev, tr, e)
            \/ ReconcileUnknownEffect(k, rev, tr, e)
    BY DEF CommitEffect
  <1>2. CASE ReconcileUnknownEffect(k, rev, tr, e)
    BY <1>2, ReconcileMovesOn
  <1>3. CASE ~ReconcileUnknownEffect(k, rev, tr, e)
    <2>1. FencedActive(k, rev, t, tr)
      BY <1>1, <1>3
         DEF PrepareAllowed, PrepareAsk, ResolveAllow, ResolveDeny, StartEffect,
             ObserveEffect, UnknownEffect
    <2>2. n \in TurnRecord
      BY <2>1, FencedFacts
    <2> HIDE DEF n, tr
    <2>3. /\ RequestPermission(n, e) \in TurnRecord
          /\ AllowPermission(n) \in TurnRecord
          /\ DenyPermission(n) \in TurnRecord
          /\ Interrupt(Cancel(n)) \in TurnRecord
      BY <2>2, RequestPermissionFields, AllowPermissionFields,
         DenyPermissionFields, InterruptFields
    <2>4. CASE PrepareAllowed(k, rev, tr, e) \/ StartEffect(k, rev, tr, e)
               \/ ObserveEffect(k, rev, tr, e)
      BY <2>1, <2>2, <2>4, ActiveCommitMovesOn
         DEF PrepareAllowed, StartEffect, ObserveEffect, n
    <2>5. CASE PrepareAsk(k, rev, tr, e) \/ ResolveAllow(k, rev, tr, e)
               \/ ResolveDeny(k, rev, tr, e) \/ UnknownEffect(k, rev, tr, e)
      BY <2>1, <2>3, <2>5, ActiveCommitMovesOn
         DEF PrepareAsk, ResolveAllow, ResolveDeny, UnknownEffect, n
    <2> QED BY <1>1, <1>3, <2>4, <2>5
  <1> QED BY <1>2, <1>3

(* Every step of the ledger. *)
LEMMA NextMovesOn ==
    ASSUME IndInv, TokensIssued, [Next]_vars
    PROVE  [StepMovesOn]_vars
  <1> USE DEF IndInv
  <1>1. CASE Acquire
    BY <1>1, LeaseMovesOn DEF Acquire, ledger
  <1>2. CASE Expire
    BY <1>2, LeaseMovesOn DEF Expire, ledger, TypeOK
  <1>3. CASE CreateSessionFork
    BY <1>3, LeaseMovesOn DEF CreateSessionFork, TurnInv, Chronology
  <1>4. CASE RecoverAt
    <2>1. turns[active.turn].token \in Nat
      BY <1>4, BoundsAssumption DEF RecoverAt, TypeOK, TurnRecord, Turns
    <2> QED BY <1>4, <2>1, RecoveryMovesOn DEF RecoverAt
  <1>5. ASSUME NEW k \in Tokens,
               \/ Commit(k)
               \/ RecoverAfterLeaseLoss(k, LatestRevision)
               \/ ReleaseLease(k)
        PROVE  StepMovesOn
    <2>0. k \in Nat \ {0}
      BY DEF Tokens, TypeOK
    <2>1. CASE SwitchSessionBinding(k, rev)
      BY <2>1, LeaseMovesOn DEF SwitchSessionBinding, TypeOK
    <2>2. CASE Commit(k) /\ ~SwitchSessionBinding(k, rev)
      BY <2>0, <2>2, CreateMovesOn, TurnCommitMovesOn, EffectCommitMovesOn
         DEF Commit
    <2>3. CASE RecoverAfterLeaseLoss(k, LatestRevision)
      BY <2>0, <2>3, RecoveryMovesOn DEF RecoverAfterLeaseLoss
    <2>4. CASE ReleaseAbandoned(k)
      BY <2>0, <2>4, RecoveryMovesOn DEF ReleaseAbandoned, DeleteLease
    <2>5. CASE ReleaseQuiesced(k)
      BY <2>0, <2>5, QuiesceMovesOn
    <2>6. CASE ReleaseIdle(k)
      BY <2>6, LeaseMovesOn DEF ReleaseIdle, DeleteLease, ledger
    <2> QED BY <1>5, <2>1, <2>2, <2>3, <2>4, <2>5, <2>6 DEF ReleaseLease
  <1> QED BY <1>1, <1>2, <1>3, <1>4, <1>5 DEF Next

LEMMA TokensInit == Init => TokensIssued
  <1>1. NoEffect.digest.token = 0 /\ NoPermission.token = 0
    BY DEF NoEffect, NoPermission, Digest
  <1>2. ASSUME Init, NEW e \in Effects
        PROVE  effects[e] = NoEffect /\ perms[e] = NoPermission /\ epoch = 0
    BY <1>2 DEF Init
  <1>3. ASSUME Init, NEW e \in Effects
        PROVE  effects[e].digest.token = 0 /\ perms[e].token = 0 /\ epoch = 0
    BY <1>1, <1>2, <1>3, Zenon
  <1>4. ASSUME Init, NEW e \in Effects
        PROVE  effects[e].digest.token <= epoch /\ perms[e].token <= epoch
    BY <1>3, <1>4
  <1> QED BY <1>4 DEF TokensIssued

(* No token is written before it is issued. *)
LEMMA TokensInvariant == Spec => [](IndInv /\ TokensIssued)
  <1>1. IndInv /\ TokensIssued /\ [Next]_vars => (IndInv /\ TokensIssued)'
    BY NextInv, NextTokens
  <1> QED BY <1>1, TokensInit, InitInv, PTL DEF Spec

(* Authority never returns to an older coordinator, no change escapes the
   compare-and-swap on the revision, and a finished turn stays finished. *)
THEOREM FencingSafety == Spec => CommitsAreFenced
  <1>1. [StepMovesOn]_vars =>
            /\ [AuthorityMovesOn]_vars
            /\ [RevisionMovesOn]_vars
            /\ [\A t \in Turns : FinishedStays(t)]_vars
    BY DEF StepMovesOn
  <1>2. IndInv /\ TokensIssued /\ [Next]_vars => [StepMovesOn]_vars
    BY NextMovesOn
  <1> QED BY <1>1, <1>2, TokensInvariant, PTL
          DEF Spec, CommitsAreFenced, FencingMonotonic, ChangesMoveRevision,
              FinishedTurnsStay

(* Whoever takes over after a crash finds what the owner left. *)
THEOREM RecoverySafety == Spec => []InFlightIsRecoverable
  <1>1. IndInv => InFlightIsRecoverable
    BY DEF IndInv, TurnInv, EffectInv, InFlightIsRecoverable
  <1> QED BY <1>1, Invariance, PTL

-----------------------------------------------------------------------------
(* The refinement of EffectLedger *)

(* The other effects are left alone by the step. *)
OthersStay(e) ==
    \A f \in Effects \ {e} :
        effects'[f] = effects[f] /\ (f \in consent' <=> f \in consent)

(* A step that changes one row is a step of the abstract ledger. *)
LEMMA Becomes ==
    ASSUME NEW e \in Effects, NEW s, OthersStay(e),
           StateOf(effects'[e], e \in consent') = s
    PROVE  Ledger!Become(e, s)
  <1>1. ASSUME NEW f \in Effects \ {e}
        PROVE  EffectState(f)' = EffectState(f)
    BY <1>1 DEF OthersStay, EffectState, StateOf
  <1>2. EffectState(e)' = s
    BY DEF EffectState
  <1> QED BY <1>1, <1>2 DEF Ledger!Become

(* A step that changes no row is a stutter of the abstract ledger. *)
LEMMA Stutters ==
    ASSUME \A f \in Effects : effects'[f] = effects[f], UNCHANGED consent
    PROVE  UNCHANGED [e \in Effects |-> EffectState(e)]
  <1>1. ASSUME NEW f \in Effects PROVE EffectState(f)' = EffectState(f)
    BY <1>1 DEF EffectState
  <1> QED BY <1>1

(* In a running session with no effect started, nothing runs or is in doubt. *)
LEMMA QuietWhenRunning ==
    ASSUME IndInv, life = "running",
           \A f \in Effects : effects[f].status # "started"
    PROVE  Ledger!Quiet
  <1>1. ASSUME NEW f \in Effects
        PROVE  EffectState(f) \notin {"running", "unknown", "acknowledged"}
    <2>1. /\ effects[f] \in EffectRecord
          /\ effects[f].status # "unknown"
          /\ effects[f].outcome # "acknowledged"
          /\ effects[f].status # "started"
      BY DEF IndInv, TypeOK, EffectInv, ReconciliationMatchesUnknown,
             EffectWellFormed
    <2> QED BY <2>1 DEF EffectState, StateOf, EffectRecord, EffectStatus
  <1> QED BY <1>1 DEF Ledger!Quiet

(* PrepareEffect proposes. *)
LEMMA ProposeStep ==
    ASSUME IndInv, NEW k \in Nat \ {0}, NEW tr, NEW e \in Effects, NothingInFlight,
           PrepareAllowed(k, rev, tr, e) \/ PrepareAsk(k, rev, tr, e)
    PROVE  Ledger!Next
  <1> DEFINE t == active.turn
  <1> USE DEF IndInv
  <1>1. /\ life = "running" /\ effects[e].status = "absent"
        /\ e \notin consent /\ consent' = consent
    <2>1. FencedActive(k, rev, t, tr) /\ turns[t].status = "running"
          /\ effects[e].status = "absent" /\ consent' = consent
      BY DEF PrepareAllowed, PrepareAsk, CanRequestPermission
    <2> QED BY <2>1, FencedFacts DEF EffectInv, EffectWellFormed
  <1>2. Ledger!Quiet
    BY <1>1, RestFacts, QuietWhenRunning DEF AtRest
  <1>3. EffectState(e) = "new"
    BY <1>1 DEF EffectState, StateOf
  <1>4. OthersStay(e)
    BY <1>1 DEF PrepareAllowed, PrepareAsk, OthersStay, TypeOK
  <1>5. CASE PrepareAllowed(k, rev, tr, e)
    <2>1. effects'[e] = Prepared(t, "allow", Digest(tr, k))
      BY <1>5 DEF PrepareAllowed, TypeOK
    <2>2. StateOf(effects'[e], e \in consent') = "authorized"
      BY <2>1 DEF StateOf, Prepared
    <2> QED BY <1>2, <1>3, <1>4, <2>2, Becomes DEF Ledger!Next, Ledger!Propose
  <1>6. CASE PrepareAsk(k, rev, tr, e)
    <2>1. effects'[e] = Prepared(t, "ask", Digest(tr + 2, k))
      BY <1>6 DEF PrepareAsk, TypeOK
    <2>2. StateOf(effects'[e], e \in consent') = "asked"
      BY <1>1, <2>1 DEF StateOf, Prepared
    <2> QED BY <1>2, <1>3, <1>4, <2>2, Becomes DEF Ledger!Next, Ledger!Propose
  <1> QED BY <1>5, <1>6

(* ResolvePermission, allowed, grants. *)
LEMMA GrantStep ==
    ASSUME IndInv, NEW k \in Nat \ {0}, NEW tr, NEW e \in Effects,
           ResolveAllow(k, rev, tr, e)
    PROVE  Ledger!Next
  <1> DEFINE t == active.turn
  <1> USE DEF IndInv
  <1>1. /\ life = "waiting_permission" /\ effects[e].status = "prepared"
        /\ turns[t].permission = e
    BY FencedFacts DEF ResolveAllow, CanResolvePermission
  <1>2. effects[e].policy = "ask" /\ e \notin consent
    BY <1>1 DEF EffectInv, PermissionCanBeResolved, PreparedIsCurrent
  <1>3. EffectState(e) = "asked"
    BY <1>1, <1>2 DEF EffectState, StateOf
  <1>4. OthersStay(e)
    BY DEF ResolveAllow, OthersStay, TypeOK
  <1>5. effects'[e].status = "prepared" /\ e \in consent'
    BY <1>1 DEF ResolveAllow, TypeOK, EffectRecord
  <1>6. StateOf(effects'[e], e \in consent') = "authorized"
    BY <1>5 DEF StateOf
  <1> QED BY <1>3, <1>4, <1>6, Becomes DEF Ledger!Next, Ledger!Grant

(* StartEffect begins. *)
LEMMA BeginStep ==
    ASSUME IndInv, NEW k \in Nat \ {0}, NEW tr, NEW e \in Effects,
           StartEffect(k, rev, tr, e)
    PROVE  Ledger!Next
  <1> DEFINE t == active.turn
  <1> USE DEF IndInv
  <1>1. /\ life = "running" /\ t \in Turns /\ effects[e].turn = t
        /\ effects[e].status = "prepared" /\ consent' = consent
    BY FencedFacts DEF StartEffect
  <1>2. \A f \in Effects : effects[f].status # "started"
    BY <1>1 DEF EffectInv, StartedIsWatched, OneInFlight, Turns
  <1>3. Ledger!Quiet
    BY <1>1, <1>2, QuietWhenRunning
  <1>4. effects[e].policy = "ask" => e \in consent
    BY <1>1 DEF EffectInv, PreparedIsCurrent
  <1>5. EffectState(e) = "authorized"
    BY <1>1, <1>4 DEF EffectState, StateOf
  <1>6. OthersStay(e)
    BY <1>1 DEF StartEffect, OthersStay, TypeOK
  <1>7. effects'[e].status = "started"
    BY <1>1 DEF StartEffect, TypeOK, EffectRecord
  <1>8. StateOf(effects'[e], e \in consent') = "running"
    BY <1>7 DEF StateOf
  <1> QED BY <1>3, <1>5, <1>6, <1>8, Becomes DEF Ledger!Next, Ledger!Begin

(* A write that ends a row: what the new status and outcome say of it decides
   which step of the abstract ledger this is. *)
LEMMA ClosingStep ==
    ASSUME IndInv, NEW e \in Effects, NEW s \in EffectStatus, NEW o \in Outcome,
           OthersStay(e), consent' = consent, effects'[e] = Closed(e, s, o),
           \/ /\ effects[e].status = "prepared"
              /\ s = "observed_failed" /\ o = "never_started"
           \/ /\ effects[e].status = "started"
              /\ s \in {"observed_success", "observed_failed"} /\ o = "observed"
           \/ /\ effects[e].status = "started"
              /\ s = "unknown"
           \/ /\ effects[e].status = "unknown"
              /\ s = "observed_failed" /\ o = "acknowledged"
    PROVE  Ledger!Next
  <1> USE DEF IndInv
  <1>1. effects'[e].status = s /\ effects'[e].outcome = o
    BY ClosedFields
  <1>2. CASE effects[e].status = "prepared"
    <2>1. EffectState(e) \in {"asked", "authorized"}
      BY <1>2 DEF EffectState, StateOf
    <2>2. StateOf(effects'[e], e \in consent') = "void"
      BY <1>1, <1>2 DEF StateOf
    <2> QED BY <2>1, <2>2, Becomes DEF Ledger!Next, Ledger!Void
  <1>3. CASE effects[e].status = "started"
    <2>1. EffectState(e) = "running"
      BY <1>3 DEF EffectState, StateOf
    <2>2. StateOf(effects'[e], e \in consent') \in {"done", "unknown"}
      BY <1>1, <1>3 DEF StateOf
    <2> QED BY <2>1, <2>2, Becomes DEF Ledger!Next, Ledger!End, Ledger!Lose
  <1>4. CASE effects[e].status = "unknown"
    <2>1. EffectState(e) = "unknown"
      BY <1>4 DEF EffectState, StateOf
    <2>2. StateOf(effects'[e], e \in consent') = "acknowledged"
      BY <1>1, <1>4 DEF StateOf
    <2> QED BY <2>1, <2>2, Becomes DEF Ledger!Next, Ledger!Acknowledge
  <1> QED BY <1>2, <1>3, <1>4

(* Nothing is changed, or one row is closed by the two rules of recovery: a
   prepared effect never ran, a started one may have. *)
LEMMA LostStep ==
    ASSUME IndInv, NEW t, consent' = consent,
           \A e \in Effects :
              effects'[e] = IF e \in OfTurn(t, "prepared")
                            THEN Closed(e, "observed_failed", "never_started")
                            ELSE IF e \in OfTurn(t, "started")
                            THEN Closed(e, "unknown", "uncertain")
                            ELSE effects[e],
           t = active.turn, t # 0
    PROVE  Ledger!Next \/ UNCHANGED [e \in Effects |-> EffectState(e)]
  <1> USE DEF IndInv
  <1>1. CASE OfTurn(t, "prepared") \cup OfTurn(t, "started") = {}
    BY <1>1, Stutters
  <1>2. CASE OfTurn(t, "prepared") \cup OfTurn(t, "started") # {}
    <2>1. PICK e \in Effects : e \in OfTurn(t, "prepared") \cup OfTurn(t, "started")
      BY <1>2 DEF OfTurn
    <2>2. OthersStay(e)
      BY <2>1 DEF OthersStay, OfTurn, EffectInv, OneInFlight
    <2>3. CASE e \in OfTurn(t, "prepared")
      BY <2>2, <2>3, ClosingStep DEF OfTurn, EffectStatus, Outcome
    <2>4. CASE e \in OfTurn(t, "started")
      <3>1. effects'[e] = Closed(e, "unknown", "uncertain")
        BY <2>4 DEF OfTurn
      <3> QED BY <2>2, <2>4, <3>1, ClosingStep DEF OfTurn, EffectStatus, Outcome
    <2> QED BY <2>1, <2>3, <2>4
  <1> QED BY <1>1, <1>2

(* The commits that end one effect. *)
LEMMA EndStep ==
    ASSUME IndInv, NEW k \in Nat \ {0}, NEW tr, NEW e \in Effects,
           \/ ResolveDeny(k, rev, tr, e) \/ ObserveEffect(k, rev, tr, e)
           \/ UnknownEffect(k, rev, tr, e)
           \/ ReconcileUnknownEffect(k, rev, tr, e)
    PROVE  Ledger!Next \/ UNCHANGED [f \in Effects |-> EffectState(f)]
  <1> USE DEF IndInv, EffectStatus, Outcome
  <1>1. ASSUME NEW s \in EffectStatus, NEW o \in Outcome,
               effects' = [effects EXCEPT ![e] = Closed(e, s, o)]
        PROVE  effects'[e] = Closed(e, s, o)
               /\ (consent' = consent => OthersStay(e))
    BY <1>1 DEF OthersStay, TypeOK
  <1>2. CASE ResolveDeny(k, rev, tr, e) /\ effects[e].status = "prepared"
    <2>1. /\ effects' = [effects EXCEPT ![e] =
                            Closed(e, "observed_failed", "never_started")]
          /\ consent' = consent
      BY <1>2 DEF ResolveDeny
    <2> QED BY <1>1, <1>2, <2>1, ClosingStep
  <1>3. CASE ResolveDeny(k, rev, tr, e) /\ effects[e].status # "prepared"
    BY <1>3, Stutters DEF ResolveDeny, TypeOK
  <1>4. CASE ObserveEffect(k, rev, tr, e)
    <2>1. PICK s \in {"observed_success", "observed_failed"} :
              effects' = [effects EXCEPT ![e] = Closed(e, s, "observed")]
      BY <1>4 DEF ObserveEffect
    <2>2. effects[e].status = "started" /\ consent' = consent
      BY <1>4 DEF ObserveEffect, OfTurn
    <2> QED BY <1>1, <2>1, <2>2, ClosingStep
  <1>5. CASE UnknownEffect(k, rev, tr, e)
    BY <1>1, <1>5, ClosingStep DEF UnknownEffect, OfTurn
  <1>6. CASE ReconcileUnknownEffect(k, rev, tr, e)
    BY <1>1, <1>6, ClosingStep DEF ReconcileUnknownEffect, OfTurn
  <1> QED BY <1>2, <1>3, <1>4, <1>5, <1>6

(* Cancelling a waiting turn voids what it waits for; interrupting a running
   one loses what it has started. *)
LEMMA InterruptStep ==
    ASSUME IndInv, NEW k \in Nat \ {0}, NEW tr,
           CancelWaiting(k, rev, tr) \/ InterruptRunning(k, rev, tr)
    PROVE  Ledger!Next \/ UNCHANGED [f \in Effects |-> EffectState(f)]
  <1> DEFINE t == active.turn
             p == turns[t].permission
  <1> USE DEF IndInv, EffectStatus, Outcome
  <1>1. CASE CancelWaiting(k, rev, tr)
    <2>1. /\ consent' = consent
          /\ \A f \in Effects :
                effects'[f] = IF f = p /\ f \in OfTurn(t, "prepared")
                              THEN Closed(f, "observed_failed", "never_started")
                              ELSE effects[f]
      BY <1>1 DEF CancelWaiting
    <2>2. CASE p \in OfTurn(t, "prepared")
      <3>1. p \in Effects /\ effects[p].status = "prepared"
        BY <2>2 DEF OfTurn
      <3>2. OthersStay(p)
        BY <2>1 DEF OthersStay
      <3> QED BY <2>1, <2>2, <3>1, <3>2, ClosingStep
    <2>3. CASE p \notin OfTurn(t, "prepared")
      BY <2>1, <2>3, Stutters
    <2> QED BY <2>2, <2>3
  <1>2. CASE InterruptRunning(k, rev, tr)
    <2>1. consent' = consent
      BY <1>2 DEF InterruptRunning
    <2>2. CASE effects' = effects
      BY <2>1, <2>2, Stutters
    <2>3. ASSUME NEW e \in OfTurn(t, "started"),
                 effects' = [effects EXCEPT ![e] = Closed(e, "unknown", "uncertain")]
          PROVE  Ledger!Next
      BY <2>1, <2>3, ClosingStep DEF OfTurn, OthersStay, TypeOK
    <2> QED BY <1>2, <2>2, <2>3 DEF InterruptRunning
  <1> QED BY <1>1, <1>2

(* Every commit is a step of the abstract ledger or leaves it alone. *)
LEMMA CommitStep ==
    ASSUME IndInv, NEW k \in Nat \ {0}, Commit(k)
    PROVE  Ledger!Next \/ UNCHANGED [f \in Effects |-> EffectState(f)]
  <1>1. CASE CreateStartedSession(k) \/ CreateStartedFollowUp(k, rev)
             \/ SwitchSessionBinding(k, rev)
    BY <1>1, Stutters
       DEF CreateStartedSession, CreateStartedFollowUp, SwitchSessionBinding,
           BeginTurn
  <1>2. CASE CommitTurn(k, rev, LatestRevision)
    <2>1. CASE UNCHANGED <<effects, consent>>
      BY <2>1, Stutters
    <2>2. CASE ~UNCHANGED <<effects, consent>>
      <3>1. CancelWaiting(k, rev, LatestRevision)
            \/ InterruptRunning(k, rev, LatestRevision)
        BY <1>2, <2>2
           DEF CommitTurn, AppendTranscript, AppendDetached,
               CommitRequestInput, CommitProvideInput, CommitComplete, CommitFail
      <3> QED BY <3>1, InterruptStep
    <2> QED BY <2>1, <2>2
  <1>3. CASE CommitEffect(k, rev, LatestRevision)
    BY <1>3, ProposeStep, GrantStep, BeginStep, EndStep DEF CommitEffect
  <1> QED BY <1>1, <1>2, <1>3 DEF Commit

(* So is every step of the ledger. *)
LEMMA LedgerStep ==
    IndInv /\ [Next]_vars =>
        [Ledger!Next]_([e \in Effects |-> EffectState(e)])
  <1> SUFFICES ASSUME IndInv, [Next]_vars
               PROVE  Ledger!Next \/ UNCHANGED [e \in Effects |-> EffectState(e)]
    OBVIOUS
  <1>1. CASE UNCHANGED <<effects, consent>>
    BY <1>1, Stutters
  <1>2. ASSUME NEW k, RecoverLinkedSessionTurn(k)
        PROVE  Ledger!Next \/ UNCHANGED [e \in Effects |-> EffectState(e)]
    BY <1>2, LostStep DEF RecoverLinkedSessionTurn, CanRecover
  <1>3. CASE RecoverAt
    BY <1>2, <1>3 DEF RecoverAt
  <1>4. ASSUME NEW k \in Tokens,
               \/ RecoverAfterLeaseLoss(k, LatestRevision)
               \/ ReleaseLease(k)
        PROVE  Ledger!Next \/ UNCHANGED [e \in Effects |-> EffectState(e)]
    <2>1. CASE RecoverAfterLeaseLoss(k, LatestRevision) \/ ReleaseAbandoned(k)
      BY <1>2, <2>1 DEF RecoverAfterLeaseLoss, ReleaseAbandoned
    <2>2. CASE ReleaseQuiesced(k) \/ ReleaseIdle(k)
      BY <1>1, <2>2 DEF ReleaseQuiesced, ReleaseIdle, ledger
    <2> QED BY <1>4, <2>1, <2>2 DEF ReleaseLease
  <1>5. ASSUME NEW k \in Tokens, Commit(k)
        PROVE  Ledger!Next \/ UNCHANGED [e \in Effects |-> EffectState(e)]
    BY <1>5, CommitStep DEF Tokens, IndInv, TypeOK
  <1>6. CASE Acquire \/ Expire \/ CreateSessionFork \/ UNCHANGED vars
    BY <1>1, <1>6 DEF Acquire, Expire, CreateSessionFork, ledger, vars
  <1> QED BY <1>3, <1>4, <1>5, <1>6 DEF Next

LEMMA LedgerInit == Init => Ledger!Init
  <1>1. NoEffect.status = "absent"
    BY DEF NoEffect
  <1>2. ASSUME Init, NEW e \in Effects PROVE EffectState(e) = "new"
    <2>1. effects[e] = NoEffect
      BY <1>2 DEF Init
    <2>2. effects[e].status = "absent"
      BY <1>1, <2>1, Zenon
    <2> QED BY <2>2 DEF EffectState, StateOf
  <1> QED BY <1>2 DEF Ledger!Init

(* The durable ledger keeps the promises of EffectLedger: an effect starts
   only when authorized, at most once and alone, and never after an outcome
   that is not known (StartEffect, recover_linked_session_turn). *)
THEOREM RefinesEffectLedger == Spec => ImplementsEffectLedger
  BY LedgerInit, LedgerStep, Invariance, PTL
     DEF Spec, ImplementsEffectLedger, Ledger!Spec
=============================================================================
