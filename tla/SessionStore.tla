---------------------------- MODULE SessionStore ----------------------------
(***************************************************************************)
(* The durable session ledger of latte-engine (storage.rs): one session,   *)
(* its turns, its effects and their permissions, and the scoped lease that *)
(* fences its writers.  One action is one IMMEDIATE SQLite transaction, so *)
(* it is atomic; everything around it interleaves.                         *)
(*                                                                         *)
(* The module is written against every client of the storage API: any      *)
(* token k ever issued may be presented at any time, by a live owner, a    *)
(* stalled one or one whose lease was taken over.  A commit also names the *)
(* session revision and the turn revision its caller last read (sr, tr); a *)
(* caller that read older values is rejected, so the actions of Next are   *)
(* taken with the current ones.                                            *)
(*                                                                         *)
(* One thing is assumed of the clients and checked of the real one by      *)
(* module SessionRuntime, which implements this specification: effects are *)
(* run one after the other (NothingInFlight).                              *)
(*                                                                         *)
(* Abstractions.  The owner of a session lease is a fresh UUID for every   *)
(* acquisition, so the fencing token alone identifies it.  Wall time is    *)
(* left out: a lease is live until Expire says it is not, and a renewal is *)
(* the absence of Expire.  An operation digest is a hash over descriptor,  *)
(* turn revision and lease, so it is modelled by the revision and token it *)
(* binds.  Transcript cards, events and command replays are the subject of *)
(* other modules.                                                          *)
(***************************************************************************)
EXTENDS TurnState

CONSTANTS MaxTurns,     \* bound: turns of the session
          MaxToken,     \* bound: leases ever issued
          MaxRevision   \* bound: session revision at which clients stop

ASSUME BoundsAssumption ==
    MaxTurns \in Nat /\ MaxToken \in Nat /\ MaxRevision \in Nat

VARIABLES life,      \* sessions.lifecycle ("absent": no such row)
          rev,       \* sessions.revision
          latest,    \* sessions.latest_turn_id (0: NULL)
          turns,     \* turns, by ordinal
          active,    \* session_active_turns: the turn (0: no row), its token
          effects,   \* effects
          perms,     \* pending_permissions
          lease,     \* runtime_lease of this session (token 0: no row)
          epoch,     \* runtime_lease_epoch.last_token
          consent    \* history: the effects whose execution the user allowed

ledger == <<life, rev, latest, turns, active, effects, perms, consent>>
vars == <<ledger, lease, epoch>>

Turns == 1 .. MaxTurns

Lifecycle == {"absent", "ready", "running", "waiting_permission",
              "waiting_input", "interrupted", "failed",
              "reconciliation_required"}

EffectStatus == {"absent", "prepared", "started", "observed_success",
                 "observed_failed", "unknown"}

(* What post_evidence_json says of the end of an effect. *)
Outcome == {"none", "observed", "never_started", "uncertain", "acknowledged"}

OperationDigest == [revision: Nat, token: Nat]
Digest(r, k) == [revision |-> r, token |-> k]

EffectRecord == [turn: 0 .. MaxTurns, status: EffectStatus,
                 policy: {"none", "allow", "ask"}, digest: OperationDigest,
                 outcome: Outcome]

PermissionRecord == [state: {"absent", "pending", "consumed"}, revision: Nat,
                     token: Nat, digest: OperationDigest]

NoActive == [turn |-> 0, token |-> 0]
NoEffect == [turn |-> 0, status |-> "absent", policy |-> "none",
             digest |-> Digest(0, 0), outcome |-> "none"]
NoPermission == [state |-> "absent", revision |-> 0, token |-> 0,
                 digest |-> Digest(0, 0)]

TypeOK ==
    /\ life \in Lifecycle
    /\ rev \in Nat
    /\ latest \in 0 .. MaxTurns
    /\ turns \in [Turns -> TurnRecord]
    /\ active \in [turn: 0 .. MaxTurns, token: Nat]
    /\ effects \in [Effects -> EffectRecord]
    /\ perms \in [Effects -> PermissionRecord]
    /\ lease \in [token: Nat, live: BOOLEAN]
    /\ epoch \in Nat
    /\ consent \subseteq Effects

Init ==
    /\ life = "absent"
    /\ rev = 0
    /\ latest = 0
    /\ turns = [t \in Turns |-> NoTurn]
    /\ active = NoActive
    /\ effects = [e \in Effects |-> NoEffect]
    /\ perms = [e \in Effects |-> NoPermission]
    /\ lease = [token |-> 0, live |-> FALSE]
    /\ epoch = 0
    /\ consent = {}

-----------------------------------------------------------------------------
(* Leases *)

(* The authority test every commit repeats inside its transaction. *)
Live(k) == lease.token = k /\ lease.live

(* A fault, for comparison: the token is derived from the lease row, which a
   release deletes, instead of from the epoch. *)
AcquireFromRow ==
    /\ epoch < MaxToken
    /\ ~lease.live
    /\ epoch' = epoch + 1
    /\ lease' = [token |-> lease.token + 1, live |-> TRUE]
    /\ UNCHANGED ledger

(* acquire_session_lease: refused while a lease is live, otherwise the next
   token of the epoch that all sessions share. *)
Acquire ==
    /\ epoch < MaxToken
    /\ ~lease.live
    /\ epoch' = epoch + 1
    /\ lease' = [token |-> epoch + 1, live |-> TRUE]
    /\ UNCHANGED ledger

(* expires_at_ms passes without a renewal. *)
Expire ==
    /\ lease.live
    /\ lease' = [lease EXCEPT !.live = FALSE]
    /\ UNCHANGED <<ledger, epoch>>

-----------------------------------------------------------------------------
(* Recovery of a turn whose coordinator is gone *)

OfTurn(t, s) == {e \in Effects : effects[e].turn = t /\ effects[e].status = s}

Closed(e, s, o) == [effects[e] EXCEPT !.status = s, !.outcome = o]

(* The preconditions of recover_linked_session_turn: the active row and the
   turn both still carry the stale token k. *)
CanRecover(k) ==
    /\ active.turn # 0
    /\ active.token = k
    /\ turns[active.turn].token = k
    /\ turns[active.turn].status \notin Terminal

(* A fault, for comparison: recovery that forgets the started effects when it
   picks the lifecycle. *)
RecoverAsInterrupted(k) ==
    LET t == active.turn IN
    /\ CanRecover(k)
    /\ effects' = [e \in Effects |->
                      IF e \in OfTurn(t, "started")
                      THEN Closed(e, "unknown", "uncertain") ELSE effects[e]]
    /\ turns' = [turns EXCEPT ![t] = Advance(@, "interrupted")]
    /\ active' = NoActive
    /\ rev' = rev + 1
    /\ life' = "interrupted"
    /\ UNCHANGED <<latest, perms, consent>>

(* A prepared effect never ran; a started one may have. *)
RecoverLinkedSessionTurn(k) ==
    LET t == active.turn IN
    /\ CanRecover(k)
    /\ perms' = [e \in Effects |->
                    IF effects[e].turn = t /\ perms[e].state = "pending"
                    THEN [perms[e] EXCEPT !.state = "consumed"] ELSE perms[e]]
    /\ effects' = [e \in Effects |->
                      IF e \in OfTurn(t, "prepared")
                      THEN Closed(e, "observed_failed", "never_started")
                      ELSE IF e \in OfTurn(t, "started")
                      THEN Closed(e, "unknown", "uncertain")
                      ELSE effects[e]]
    /\ turns' = [turns EXCEPT ![t] =
                    [Advance(@, "interrupted") EXCEPT !.permission = None,
                                                      !.input = FALSE]]
    /\ active' = NoActive
    /\ rev' = rev + 1
    /\ life' = IF OfTurn(t, "started") = {} THEN "interrupted"
               ELSE "reconciliation_required"
    /\ latest' = t
    /\ UNCHANGED consent

(* recover_session_after_lease_loss: a coordinator whose renewal failed. *)
RecoverAfterLeaseLoss(k, tr) ==
    /\ ~Live(k)
    /\ CanRecover(k)
    /\ turns[active.turn].revision = tr
    /\ RecoverLinkedSessionTurn(k)
    /\ UNCHANGED <<lease, epoch>>

(* A fault, for comparison: a sweep that passes over waiting turns. *)
RecoverRunningOnly ==
    /\ active.turn # 0
    /\ turns[active.turn].status = "running"
    /\ ~Live(turns[active.turn].token)
    /\ RecoverLinkedSessionTurn(turns[active.turn].token)
    /\ UNCHANGED <<lease, epoch>>

(* recover_at: startup and the periodic sweeper, for a turn that is owned
   (token # 0) by a lease that is not live. *)
RecoverAt ==
    /\ active.turn # 0
    /\ turns[active.turn].token # 0
    /\ ~Live(turns[active.turn].token)
    /\ RecoverLinkedSessionTurn(turns[active.turn].token)
    /\ UNCHANGED <<lease, epoch>>

-----------------------------------------------------------------------------
(* release_lease: SessionLeaseGuard::drop.  The row is deleted by token,
   expired or not; the three actions are its three outcomes. *)

Waiting == {"waiting_permission", "waiting_input"}

DeleteLease(k) ==
    /\ k # 0
    /\ lease.token = k
    /\ lease' = [token |-> 0, live |-> FALSE]
    /\ UNCHANGED epoch

(* A durable wait is a clean stop: the turn keeps no writer. *)
ReleaseQuiesced(k) ==
    /\ CanRecover(k)
    /\ turns[active.turn].status \in Waiting
    /\ turns' = [turns EXCEPT ![active.turn].token = 0]
    /\ active' = [active EXCEPT !.token = 0]
    /\ DeleteLease(k)
    /\ UNCHANGED <<life, rev, latest, effects, perms, consent>>

(* Leaving a running turn behind is treated as a crash. *)
ReleaseAbandoned(k) ==
    /\ CanRecover(k)
    /\ turns[active.turn].status \notin Waiting
    /\ RecoverLinkedSessionTurn(k)
    /\ DeleteLease(k)

ReleaseIdle(k) ==
    /\ ~CanRecover(k)
    /\ DeleteLease(k)
    /\ UNCHANGED ledger

ReleaseLease(k) ==
    ReleaseQuiesced(k) \/ ReleaseAbandoned(k) \/ ReleaseIdle(k)

-----------------------------------------------------------------------------
(* Sessions and turns *)

BeginTurn(k, t) ==
    /\ turns' = [turns EXCEPT ![t] = [Start(Queued) EXCEPT !.token = k]]
    /\ active' = [turn |-> t, token |-> k]
    /\ latest' = t
    /\ life' = "running"
    /\ UNCHANGED <<effects, perms, consent, lease, epoch>>

(* create_session_v2_inner with a lease. *)
CreateStartedSession(k) ==
    /\ Live(k)
    /\ life = "absent"
    /\ 1 \in Turns
    /\ rev' = 1
    /\ BeginTurn(k, 1)

(* create_session_fork: copies a history, owns no turn and needs no lease. *)
CreateSessionFork ==
    /\ life = "absent"
    /\ life' = "ready"
    /\ rev' = 0
    /\ UNCHANGED <<latest, turns, active, effects, perms, consent, lease,
                   epoch>>

AcceptsFollowUp(t) ==
    \/ t.status = "completed"
    \/ t.status = "failed" /\ t.failure \in {"retryable", "denied"}

(* A fault, for comparison: a follow-up accepted after any end of a turn. *)
FollowUpAnyway(k, sr) ==
    /\ Live(k)
    /\ rev = sr
    /\ life \in {"ready", "interrupted", "failed", "reconciliation_required"}
    /\ active.turn = 0
    /\ latest + 1 \in Turns
    /\ rev' = rev + 2
    /\ BeginTurn(k, latest + 1)

(* create_session_follow_up_v2_inner with a lease. *)
CreateStartedFollowUp(k, sr) ==
    /\ Live(k)
    /\ rev = sr
    /\ life = "ready"
    /\ active.turn = 0
    /\ latest # 0 => AcceptsFollowUp(turns[latest])
    /\ latest + 1 \in Turns
    /\ rev' = rev + 2
    /\ BeginTurn(k, latest + 1)

(* switch_session_binding_v2, to a binding that differs. *)
SwitchSessionBinding(k, sr) ==
    /\ Live(k)
    /\ rev = sr
    /\ life = "ready"
    /\ active.turn = 0
    /\ rev' = rev + 1
    /\ UNCHANGED <<life, latest, turns, active, effects, perms, consent, lease,
                   epoch>>

-----------------------------------------------------------------------------
(* commit_session_turn_update *)

(* The fences of a commit against turn t: lease, session revision, the
   tokens of the active row and of the turn, turn revision. *)
Fenced(k, sr, t, tr) ==
    /\ Live(k)
    /\ rev = sr
    /\ t # 0
    /\ turns[t].token <= k
    /\ turns[t].revision = tr

FencedActive(k, sr, t, tr) ==
    /\ active.turn = t
    /\ active.token <= k
    /\ Fenced(k, sr, t, tr)

(* A fault, for comparison: a tail that forgets the active row. *)

ConcludeKeepingRow(k, t, next, l) ==
    /\ turns' = [turns EXCEPT ![t] = [next EXCEPT !.token = k]]
    /\ life' = l
    /\ rev' = rev + 1
    /\ lease' = [lease EXCEPT !.live = FALSE]
    /\ UNCHANGED <<latest, active, epoch>>

(* The common tail of a commit that leaves the turn in flight ... *)
Proceed(k, t, next, l) ==
    /\ turns' = [turns EXCEPT ![t] = [next EXCEPT !.token = k]]
    /\ active' = IF active.turn = 0 THEN active
                 ELSE [active EXCEPT !.token = k]
    /\ life' = l
    /\ rev' = rev + 1
    /\ latest' = t
    /\ UNCHANGED <<lease, epoch>>

(* ... and of one that ends it: the lease is given up in the transaction. *)
Conclude(k, t, next, l) ==
    /\ turns' = [turns EXCEPT ![t] = [next EXCEPT !.token = k]]
    /\ active' = NoActive
    /\ life' = l
    /\ rev' = rev + 1
    /\ latest' = t
    /\ lease' = [lease EXCEPT !.live = FALSE]
    /\ UNCHANGED epoch

AppendTranscript(k, sr, tr) ==
    /\ FencedActive(k, sr, active.turn, tr)
    /\ Proceed(k, active.turn, turns[active.turn], life)
    /\ UNCHANGED <<effects, perms, consent>>

(* Queue audit of a finished session, compaction card of an idle one: the
   two appends that are let through without an active row. *)
AppendDetached(k, sr, tr) ==
    /\ active.turn = 0
    /\ life \in {"failed", "interrupted", "reconciliation_required", "ready"}
    /\ Fenced(k, sr, latest, tr)
    /\ Proceed(k, latest, turns[latest], life)
    /\ UNCHANGED <<effects, perms, consent>>

(* The row that PrepareEffect inserts. *)
Prepared(t, p, d) ==
    [turn |-> t, status |-> "prepared", policy |-> p, digest |-> d,
     outcome |-> "none"]

(* PrepareEffect under policy Allow: the marker in pre_evidence_json is the
   authorization. *)
PrepareAllowed(k, sr, tr, e) ==
    LET t == active.turn IN
    /\ FencedActive(k, sr, t, tr)
    /\ turns[t].status = "running"
    /\ effects[e].status = "absent"
    /\ effects' = [effects EXCEPT ![e] = Prepared(t, "allow", Digest(tr, k))]
    /\ Proceed(k, t, turns[t], life)
    /\ UNCHANGED <<perms, consent>>

(* Faults, for comparison: a permission bound to the revision of the waiting
   turn instead of the resolved one, and a permission that is recorded without
   the turn being made to wait for it. *)
PrepareAskEarly(k, sr, tr, e) ==
    LET t == active.turn
        d == Digest(tr + 1, k) IN
    /\ FencedActive(k, sr, t, tr)
    /\ CanRequestPermission(turns[t])
    /\ effects[e].status = "absent"
    /\ effects' = [effects EXCEPT ![e] = Prepared(t, "ask", d)]
    /\ perms' = [perms EXCEPT ![e] =
                    [state |-> "pending", revision |-> tr + 1, token |-> k,
                     digest |-> d]]
    /\ Proceed(k, t, RequestPermission(turns[t], e), "waiting_permission")
    /\ UNCHANGED consent

PrepareAskWithoutWait(k, sr, tr, e) ==
    LET t == active.turn
        d == Digest(tr, k) IN
    /\ FencedActive(k, sr, t, tr)
    /\ CanRequestPermission(turns[t])
    /\ effects[e].status = "absent"
    /\ effects' = [effects EXCEPT ![e] = Prepared(t, "ask", d)]
    /\ perms' = [perms EXCEPT ![e] =
                    [state |-> "pending", revision |-> tr, token |-> k,
                     digest |-> d]]
    /\ Proceed(k, t, turns[t], life)
    /\ UNCHANGED consent

(* PrepareEffect under policy Ask: digest and permission are bound to the
   revision the turn will have once the request is resolved. *)
PrepareAsk(k, sr, tr, e) ==
    LET t == active.turn
        d == Digest(tr + 2, k) IN
    /\ FencedActive(k, sr, t, tr)
    /\ CanRequestPermission(turns[t])
    /\ effects[e].status = "absent"
    /\ effects' = [effects EXCEPT ![e] = Prepared(t, "ask", d)]
    /\ perms' = [perms EXCEPT ![e] =
                    [state |-> "pending", revision |-> tr + 2, token |-> k,
                     digest |-> d]]
    /\ Proceed(k, t, RequestPermission(turns[t], e), "waiting_permission")
    /\ UNCHANGED consent

(* ResolvePermission, allowed: the single-use capability and the digest move
   to the resolving coordinator's epoch. *)
ResolveAllow(k, sr, tr, e) ==
    LET t == active.turn
        d == Digest(tr + 1, k) IN
    /\ FencedActive(k, sr, t, tr)
    /\ CanResolvePermission(turns[t], e)
    /\ perms[e].state = "pending"
    /\ effects[e].turn = t
    /\ effects[e].status = "prepared"
    /\ perms[e].revision = tr + 1
    /\ perms[e].digest = effects[e].digest
    /\ effects' = [effects EXCEPT ![e].digest = d]
    /\ perms' = [perms EXCEPT ![e].token = k, ![e].digest = d]
    /\ consent' = consent \cup {e}
    /\ Proceed(k, t, AllowPermission(turns[t]), "running")

(* ResolvePermission, denied: the turn ends, the conversation goes on. *)
ResolveDeny(k, sr, tr, e) ==
    LET t == active.turn IN
    /\ FencedActive(k, sr, t, tr)
    /\ CanResolvePermission(turns[t], e)
    /\ perms' = [perms EXCEPT ![e].state =
                    IF @ = "pending" THEN "consumed" ELSE @]
    /\ effects' = [effects EXCEPT ![e] =
                      IF effects[e].status = "prepared"
                      THEN Closed(e, "observed_failed", "never_started")
                      ELSE @]
    /\ Conclude(k, t, DenyPermission(turns[t]), "ready")
    /\ UNCHANGED consent

(* StartEffect: consume the permission, or rely on the allow marker, and
   record Started, all in one transaction and before anything runs. *)
StartEffect(k, sr, tr, e) ==
    LET t == active.turn IN
    /\ FencedActive(k, sr, t, tr)
    /\ turns[t].status = "running"
    /\ turns[t].permission = None
    /\ ~turns[t].input
    /\ effects[e].turn = t
    /\ effects[e].status = "prepared"
    /\ effects[e].digest = Digest(tr, k)
    /\ IF perms[e].state = "absent"
       THEN effects[e].policy = "allow" /\ UNCHANGED perms
       ELSE /\ perms[e].state = "pending"
            /\ perms[e].revision = tr
            /\ perms[e].token = k
            /\ perms' = [perms EXCEPT ![e].state = "consumed"]
    /\ effects' = [effects EXCEPT ![e].status = "started"]
    /\ Proceed(k, t, turns[t], life)
    /\ UNCHANGED consent

(* ObserveEffect, by the coordinator that holds the digest it started. *)
ObserveEffect(k, sr, tr, e) ==
    LET t == active.turn IN
    /\ FencedActive(k, sr, t, tr)
    /\ turns[t].status = "running"
    /\ e \in OfTurn(t, "started")
    /\ effects[e].digest = Digest(tr, k)
    /\ \E s \in {"observed_success", "observed_failed"} :
           effects' = [effects EXCEPT ![e] = Closed(e, s, "observed")]
    /\ Proceed(k, t, turns[t], life)
    /\ UNCHANGED <<perms, consent>>

(* UnknownEffect: cancelled after Started, or the executor is not sure. *)
UnknownEffect(k, sr, tr, e) ==
    LET t == active.turn IN
    /\ FencedActive(k, sr, t, tr)
    /\ e \in OfTurn(t, "started")
    /\ effects[e].digest = Digest(tr, k)
    /\ CanCancel(turns[t])
    /\ effects' = [effects EXCEPT ![e] = Closed(e, "unknown", "uncertain")]
    /\ Conclude(k, t, Interrupt(Cancel(turns[t])), "reconciliation_required")
    /\ UNCHANGED <<perms, consent>>

(* ReconcileUnknownEffect, on the recovered path: the branch for a turn that
   is still active cannot be taken (ReconciliationMatchesUnknown). *)
ReconcileUnknownEffect(k, sr, tr, e) ==
    /\ active.turn = 0
    /\ life = "reconciliation_required"
    /\ Fenced(k, sr, latest, tr)
    /\ e \in OfTurn(latest, "unknown")
    /\ turns[latest].status = "interrupted"
    /\ effects' = [effects EXCEPT ![e] =
                      Closed(e, "observed_failed", "acknowledged")]
    /\ Conclude(k, latest, Fail(turns[latest], "terminal"), "failed")
    /\ UNCHANGED <<perms, consent>>

CommitRequestInput(k, sr, tr) ==
    LET t == active.turn IN
    /\ FencedActive(k, sr, t, tr)
    /\ CanRequestInput(turns[t])
    /\ Proceed(k, t, RequestInput(turns[t]), "waiting_input")
    /\ UNCHANGED <<effects, perms, consent>>

CommitProvideInput(k, sr, tr) ==
    LET t == active.turn IN
    /\ FencedActive(k, sr, t, tr)
    /\ CanProvideInput(turns[t])
    /\ Proceed(k, t, ProvideInput(turns[t]), "running")
    /\ UNCHANGED <<effects, perms, consent>>

(* Complete and CompleteVerified. *)
CommitComplete(k, sr, tr) ==
    LET t == active.turn IN
    /\ FencedActive(k, sr, t, tr)
    /\ CanComplete(turns[t])
    /\ Conclude(k, t, Complete(turns[t], TRUE), "ready")
    /\ UNCHANGED <<effects, perms, consent>>

(* Fail: a retryable failure leaves the conversation usable. *)
CommitFail(k, sr, tr, class) ==
    LET t == active.turn IN
    /\ FencedActive(k, sr, t, tr)
    /\ CanFail(turns[t])
    /\ Conclude(k, t, Fail(turns[t], class),
                IF class = "retryable" THEN "ready" ELSE "failed")
    /\ UNCHANGED <<effects, perms, consent>>

(* Interrupt of a waiting turn: nothing has started, so it is cancelled. *)
CancelWaiting(k, sr, tr) ==
    LET t == active.turn
        p == turns[t].permission IN
    /\ FencedActive(k, sr, t, tr)
    /\ turns[t].status \in Waiting
    /\ perms' = [e \in Effects |->
                    IF e = p /\ effects[e].turn = t /\ perms[e].state = "pending"
                    THEN [perms[e] EXCEPT !.state = "consumed"] ELSE perms[e]]
    /\ effects' = [e \in Effects |->
                      IF e = p /\ e \in OfTurn(t, "prepared")
                      THEN Closed(e, "observed_failed", "never_started")
                      ELSE effects[e]]
    /\ Conclude(k, t, [Fail(turns[t], "cancelled") EXCEPT !.permission = None,
                                                          !.input = FALSE],
                "failed")
    /\ UNCHANGED consent

(* Interrupt of a running turn: a Started record means that the outcome of
   one effect is unknown. *)
InterruptRunning(k, sr, tr) ==
    LET t == active.turn
        next == Interrupt(Cancel(turns[t])) IN
    /\ FencedActive(k, sr, t, tr)
    /\ turns[t].status \notin Waiting
    /\ CanCancel(turns[t])
    /\ \/ /\ OfTurn(t, "started") = {}
          /\ UNCHANGED effects
          /\ Conclude(k, t, next, "interrupted")
       \/ \E e \in OfTurn(t, "started") :
             /\ effects' = [effects EXCEPT ![e] =
                               Closed(e, "unknown", "uncertain")]
             /\ Conclude(k, t, next, "reconciliation_required")
    /\ UNCHANGED <<perms, consent>>

-----------------------------------------------------------------------------
(* Any client, any token *)

(* What is assumed of a client: it closes the effect it has in hand before it
   prepares another, asks for input or finishes (execute_tool_batch awaits
   each call).  It may interrupt at any time. *)
NothingInFlight ==
    active.turn # 0 =>
        OfTurn(active.turn, "prepared") \cup OfTurn(active.turn, "started") = {}

CommitEffect(k, sr, tr) ==
    \E e \in Effects :
        \/ NothingInFlight /\ PrepareAllowed(k, sr, tr, e)
        \/ NothingInFlight /\ PrepareAsk(k, sr, tr, e)
        \/ ResolveAllow(k, sr, tr, e)
        \/ ResolveDeny(k, sr, tr, e)
        \/ StartEffect(k, sr, tr, e)
        \/ ObserveEffect(k, sr, tr, e)
        \/ UnknownEffect(k, sr, tr, e)
        \/ ReconcileUnknownEffect(k, sr, tr, e)

CommitTurn(k, sr, tr) ==
    \/ AppendTranscript(k, sr, tr)
    \/ AppendDetached(k, sr, tr)
    \/ NothingInFlight /\ CommitRequestInput(k, sr, tr)
    \/ CommitProvideInput(k, sr, tr)
    \/ NothingInFlight /\ CommitComplete(k, sr, tr)
    \/ \E class \in {"retryable", "terminal"} :
           NothingInFlight /\ CommitFail(k, sr, tr, class)
    \/ CancelWaiting(k, sr, tr)
    \/ InterruptRunning(k, sr, tr)

(* The turn revision a caller with an up-to-date snapshot presents. *)
LatestRevision == IF latest = 0 THEN 0 ELSE turns[latest].revision

Commit(k) ==
    /\ rev < MaxRevision
    /\ \/ CreateStartedSession(k)
       \/ CreateStartedFollowUp(k, rev)
       \/ SwitchSessionBinding(k, rev)
       \/ CommitTurn(k, rev, LatestRevision)
       \/ CommitEffect(k, rev, LatestRevision)

Tokens == 1 .. epoch

Next ==
    \/ Acquire
    \/ Expire
    \/ CreateSessionFork
    \/ RecoverAt
    \/ \E k \in Tokens : \/ Commit(k)
                         \/ RecoverAfterLeaseLoss(k, LatestRevision)
                         \/ ReleaseLease(k)

Spec == Init /\ [][Next]_vars

-----------------------------------------------------------------------------
(* Correctness *)

InFlight == {"running", "waiting_permission", "waiting_input"}

(* One truth about the session: the lifecycle column, the active row and the
   turn state, which different statements of a commit write, never disagree,
   and no turn but the active one is still going. *)
LifecycleAgrees ==
    /\ life \in InFlight <=> active.turn # 0
    /\ active.turn # 0 => /\ turns[active.turn].status = life
                          /\ latest = active.turn
    /\ life = "ready" /\ latest # 0 => AcceptsFollowUp(turns[latest])
    /\ \A t \in Turns : turns[t].status \in InFlight => t = active.turn

(* Recovery finds every turn it must: the token of the active row is the
   token of the turn (recover_linked_session_turn gives up otherwise), and a
   running turn has one (recover_at passes over token 0). *)
RecoveryCanFindTurn ==
    active.turn # 0 =>
        /\ active.token = turns[active.turn].token
        /\ life = "running" => active.token # 0

(* A turn that waits for permission waits for something that can be granted
   or denied: a prepared effect of that turn with an unconsumed permission,
   bound to the revision that the resolution produces. *)
PermissionCanBeResolved ==
    life = "waiting_permission" =>
        LET t == turns[active.turn]
            e == t.permission IN
        /\ e \in OfTurn(active.turn, "prepared")
        /\ effects[e].policy = "ask"
        /\ perms[e].state = "pending"
        /\ perms[e].revision = t.revision + 1
        /\ perms[e].digest = effects[e].digest

(* Nothing the policy asks about is ever started unless the user said yes,
   and one yes is good for one start. *)
StartedWithConsent ==
    \A e \in Effects :
        /\ effects[e].policy = "ask"
        /\ effects[e].status \in {"started", "unknown"}
           \/ effects[e].outcome \in {"observed", "acknowledged"}
        => e \in consent /\ perms[e].state = "consumed"

(* A started effect is always on the watch of a running turn, so a crash
   leaves it where recovery looks; there is one at a time. *)
StartedIsWatched ==
    \A e \in Effects : effects[e].status = "started" =>
        /\ life = "running"
        /\ effects[e].turn = active.turn
        /\ \A f \in Effects : effects[f].status = "started" => f = e

(* Whoever takes over after a crash finds what the owner left: the token that
   recovery looks for, a permission that can be resolved, and the effect that
   may have happened (recover_at, ResolvePermission). *)
InFlightIsRecoverable ==
    RecoveryCanFindTurn /\ PermissionCanBeResolved /\ StartedIsWatched

(* The session demands reconciliation exactly when the outcome of an effect is
   unknown, and acknowledging that one effect settles it: it belongs to the
   latest turn, which is interrupted, and no other outcome is unknown. *)
ReconciliationMatchesUnknown ==
    /\ life = "reconciliation_required" =>
           \E e \in Effects : effects[e].status = "unknown"
    /\ \A e \in Effects : effects[e].status = "unknown" =>
           /\ life = "reconciliation_required"
           /\ effects[e].turn = latest
           /\ turns[latest].status = "interrupted"
           /\ \A f \in Effects : effects[f].status = "unknown" => f = e

(* A new lease carries a token above every one written in the ledger, and the
   token on a turn only grows, or is cleared when a wait is parked. *)
AuthorityMovesOn ==
    /\ lease'.token \notin {0, lease.token} =>
           /\ \A t \in Turns : turns[t].token < lease'.token
           /\ \A e \in Effects : /\ effects[e].digest.token < lease'.token
                                 /\ perms[e].token < lease'.token
    /\ \A t \in Turns :
           \/ turns'[t].token >= turns[t].token
           \/ turns'[t].token = 0 /\ turns[t].status \in Waiting

(* The revision of the session grows, or nothing that a caller compares or
   relies on changes. *)
RevisionMovesOn ==
    \/ rev' > rev
    \/ /\ UNCHANGED <<rev, latest, effects, perms, active.turn>>
       /\ life' = life \/ life = "absent"
       /\ \A t \in Turns : turns'[t].revision = turns[t].revision

(* What turn t was when it ended, it is after the step. *)
FinishedStays(t) ==
    turns[t].status \in Terminal =>
        \/ turns'[t] = [turns[t] EXCEPT !.token = turns'[t].token]
        \/ /\ turns[t].status = "interrupted"
           /\ turns'[t].status = "failed"
           /\ \E e \in OfTurn(t, "unknown") :
                 effects'[e].outcome = "acknowledged"

(* Authority never goes back to an older coordinator: no digest and no
   capability of an earlier owner can match a new lease.  This is why the epoch
   outlives the lease row that a release deletes. *)
FencingMonotonic == [][AuthorityMovesOn]_vars

(* No lost update: whatever a commit's caller may have read (statuses of
   session, turns, effects and permissions) does not change without the
   session revision moving on, so a compare-and-swap on it is enough. *)
ChangesMoveRevision == [][RevisionMovesOn]_vars

(* A finished turn stays as it is; only an interrupted one may still become
   failed, when an unknown effect of it is acknowledged. *)
FinishedTurnsStay == [][\A t \in Turns : FinishedStays(t)]_vars

(* No commit undoes another: authority and revision only move on, and what is
   finished stays (the fences of commit_session_v2_inner). *)
CommitsAreFenced ==
    FencingMonotonic /\ ChangesMoveRevision /\ FinishedTurnsStay

(* The state of an effect as the abstract ledger sees it, from its row and
   whether the user has allowed it. *)
StateOf(r, allowed) ==
    CASE r.status = "absent" -> "new"
      [] r.status = "prepared" /\ r.policy = "ask" /\ ~allowed -> "asked"
      [] r.status = "prepared" /\ (r.policy # "ask" \/ allowed) -> "authorized"
      [] r.status = "started" -> "running"
      [] r.status = "unknown" -> "unknown"
      [] r.status \in {"observed_success", "observed_failed"} ->
            CASE r.outcome = "never_started" -> "void"
              [] r.outcome = "acknowledged" -> "acknowledged"
              [] OTHER -> "done"

EffectState(e) == StateOf(effects[e], e \in consent)

Ledger == INSTANCE EffectLedger WITH st <- [e \in Effects |-> EffectState(e)]

(* The ledger keeps the promises of EffectLedger: at most one start per
   effect, only when authorized, and nothing after an unknown outcome. *)
ImplementsEffectLedger == Ledger!Spec

(* A turn whose coordinator is gone does not stay in flight for ever. *)
Orphaned == active.turn # 0 /\ active.token # 0 /\ ~Live(active.token)
OrphanIsResolved == Orphaned ~> ~Orphaned
=============================================================================
