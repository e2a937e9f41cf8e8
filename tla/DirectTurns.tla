---------------------------- MODULE DirectTurns ----------------------------
(***************************************************************************)
(* The direct turn interface of the engine (latte-engine, lib.rs           *)
(* create_turn to permission_matches, execute_tool, reissue_tool_permission*)
(* process.rs execute_verification to execute_process_inner; storage.rs    *)
(* the same names): turns that no session owns, written by whoever holds   *)
(* the one lease of scope "runtime".                                       *)
(*                                                                         *)
(* A caller may use any lease it was ever given, in any order, from any    *)
(* process; a call the code refuses is a step that does not happen.  Time  *)
(* is kept only as far as the lease goes: Expire ends it.  A tool call     *)
(* checks every lease of the call against the time at which it began, a    *)
(* process call against the clock, and the two are told apart below.       *)
(***************************************************************************)
EXTENDS Naturals, Sequences, FiniteSets

CONSTANTS DirectIds,     \* the turns
          Holders,       \* lease owners, each a process with one operation permit
          Asked,         \* effect identifiers
          Operations,    \* what an effect may be: tool, input, target
          NoEffect,      \* no pending permission
          MaxFence,      \* bound: fencing tokens
          MaxSteps,      \* bound: revisions of a turn
          MaxTree        \* bound: versions of the workspace

ASSUME DirectAssumption ==
    /\ NoEffect \notin Asked
    /\ IsFiniteSet(Asked)
    /\ {MaxFence, MaxSteps, MaxTree} \subseteq Nat

VARIABLES dTurn,     \* turns, with the effect_epoch column
          dLease,    \* the runtime_lease row: owner, token, whether unexpired
          dEffect,   \* effects
          dGrant,    \* pending_permissions
          dProof,    \* evidence: the last row of each turn
          dCall,     \* for each owner, the execution in flight
          dTree,     \* the workspace, as a version
          issued,    \* leases handed out
          dLog       \* history: what was carried out, in the order it was started

directVars == <<dTurn, dLease, dEffect, dGrant, dProof, dCall, dTree, issued, dLog>>

T == INSTANCE TurnState WITH Effects <- Asked, None <- NoEffect

Leases == [owner : Holders, token : 1..MaxFence]

(* The approval digest binds the operation to the effect, the revision and the lease. *)
Bindings == [op : Operations, revision : 0..MaxSteps, lease : Leases]

Absent == [st |-> "absent"]
Free == [pc |-> "idle"]

DirectTypeOK ==
    /\ \A t \in DirectIds :
          /\ dTurn[t].state \in T!TurnRecord
          /\ dTurn[t].state.status \in T!Terminal => dTurn[t].state.permission = NoEffect
          /\ dTurn[t].epoch \in 0..Cardinality(Asked)
    /\ \A e \in Asked :
          /\ dEffect[e].st \in
               {"absent", "prepared", "started", "success", "failed", "unknown"}
          /\ dGrant[e].st # "absent" => dEffect[e].st # "absent"
          /\ dGrant[e].st = "open" => dEffect[e].st = "prepared"

DirectInit ==
    /\ dTurn = [t \in DirectIds |-> [state |-> T!NoTurn, epoch |-> 0]]
    /\ dLease = [owner |-> NoEffect, token |-> 0, live |-> FALSE]
    /\ dEffect = [e \in Asked |-> Absent]
    /\ dGrant = [e \in Asked |-> Absent]
    /\ dProof = [t \in DirectIds |-> Absent]
    /\ dCall = [o \in Holders |-> Free]
    /\ dTree = 0
    /\ issued = {}
    /\ dLog = <<>>

(* The row still names this lease; with the clock, it has not expired either. *)
Holds(l) == dLease.owner = l.owner /\ dLease.token = l.token
Authoritative(l) == Holds(l) /\ dLease.live

Rebound(turns, token) ==
    [t \in DirectIds |-> IF t \in turns THEN [dTurn[t] EXCEPT !.state.token = token] ELSE dTurn[t]]

(* An unconsumed row of pending_permissions for effect e of turn t *)
Open(e, t) == dGrant[e].st = "open" /\ dGrant[e].turn = t

(* Transition::RefreshPermission, which only this interface uses *)
CanRefreshPermission(s) == s.status = "waiting_permission"

(* Transition::Resume, which only this interface uses *)
CanResume(s) ==
    s.status = "interrupted" \/ (s.status = "failed" /\ s.failure = "retryable")
Resume(s) == [T!Advance(s, "queued") EXCEPT !.failure = "none"]

(* create_turn *)
CreateDirectTurn(t) ==
    /\ dTurn[t].state.status = "none"
    /\ dTurn' = [dTurn EXCEPT ![t].state = T!Queued]
    /\ UNCHANGED <<dLease, dEffect, dGrant, dProof, dCall, dTree, issued, dLog>>

(* acquire_scoped_lease of scope "runtime": the holder keeps its token, anyone *)
(* else waits for the row to expire; the named turn, or every queued one when  *)
(* none is named, is bound to the token.                                       *)
Acquire(o, turns) ==
    LET last == IF issued = {} THEN 0 ELSE CHOOSE k \in 1..MaxFence :
                   (\E l \in issued : l.token = k) /\ \A l \in issued : l.token <= k
        token == IF dLease.live THEN dLease.token ELSE last + 1
        queued == {t \in DirectIds : dTurn[t].state.status = "queued"} IN
    /\ dLease.live => dLease.owner = o
    /\ token <= MaxFence
    /\ \A t \in turns : dTurn[t].state.status # "none"
    /\ dLease' = [owner |-> o, token |-> token, live |-> TRUE]
    /\ issued' = issued \cup {[owner |-> o, token |-> token]}
    /\ dTurn' = Rebound(IF turns = {} THEN queued ELSE turns, token)
    /\ UNCHANGED <<dEffect, dGrant, dProof, dCall, dTree, dLog>>

Expire ==
    /\ dLease.live
    /\ dLease' = [dLease EXCEPT !.live = FALSE]
    /\ UNCHANGED <<dTurn, dEffect, dGrant, dProof, dCall, dTree, issued, dLog>>

(* release_lease, whose row may have expired meanwhile *)
Release(l) ==
    /\ Holds(l)
    /\ dLease' = [owner |-> NoEffect, token |-> 0, live |-> FALSE]
    /\ UNCHANGED <<dTurn, dEffect, dGrant, dProof, dCall, dTree, issued, dLog>>

(* apply_transition: any transition of the core but Complete, which is the engine's. *)
ApplyTransition(l, t) ==
    LET s == dTurn[t].state
        Become(n) == dTurn' = [dTurn EXCEPT ![t].state = [n EXCEPT !.token = l.token]] IN
    /\ Authoritative(l)
    /\ s.token <= l.token
    /\ s.revision < MaxSteps
    /\ \/ T!CanStart(s) /\ Become(T!Start(s))
       \/ \E e \in Asked :
             \/ T!CanRequestPermission(s) /\ Become(T!RequestPermission(s, e))
             \/ CanRefreshPermission(s) /\ Become(T!RequestPermission(s, e))
             \/ T!CanResolvePermission(s, e) /\ Become(T!AllowPermission(s))
             \/ T!CanResolvePermission(s, e) /\ Become(T!DenyPermission(s))
       \/ T!CanRequestInput(s) /\ Become(T!RequestInput(s))
       \/ T!CanProvideInput(s) /\ Become(T!ProvideInput(s))
       \/ T!CanCancel(s) /\ Become(T!Cancel(s))
       \/ T!CanInterrupt(s) /\ Become(T!Interrupt(s))
       \/ T!CanFail(s) /\ \E class \in {"retryable", "terminal"} : Become(T!Fail(s, class))
       \/ CanResume(s) /\ Become(Resume(s))
    /\ UNCHANGED <<dLease, dEffect, dGrant, dProof, dCall, dTree, issued, dLog>>

(* cancel_waiting: the question is withdrawn together with the effect it was about. *)
CancelWaiting(l, t, class) ==
    LET s == dTurn[t].state
        e == s.permission IN
    /\ Authoritative(l)
    /\ s.token <= l.token
    /\ s.revision < MaxSteps
    /\ s.status \in {"waiting_permission", "waiting_input"}
    /\ class = "denied" => s.status = "waiting_permission"
    /\ e # NoEffect => Open(e, t) /\ dEffect[e].st = "prepared"
    /\ dGrant' = [f \in Asked |-> IF f = e THEN Absent ELSE dGrant[f]]
    /\ dEffect' = [f \in Asked |-> IF f = e THEN [dEffect[f] EXCEPT !.st = "failed"] ELSE dEffect[f]]
    /\ dTurn' = [dTurn EXCEPT ![t].state =
                    [T!Fail(s, class) EXCEPT !.permission = NoEffect, !.input = FALSE, !.token = l.token]]
    /\ UNCHANGED <<dLease, dProof, dCall, dTree, issued, dLog>>

Monus(a, b) == IF a < b THEN 0 ELSE a - b

(* The two rows that create_prepared_permission and replace_pending_effect insert. *)
InsertRows(effects, grants, e, t, binding) ==
    /\ dEffect' = [effects EXCEPT ![e] = [st |-> "prepared", turn |-> t, binding |-> binding]]
    /\ dGrant' = [grants EXCEPT ![e] = [st |-> "open", turn |-> t, binding |-> binding]]

(* create_prepared_permission *)
CreatePrepared(l, t, e, binding, at) ==
    /\ dEffect[e] = Absent
    /\ Authoritative(l)
    /\ dTurn[t].state.status # "none"
    /\ dTurn[t].state.revision = at
    /\ dTurn[t].state.token = l.token
    /\ InsertRows(dEffect, dGrant, e, t, binding)
    /\ UNCHANGED <<dTurn, dLease, dProof, dTree, issued, dLog>>

(* execute_tool and execute_process_inner on Ask without a digest: the approval *)
(* is bound to the revision the turn will have once it was asked and answered.  *)
AskPermission(l, t, e, op, revision) ==
    /\ dCall[l.owner] = Free
    /\ CreatePrepared(l, t, e, [op |-> op, revision |-> revision, lease |-> l], Monus(revision, 2))
    /\ UNCHANGED dCall

(* execute_process_inner on Allow: the approval is the engine's own. *)
AllowProcess(l, t, e, op) ==
    LET binding == [op |-> op, revision |-> dTurn[t].state.revision, lease |-> l] IN
    /\ dCall[l.owner] = Free
    /\ CreatePrepared(l, t, e, binding, binding.revision)
    /\ dCall' = [dCall EXCEPT ![l.owner] =
                    [pc |-> "allowed", effect |-> e, turn |-> t, binding |-> binding, kind |-> "process"]]

(* replace_pending_effect, for an approval whose lease is no longer the one in force. *)
Reissue(l, t, old, new, op, revision) ==
    LET binding == [op |-> op, revision |-> revision, lease |-> l] IN
    /\ dEffect[new] = Absent
    /\ Authoritative(l)
    /\ dTurn[t].state.revision = Monus(revision, 2)
    /\ dTurn[t].state.token = l.token
    /\ Open(old, t)
    /\ dEffect[old].st = "prepared"
    /\ dGrant[old].binding.lease # l
    /\ InsertRows([dEffect EXCEPT ![old].st = "failed"], [dGrant EXCEPT ![old] = Absent], new, t, binding)
    /\ UNCHANGED <<dTurn, dLease, dProof, dCall, dTree, issued, dLog>>

(* A fault, for comparison: the row is found by effect and turn alone. *)
ConsumableByName(l, t, e, binding) ==
    /\ Open(e, t)
    /\ dTurn[t].state.revision = binding.revision
    /\ binding.lease = l
    /\ Authoritative(l)
    /\ dEffect[e].st = "prepared"
    /\ dTurn[t].state.token = l.token

(* consume_permission_and_start: approval, effect and epoch in one transaction. *)
Consumable(l, t, e, binding) ==
    /\ Open(e, t)
    /\ dGrant[e].binding = binding
    /\ dTurn[t].state.revision = binding.revision
    /\ binding.lease = l
    /\ Authoritative(l)
    /\ dEffect[e].st = "prepared"
    /\ dTurn[t].state.token = l.token

Consume(l, t, e, binding, kind) ==
    /\ Consumable(l, t, e, binding)
    /\ dGrant' = [dGrant EXCEPT ![e].st = "consumed"]
    /\ dEffect' = [dEffect EXCEPT ![e].st = "started"]
    /\ dTurn' = [dTurn EXCEPT ![t].epoch = @ + 1]
    /\ dCall' = [dCall EXCEPT ![l.owner] =
                    [pc |-> "running", effect |-> e, turn |-> t, binding |-> binding, kind |-> kind]]
    /\ dLog' = Append(dLog, [effect |-> e, turn |-> t, binding |-> binding])
    /\ UNCHANGED <<dLease, dProof, dTree, issued>>

(* execute_tool or execute_process with the digest of an approved call *)
ExecuteApproved(l, t, e, op, kind) ==
    /\ dCall[l.owner] = Free
    /\ Consume(l, t, e, [op |-> op, revision |-> dTurn[t].state.revision, lease |-> l], kind)

(* The second transaction of an allowed process, and its refusal. *)
StartAllowed(o) ==
    LET c == dCall[o] IN
    /\ c.pc = "allowed"
    /\ \/ Consume(c.binding.lease, c.turn, c.effect, c.binding, c.kind)
       \/ /\ ~Consumable(c.binding.lease, c.turn, c.effect, c.binding)
          /\ dCall' = [dCall EXCEPT ![o] = Free]
          /\ UNCHANGED <<dTurn, dLease, dEffect, dGrant, dProof, dTree, issued, dLog>>

(* The operation itself, which may change the workspace: it succeeds, it fails   *)
(* cleanly (a tool), or its outcome is in doubt (an I/O error, a cancellation,   *)
(* a supervision error).                                                         *)
Perform(o) ==
    LET c == dCall[o] IN
    /\ c.pc = "running"
    /\ \E result \in {"success", "failed", "unknown"}, tree \in {dTree, dTree + 1} :
          /\ tree <= MaxTree
          /\ result = "failed" => c.kind = "tool" /\ tree = dTree
          /\ dTree' = tree
          /\ dCall' = [dCall EXCEPT ![o] =
                [pc |-> "done", effect |-> c.effect, turn |-> c.turn, binding |-> c.binding,
                 kind |-> c.kind, result |-> result]]
    /\ UNCHANGED <<dTurn, dLease, dEffect, dGrant, dProof, issued, dLog>>

(* The fence of finish_effect and mark_effect_unknown: a tool's lease is checked *)
(* against the time its call began, a process's against the clock.  A process    *)
(* that was started as a verification goes on to its evidence.                   *)
MayReport(c) ==
    /\ dEffect[c.effect].st = "started"
    /\ IF c.kind = "tool" THEN Holds(c.binding.lease) ELSE Authoritative(c.binding.lease)
    /\ dTurn[c.turn].state.revision = c.binding.revision
    /\ dTurn[c.turn].state.token = c.binding.lease.token

Report(o) ==
    LET c == dCall[o] IN
    /\ c.pc = "done"
    /\ dEffect' = IF MayReport(c) THEN [dEffect EXCEPT ![c.effect].st = c.result] ELSE dEffect
    /\ \/ dCall' = [dCall EXCEPT ![o] = Free]
       \/ /\ MayReport(c) /\ c.kind = "process" /\ c.result = "success"
          /\ dCall' = [dCall EXCEPT ![o].pc = "measure"]
    /\ UNCHANGED <<dTurn, dLease, dGrant, dProof, dTree, issued, dLog>>

(* execute_verification: whether the command passed, then the epoch and the *)
(* manifest, read before the evidence is written                            *)
Measure(o) ==
    LET c == dCall[o] IN
    /\ c.pc = "measure"
    /\ \E passed \in BOOLEAN :
          dCall' = [dCall EXCEPT ![o] =
             [pc |-> "record", effect |-> c.effect, turn |-> c.turn, binding |-> c.binding,
              passed |-> passed, epoch |-> dTurn[c.turn].epoch, tree |-> dTree]]
    /\ UNCHANGED <<dTurn, dLease, dEffect, dGrant, dProof, dTree, issued, dLog>>

(* record_verification_evidence *)
Recordable(c) ==
    /\ Holds(c.binding.lease)
    /\ dTurn[c.turn].state.revision = c.binding.revision
    /\ dTurn[c.turn].state.token = c.binding.lease.token
    /\ dTurn[c.turn].epoch = c.epoch

RecordEvidence(o) ==
    LET c == dCall[o] IN
    /\ c.pc = "record"
    /\ dProof' = IF Recordable(c)
                 THEN [dProof EXCEPT ![c.turn] =
                         [st |-> "recorded", effect |-> c.effect, passed |-> c.passed, tree |-> c.tree,
                          epoch |-> c.epoch, revision |-> c.binding.revision]]
                 ELSE dProof
    /\ dCall' = [dCall EXCEPT ![o] = Free]
    /\ UNCHANGED <<dTurn, dLease, dEffect, dGrant, dTree, issued, dLog>>

(* complete_verified; Verification models the reading of the manifest step by step. *)
Current(t) ==
    /\ dProof[t].st = "recorded"
    /\ dProof[t].revision = dTurn[t].state.revision
    /\ dProof[t].epoch = dTurn[t].epoch
    /\ dProof[t].passed
    /\ dProof[t].tree = dTree

CompleteVerified(l, t) ==
    /\ dCall[l.owner] = Free
    /\ Authoritative(l)
    /\ dTurn[t].state.token <= l.token
    /\ dTurn[t].state.revision < MaxSteps
    /\ Current(t)
    /\ T!CanComplete(dTurn[t].state)
    /\ dTurn' = [dTurn EXCEPT ![t].state = [T!Complete(@, TRUE) EXCEPT !.token = l.token]]
    /\ UNCHANGED <<dLease, dEffect, dGrant, dProof, dCall, dTree, issued, dLog>>

(* What recovery leaves behind: the turns interrupted, their started effects in doubt. *)
Interrupted(turns) ==
    /\ dTurn' = [t \in DirectIds |->
          IF t \in turns THEN [dTurn[t] EXCEPT !.state = T!Interrupt(@)] ELSE dTurn[t]]
    /\ dEffect' = [e \in Asked |->
          IF dEffect[e].st = "started" /\ dEffect[e].turn \in turns
          THEN [dEffect[e] EXCEPT !.st = "unknown"]
          ELSE dEffect[e]]
    /\ UNCHANGED <<dLease, dGrant, dProof, dCall, dTree, issued, dLog>>

(* interrupt_after_lease_loss, by the owner that lost its lease *)
InterruptAfterLoss(l, t) ==
    /\ ~Authoritative(l)
    /\ dTurn[t].state.token = l.token
    /\ T!CanInterrupt(dTurn[t].state)
    /\ Interrupted({t})

(* recover_at, at startup and at every sweep *)
RecoverAt ==
    LET lost == {t \in DirectIds : T!CanInterrupt(dTurn[t].state)
                   /\ ~(dLease.live /\ dLease.token = dTurn[t].state.token)} IN
    lost # {} /\ Interrupted(lost)

(* The process of an owner dies, or drops the call, at any point of it. *)
CrashCall(o) ==
    /\ dCall[o] # Free
    /\ dCall' = [dCall EXCEPT ![o] = Free]
    /\ UNCHANGED <<dTurn, dLease, dEffect, dGrant, dProof, dTree, issued, dLog>>

(* Someone else writes to the workspace. *)
EditTree ==
    /\ dTree < MaxTree
    /\ dTree' = dTree + 1
    /\ UNCHANGED <<dTurn, dLease, dEffect, dGrant, dProof, dCall, issued, dLog>>

DirectNext ==
    \/ Expire \/ RecoverAt \/ EditTree
    \/ \E t \in DirectIds : CreateDirectTurn(t)
    \/ \E o \in Holders :
          \/ Acquire(o, {}) \/ \E t \in DirectIds : Acquire(o, {t})
          \/ StartAllowed(o) \/ Perform(o) \/ Report(o) \/ Measure(o) \/ RecordEvidence(o)
          \/ CrashCall(o)
    \/ \E l \in issued :
          \/ Release(l)
          \/ \E t \in DirectIds :
                \/ ApplyTransition(l, t) \/ CompleteVerified(l, t)
                \/ InterruptAfterLoss(l, t)
                \/ \E class \in {"cancelled", "denied"} : CancelWaiting(l, t, class)
                \/ \E e \in Asked, op \in Operations :
                      \/ \E revision \in 0..MaxSteps :
                            \/ AskPermission(l, t, e, op, revision)
                            \/ \E new \in Asked : Reissue(l, t, e, new, op, revision)
                      \/ AllowProcess(l, t, e, op)
                      \/ \E kind \in {"tool", "process"} : ExecuteApproved(l, t, e, op, kind)

DirectSpec == DirectInit /\ [][DirectNext]_directVars

(* An approval is spent once and only on what was approved: no effect is ever    *)
(* carried out twice, and the operation, revision and lease it is carried out    *)
(* with are those of the row the user was shown (consume_permission_and_start,   *)
(* replace_pending_effect).                                                      *)
ApprovalIsSpentOnce ==
    /\ \A i, j \in DOMAIN dLog : dLog[i].effect = dLog[j].effect => i = j
    /\ \A i \in DOMAIN dLog :
          /\ dLog[i].binding = dEffect[dLog[i].effect].binding
          /\ dEffect[dLog[i].effect].st \notin {"absent", "prepared"}

(* An outcome is reported only by the owner nobody has replaced, and once a      *)
(* recovery has called an effect unknown no late report overwrites it            *)
(* (finish_effect, mark_effect_unknown, interrupt_after_lease_loss).             *)
NoLateReport ==
    [][\A e \in Asked :
          /\ dEffect[e].st = "unknown" => dEffect'[e].st = "unknown"
          /\ dEffect[e].st = "started" /\ dEffect'[e].st \in {"success", "failed"} =>
                \A l \in issued : l.token <= dEffect[e].binding.lease.token]_directVars

(* A turn is completed only when it was verified last: the command of its        *)
(* evidence is the last thing the turn carried out, it passed, and nobody wrote  *)
(* to the workspace since (record_verification_evidence, complete_verified).     *)
CompletedIsChecked ==
    [][\A t \in DirectIds :
          dTurn[t].state.status # "completed" /\ dTurn'[t].state.status = "completed" =>
             /\ dProof[t].passed /\ dProof[t].tree = dTree
             /\ \E i \in DOMAIN dLog :
                   /\ dLog[i].effect = dProof[t].effect
                   /\ \A j \in DOMAIN dLog : dLog[j].turn = t => j <= i]_directVars

(* The invariants of the direct turns together. *)
DirectTurnsCorrect == DirectTypeOK /\ ApprovalIsSpentOnce
=============================================================================
