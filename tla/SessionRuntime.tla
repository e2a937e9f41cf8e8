--------------------------- MODULE SessionRuntime ---------------------------
(***************************************************************************)
(* The coordinators of latte-headless (session.rs, SessionRuntimeService)  *)
(* at work on the ledger of SessionStore.  A coordinator is one call of an *)
(* operation: it loads a snapshot, acquires a lease, commits against the   *)
(* revisions it loaded, drives the turn and releases the lease on the way  *)
(* out.  Coordinators run in the tasks of one process or in several        *)
(* processes that share the database; any of them may stall past its lease *)
(* or vanish between two steps.                                            *)
(*                                                                         *)
(* Beside the ledger there is the world that it describes: which effects   *)
(* have really been executed and which executors are at work now.          *)
(***************************************************************************)
EXTENDS SessionStore, FiniteSets

CONSTANTS Coords,   \* coordinators
          Checks,   \* the effects that are runs of the verification plan
          Requests  \* bound: the operations that users request

Operations == {"start", "follow_up", "switch", "allow", "deny", "input",
               "cancel", "reconcile", "append"}

ASSUME RuntimeAssumption ==
    Checks \subseteq Effects /\ Requests \subseteq Operations

VARIABLES co,        \* the local state of each coordinator
          cancelled, \* the coordinators whose cancellation token was signalled
          ran,       \* how often the executor of an effect was started
          working    \* the effects whose executor is at work

local == <<co, cancelled, ran, working>>
allVars == <<vars, local>>

PC == {"idle", "loaded", "leased", "driving", "compacted", "provider",
       "answered", "cut", "round", "batch", "prepared", "started", "executing",
       "verified", "leaving"}

(* The snapshot a coordinator works from is its revisions sr and tr. *)
Coordinator == [pc: PC, op: Operations \cup {"none"}, k: Nat, sr: Nat, tr: Nat,
                turn: 0 .. MaxTurns, e: Effects \cup {None}, retried: BOOLEAN]

Idle == [pc |-> "idle", op |-> "none", k |-> 0, sr |-> 0, tr |-> 0, turn |-> 0,
         e |-> None, retried |-> FALSE]

RuntimeTypeOK ==
    /\ TypeOK
    /\ co \in [Coords -> Coordinator]
    /\ \A c \in Coords : /\ co[c].k <= epoch
                         /\ co[c].k = 0 <=> co[c].pc \in {"idle", "loaded"}
    /\ cancelled \subseteq Coords
    /\ ran \in [Effects -> Nat]
    /\ working \subseteq Effects

RuntimeInit ==
    /\ Init
    /\ co = [c \in Coords |-> Idle]
    /\ cancelled = {}
    /\ ran = [e \in Effects |-> 0]
    /\ working = {}

-----------------------------------------------------------------------------
(* Steps of a coordinator *)

At(c, p) == co[c].pc = p

Goto(c, p) == co' = [co EXCEPT ![c].pc = p]

(* A commit returns the new snapshot; the coordinator continues at p. *)
Refreshed(c, p) ==
    [co[c] EXCEPT !.pc = p, !.op = "none", !.sr = rev', !.tr = LatestRevision',
                  !.turn = 0]

Then(c, p) ==
    /\ co' = [co EXCEPT ![c] = Refreshed(c, p)]
    /\ cancelled' = cancelled \ {c}
    /\ UNCHANGED <<ran, working>>

(* Only the lease guard is left. *)
Finish(c) ==
    /\ co' = [co EXCEPT ![c] = [Idle EXCEPT !.pc = "leaving", !.k = co[c].k]]
    /\ cancelled' = cancelled \ {c}
    /\ UNCHANGED <<ran, working>>

(* The entry in the map of cancellation tokens exists while a provider call or
   an execution is awaited. *)
Registered(c) == co[c].pc \in {"provider", "executing"}

(* What each operation requires of the snapshot it loads. *)
Accepts(op) ==
    CASE op = "start" -> life = "absent"
      [] op \in {"follow_up", "switch"} -> life = "ready"
      [] op \in {"allow", "deny"} -> life = "waiting_permission"
      [] op = "input" -> life = "waiting_input"
      [] op = "cancel" -> active.turn # 0
      [] op = "reconcile" -> life = "reconciliation_required"
      [] op = "append" -> /\ active.turn = 0
                          /\ latest # 0

(* The request or the unknown effect that the operation names. *)
Subject(op) ==
    CASE op \in {"allow", "deny"} -> {turns[active.turn].permission}
      [] op = "reconcile" -> OfTurn(latest, "unknown")
      [] OTHER -> {None}

Load(c, op) ==
    /\ At(c, "idle")
    /\ Accepts(op)
    /\ \E e \in Subject(op) :
           co' = [co EXCEPT ![c] = [Idle EXCEPT
                    !.pc = "loaded", !.op = op, !.sr = rev,
                    !.tr = LatestRevision, !.turn = latest, !.e = e]]
    /\ UNCHANGED <<vars, cancelled, ran, working>>

AcquireLease(c) ==
    /\ At(c, "loaded")
    /\ Acquire
    /\ co' = [co EXCEPT ![c].pc = "leased", ![c].k = epoch']
    /\ UNCHANGED <<cancelled, ran, working>>

(* The lease is live elsewhere: the operation is refused. *)
Busy(c) ==
    /\ At(c, "loaded")
    /\ lease.live \/ epoch = MaxToken
    /\ co' = [co EXCEPT ![c] = Idle]
    /\ UNCHANGED <<vars, cancelled, ran, working>>

(* cancel_durable finds a token in the map: the running coordinator is told,
   and writes the interruption itself. *)
SignalCancel(c) ==
    /\ At(c, "loaded")
    /\ co[c].op = "cancel"
    /\ \E d \in Coords : Registered(d) /\ cancelled' = cancelled \cup {d}
    /\ co' = [co EXCEPT ![c] = Idle]
    /\ UNCHANGED <<vars, ran, working>>

(* The first commit of each operation, with the revisions it loaded. *)
Submits(c, op) == At(c, "leased") /\ co[c].op = op

SubmitStart(c) ==
    /\ Submits(c, "start")
    /\ CreateStartedSession(co[c].k)
    /\ Then(c, "driving")

SubmitFollowUp(c) ==
    /\ Submits(c, "follow_up")
    /\ CreateStartedFollowUp(co[c].k, co[c].sr)
    /\ Then(c, "driving")

SubmitSwitch(c) ==
    /\ Submits(c, "switch")
    /\ SwitchSessionBinding(co[c].k, co[c].sr)
    /\ Finish(c)

SubmitPermission(c) ==
    \/ /\ Submits(c, "allow")
       /\ ResolveAllow(co[c].k, co[c].sr, co[c].tr, co[c].e)
       /\ Then(c, "prepared")
    \/ /\ Submits(c, "deny")
       /\ ResolveDeny(co[c].k, co[c].sr, co[c].tr, co[c].e)
       /\ Finish(c)

SubmitInput(c) ==
    /\ Submits(c, "input")
    /\ CommitProvideInput(co[c].k, co[c].sr, co[c].tr)
    /\ Then(c, "driving")

SubmitCancel(c) ==
    /\ Submits(c, "cancel")
    /\ \/ CancelWaiting(co[c].k, co[c].sr, co[c].tr)
       \/ InterruptRunning(co[c].k, co[c].sr, co[c].tr)
    /\ Finish(c)

SubmitReconcile(c) ==
    /\ Submits(c, "reconcile")
    /\ ReconcileUnknownEffect(co[c].k, co[c].sr, co[c].tr, co[c].e)
    /\ Finish(c)

(* compact_session and the audit of a discarded queue. *)
SubmitAppend(c) ==
    /\ Submits(c, "append")
    /\ AppendDetached(co[c].k, co[c].sr, co[c].tr)
    /\ Finish(c)

Submit(c) ==
    \/ SubmitStart(c) \/ SubmitFollowUp(c) \/ SubmitSwitch(c)
    \/ SubmitPermission(c) \/ SubmitInput(c) \/ SubmitCancel(c)
    \/ SubmitReconcile(c) \/ SubmitAppend(c)

-----------------------------------------------------------------------------
(* run_provider_turn *)

(* maybe_compact_mid_turn and the history cards: at most one append before
   the next provider request. *)
Compact(c) ==
    /\ At(c, "driving")
    /\ AppendTranscript(co[c].k, co[c].sr, co[c].tr)
    /\ Then(c, "compacted")

CallProvider(c) ==
    /\ co[c].pc \in {"driving", "compacted"}
    /\ Goto(c, "provider")
    /\ UNCHANGED <<vars, cancelled, ran, working>>

(* The provider could not be built, the request is over budget, or a history
   card could not be written. *)
CannotCall(c) ==
    /\ co[c].pc \in {"driving", "compacted"}
    /\ CommitFail(co[c].k, co[c].sr, co[c].tr, "retryable")
    /\ Finish(c)

(* run_provider_step: what the answer of the provider leads to.  That the
   token was signalled is not looked at again: a cancelled call may still come
   back with an answer. *)
ReplyCancelled(c) ==
    /\ At(c, "provider")
    /\ c \in cancelled
    /\ InterruptRunning(co[c].k, co[c].sr, co[c].tr)
    /\ Finish(c)

(* The context window overflowed: one retry, if a card could shrink it. *)
ReplyOverflow(c) ==
    /\ At(c, "provider")
    /\ ~co[c].retried
    /\ AppendTranscript(co[c].k, co[c].sr, co[c].tr)
    /\ co' = [co EXCEPT ![c] = [Refreshed(c, "compacted") EXCEPT
                                   !.retried = TRUE]]
    /\ cancelled' = cancelled \ {c}
    /\ UNCHANGED <<ran, working>>

ReplyFailed(c) ==
    /\ At(c, "provider")
    /\ \E class \in {"retryable", "terminal"} :
           CommitFail(co[c].k, co[c].sr, co[c].tr, class)
    /\ Finish(c)

ReplyInput(c) ==
    /\ At(c, "provider")
    /\ CommitRequestInput(co[c].k, co[c].sr, co[c].tr)
    /\ Finish(c)

(* The text was cut off or filtered: what there is, then a failure. *)
ReplyCut(c) ==
    /\ At(c, "provider")
    /\ AppendTranscript(co[c].k, co[c].sr, co[c].tr)
    /\ Then(c, "cut")

FailCut(c) ==
    /\ At(c, "cut")
    /\ CommitFail(co[c].k, co[c].sr, co[c].tr, "retryable")
    /\ Finish(c)

(* The final text. *)
ReplyText(c) ==
    /\ At(c, "provider")
    /\ AppendTranscript(co[c].k, co[c].sr, co[c].tr)
    /\ Then(c, "answered")

(* handle_provider_tool_round: the card with the calls. *)
ReplyTools(c) ==
    /\ At(c, "provider")
    /\ \E e \in Effects \ Checks : effects[e].status = "absent"
    /\ AppendTranscript(co[c].k, co[c].sr, co[c].tr)
    /\ Then(c, "round")

Reply(c) ==
    \/ ReplyCancelled(c) \/ ReplyOverflow(c) \/ ReplyFailed(c)
    \/ ReplyInput(c) \/ ReplyCut(c) \/ ReplyText(c) \/ ReplyTools(c)

(* After the last card: done, or files were changed and there is no
   verification plan.  With a plan, its run is one more effect (Prepare), and
   the turn is done if it succeeds. *)
Conclusion(c) ==
    LET k == co[c].k
        sr == co[c].sr
        tr == co[c].tr IN
    /\ co[c].pc \in {"answered", "verified"}
    /\ \/ CommitComplete(k, sr, tr)
       \/ CommitFail(k, sr, tr, "terminal")
    /\ Finish(c)

-----------------------------------------------------------------------------
(* execute_tool_batch, begin_verification *)

(* The next call of the batch, or the verification; under policy Ask the turn
   is parked. *)
Prepare(c) ==
    \E e \in Effects :
        /\ \/ co[c].pc \in {"round", "batch"} /\ e \notin Checks
           \/ At(c, "answered") /\ e \in Checks
        /\ \/ /\ PrepareAllowed(co[c].k, co[c].sr, co[c].tr, e)
              /\ co' = [co EXCEPT ![c] = [Refreshed(c, "prepared") EXCEPT
                                             !.e = e]]
              /\ UNCHANGED <<cancelled, ran, working>>
           \/ PrepareAsk(co[c].k, co[c].sr, co[c].tr, e) /\ Finish(c)

(* A fault, for comparison: the loop goes on while an effect is out. *)
BatchDoneEarly(c) ==
    /\ co[c].pc \in {"batch", "started"}
    /\ Goto(c, "driving")
    /\ UNCHANGED <<vars, cancelled, ran, working>>

BatchDone(c) ==
    /\ At(c, "batch")
    /\ Goto(c, "driving")
    /\ UNCHANGED <<vars, cancelled, ran, working>>

StartPrepared(c) ==
    /\ At(c, "prepared")
    /\ StartEffect(co[c].k, co[c].sr, co[c].tr, co[c].e)
    /\ Then(c, "started")

(* A fault, for comparison: a prepared effect is run without being started. *)
ExecutePrepared(c) ==
    /\ co[c].pc \in {"prepared", "started"}
    /\ Goto(c, "executing")
    /\ ran' = [ran EXCEPT ![co[c].e] = @ + 1]
    /\ working' = working \cup {co[c].e}
    /\ UNCHANGED <<vars, cancelled>>

(* execute_and_observe_effect: only now does anything happen outside.  The
   lease is not looked at again. *)
Execute(c) ==
    /\ At(c, "started")
    /\ Goto(c, "executing")
    /\ ran' = [ran EXCEPT ![co[c].e] = @ + 1]
    /\ working' = working \cup {co[c].e}
    /\ UNCHANGED <<vars, cancelled>>

(* The executor refused: precondition or authorization changed. *)
Refuse(c) ==
    /\ At(c, "started")
    /\ UnknownEffect(co[c].k, co[c].sr, co[c].tr, co[c].e)
    /\ Finish(c)

(* A fault, for comparison: an execution that is not awaited. *)
ObserveEarly(c) ==
    LET e == co[c].e IN
    /\ At(c, "executing")
    /\ ObserveEffect(co[c].k, co[c].sr, co[c].tr, e)
    /\ co' = [co EXCEPT ![c] =
                 [Refreshed(c, IF e \in Checks THEN "verified" ELSE "batch")
                     EXCEPT !.e = None]]
    /\ UNCHANGED <<cancelled, ran, working>>

(* The execution is awaited in every branch; a result that arrives together
   with a cancellation is not trusted. *)
Observe(c) ==
    LET e == co[c].e IN
    /\ At(c, "executing")
    /\ e \notin working
    /\ c \notin cancelled
    /\ ObserveEffect(co[c].k, co[c].sr, co[c].tr, e)
    /\ co' = [co EXCEPT ![c] =
                 [Refreshed(c, IF e \in Checks THEN "verified" ELSE "batch")
                     EXCEPT !.e = None]]
    /\ UNCHANGED <<cancelled, ran, working>>

ObserveUnknown(c) ==
    /\ At(c, "executing")
    /\ co[c].e \notin working
    /\ UnknownEffect(co[c].k, co[c].sr, co[c].tr, co[c].e)
    /\ Finish(c)

-----------------------------------------------------------------------------
(* Ways out *)

(* A renewal failed: what was awaited is over, the turn is recovered unless
   somebody else has it. *)
LeaseLost(c) ==
    LET k == co[c].k
        tr == co[c].tr IN
    /\ Registered(c)
    /\ co[c].e \notin working
    /\ ~Live(k)
    /\ \/ RecoverAfterLeaseLoss(k, tr)
       \/ /\ CanRecover(k) => turns[active.turn].revision # tr
          /\ UNCHANGED vars
    /\ Finish(c)

(* The fences that a coordinator's next commit meets. *)
FencesHold(c) ==
    /\ Live(co[c].k)
    /\ rev = co[c].sr
    /\ co[c].op = "start" => life = "absent"

(* The commit was refused: the error propagates to the guard. *)
Rejected(c) ==
    /\ co[c].pc \notin {"idle", "loaded", "leaving"}
    /\ At(c, "executing") => co[c].e \notin working
    /\ ~FencesHold(c)
    /\ Finish(c)
    /\ UNCHANGED vars

(* SessionLeaseGuard::drop; a lease that somebody else took is left alone. *)
Leave(c) ==
    /\ At(c, "leaving")
    /\ \/ ReleaseLease(co[c].k)
       \/ lease.token # co[c].k /\ UNCHANGED vars
    /\ co' = [co EXCEPT ![c] = Idle]
    /\ UNCHANGED <<cancelled, ran, working>>

(* The call ends with an error after a commit that did take effect (the log
   could not be synchronised, a policy denies, the task is dropped). *)
Abandon(c) ==
    /\ co[c].pc \notin {"idle", "loaded", "leaving"}
    /\ Finish(c)
    /\ UNCHANGED vars

(* The process dies.  Its executor may survive it for a while. *)
Crash(c) ==
    /\ co[c].pc \notin {"idle", "loaded"}
    /\ co' = [co EXCEPT ![c] = Idle]
    /\ cancelled' = cancelled \ {c}
    /\ UNCHANGED <<vars, ran, working>>

ExecutorEnds(e) ==
    /\ e \in working
    /\ working' = working \ {e}
    /\ UNCHANGED <<vars, co, cancelled, ran>>

-----------------------------------------------------------------------------
(* Progress the code makes by itself (clients stop at MaxRevision) ... *)
Step(c) ==
    /\ rev < MaxRevision
    /\ \/ AcquireLease(c) \/ Busy(c) \/ SignalCancel(c) \/ Submit(c)
       \/ Compact(c) \/ CallProvider(c) \/ CannotCall(c) \/ Reply(c)
       \/ FailCut(c) \/ Conclusion(c) \/ Prepare(c) \/ BatchDone(c)
       \/ StartPrepared(c) \/ Execute(c) \/ Refuse(c) \/ Observe(c)
       \/ ObserveUnknown(c) \/ LeaseLost(c) \/ Rejected(c) \/ Leave(c)

(* ... and what happens to it. *)
Sweep == RecoverAt /\ UNCHANGED local
Timeout == Expire /\ UNCHANGED local
Fork == CreateSessionFork /\ UNCHANGED local

RuntimeNext ==
    \/ \E c \in Coords : \/ Step(c)
                         \/ \E op \in Requests : Load(c, op)
                         \/ Abandon(c)
                         \/ Crash(c)
    \/ \E e \in Effects : ExecutorEnds(e)
    \/ Sweep
    \/ Timeout
    \/ Fork

RuntimeSpec == RuntimeInit /\ [][RuntimeNext]_allVars

(* A lease whose owner is gone is not renewed. *)
OwnerGone == \A c \in Coords : co[c].k # lease.token
TimeoutOfDeadOwner == OwnerGone /\ Timeout

(* Tasks are scheduled and what they await ends (the provider call has a
   deadline, an executor a timeout), time passes and the sweeper runs. *)
FairRuntime ==
    /\ RuntimeSpec
    /\ \A c \in Coords : WF_allVars(Step(c))
    /\ \A e \in Effects : WF_allVars(ExecutorEnds(e))
    /\ WF_allVars(TimeoutOfDeadOwner)
    /\ WF_allVars(Sweep)

-----------------------------------------------------------------------------
(* Correctness *)

(* The coordinators are clients as SessionStore assumes them: they have one
   effect in hand at a time, and close it before they go on. *)
ImplementsStore == Spec

(* Nothing is executed before its Started record is durable, and nothing is
   executed twice, whoever crashes, stalls or is superseded in between. *)
ExecutedOnceAfterStart ==
    \A e \in Effects :
        /\ ran[e] <= 1
        /\ ran[e] = 1 => effects[e].status \notin {"absent", "prepared"}

(* What the ledger says about the world is true: an effect closed as never
   started never ran, and one closed as observed did run and is over. *)
LedgerIsTruthful ==
    \A e \in Effects :
        /\ effects[e].outcome = "never_started" => ran[e] = 0
        /\ effects[e].outcome = "observed" => ran[e] = 1 /\ e \notin working

(* Two executors are never at work in one session, though the second
   coordinator cannot see the first one's. *)
OneExecutor == Cardinality(working) <= 1

(* Together: whatever coordinators do to each other, an effect happens once,
   after its Started record, and alone (execute_and_observe_effect). *)
EffectsRunOnce == RuntimeTypeOK /\ ExecutedOnceAfterStart /\ OneExecutor

(* A turn does not stay running for ever, whichever coordinator crashes. *)
RunningEnds == life = "running" ~> life # "running"

(* Nor is the session locked for ever. *)
LeaseIsReturned == lease.live ~> ~lease.live

(* Whoever crashes, the session comes to rest: its turn, its lease and what a
   dead owner left (recover_at, SessionLeaseGuard). *)
SessionComesToRest == RunningEnds /\ LeaseIsReturned /\ OrphanIsResolved

(* cancel_durable: "a stale client cannot cancel a newer turn".  A signal goes
   to the turn that the canceller's snapshot showed. *)
StaleCancelRefused ==
    [][\A c \in Coords :
          /\ At(c, "loaded") /\ co[c].op = "cancel"
          /\ cancelled' # cancelled
          /\ co'[c] = Idle
          => co[c].turn = latest]_allVars
=============================================================================
