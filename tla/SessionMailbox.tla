--------------------------- MODULE SessionMailbox ---------------------------
(***************************************************************************)
(* The process-local queue of follow-up prompts of one session             *)
(* (latte-headless, session.rs): the entry in the map `mailboxes', the     *)
(* runner guards that own it, the intake that accepts prompts with a 202   *)
(* and the drain that runs them.  The entry outlives the call that made it *)
(* while a turn is parked, and every call ends by removing it, keeping it  *)
(* or dropping it with its guard.                                          *)
(*                                                                         *)
(* The durable ledger (module SessionStore) is reduced to the lifecycle,   *)
(* the revision and the owner of the lease; "failed" stands for every      *)
(* terminal lifecycle and "waiting" for both waits.                        *)
(***************************************************************************)
EXTENDS Naturals, Sequences, SequencesExt

CONSTANTS Tasks,        \* calls of operations that may be in progress at once
          Prompts,      \* prompts that users queue
          None,         \* no task, no prompt
          Capacity,     \* SESSION_MAILBOX_CAPACITY
          MaxRevision,  \* bound: revision at which users stop asking
          Faults        \* what may go wrong, besides interleaving:
                        \*   "refused"    a follow-up is not accepted
                        \*   "unrunnable" nor is a queued prompt, when its
                        \*                turn comes
                        \*   "switch"     the model is switched in between
                        \*   "sync"       a commit takes effect and reports
                        \*                an error
                        \*   "duplicate"  two requests settle one wait

ASSUME MailboxAssumption ==
    /\ None \notin Tasks \cup Prompts
    /\ Capacity \in Nat
    /\ MaxRevision \in Nat
    /\ Faults \subseteq {"refused", "unrunnable", "switch", "sync",
                          "duplicate"}

VARIABLES life,       \* lifecycle of the session
          rev,        \* revision of the session
          owner,      \* the task that holds the lease
          open,       \* the map has an entry for the session
          queue,      \* its prompts
          task,       \* the local state of each task
          asked,      \* what has become of the request to queue a prompt
          accepted,   \* history: prompts answered with 202, in order
          ran,        \* history: prompts that became a turn, in order
          discarded,  \* history: prompts taken out by a terminal finish
          disturbed   \* whether the faults may happen in this behaviour

session == <<life, rev, owner>>
intake == <<asked, accepted>>
mailboxVars == <<session, open, queue, task, intake, ran, discarded, disturbed>>

MayHappen(fault) == disturbed /\ fault \in Faults

(* "begun": the guard exists, the turn does not; "dropping": an error is on
   its way to the guard; "evicting": cancel or reconcile took the turn to its
   end and removes the entry next. *)
PC == {"idle", "begun", "loaded", "leased", "turn", "drain", "popped",
       "dropping", "evicting"}

(* guard: a SessionRunnerGuard, open or closed; seen and rv: the snapshot in
   hand; resume: the turn was resumed, not started; p: the popped prompt. *)
Task == [pc: PC, guard: {"none", "open", "closed"}, rv: Nat, resume: BOOLEAN,
         seen: {"none", "ready", "waiting", "failed", "reconciliation"},
         p: Prompts \cup {None}]

IdleTask == [pc |-> "idle", guard |-> "none", rv |-> 0, resume |-> FALSE,
             seen |-> "none", p |-> None]

MailboxTypeOK ==
    /\ life \in {"absent", "ready", "running", "waiting", "failed",
                 "reconciliation"}
    /\ rev \in Nat
    /\ owner \in Tasks \cup {None}
    /\ open \in BOOLEAN
    /\ queue \in Seq(Prompts)
    /\ Len(queue) <= Capacity
    /\ task \in [Tasks -> Task]
    /\ asked \in [Prompts -> {"new", "checked", "refused", "accepted"}]
    /\ accepted \in Seq(Prompts)
    /\ ran \in Seq(Prompts)
    /\ discarded \subseteq Prompts
    /\ disturbed \in BOOLEAN

MailboxInit ==
    /\ life = "absent"
    /\ rev = 0
    /\ owner = None
    /\ open = FALSE
    /\ queue = <<>>
    /\ task = [c \in Tasks |-> IdleTask]
    /\ asked = [p \in Prompts |-> "new"]
    /\ accepted = <<>>
    /\ ran = <<>>
    /\ discarded = {}
    /\ disturbed \in BOOLEAN
    /\ disturbed => Faults # {}

-----------------------------------------------------------------------------
(* queue_follow_up: the lifecycle is read from the database, the entry is
   looked up later, under the lock of the map. *)

QueueCheck(p) ==
    /\ asked[p] = "new"
    /\ life \in {"running", "waiting"}
    /\ asked' = [asked EXCEPT ![p] = "checked"]
    /\ UNCHANGED <<session, open, queue, task, accepted, ran, discarded>>

QueuePush(p) ==
    /\ asked[p] = "checked"
    /\ IF open /\ Len(queue) < Capacity
       THEN /\ asked' = [asked EXCEPT ![p] = "accepted"]
            /\ accepted' = Append(accepted, p)
            /\ queue' = Append(queue, p)
       ELSE /\ asked' = [asked EXCEPT ![p] = "refused"]
            /\ UNCHANGED <<accepted, queue>>
    /\ UNCHANGED <<session, open, task, ran, discarded>>

-----------------------------------------------------------------------------
(* Turns *)

At(c, pc) == task[c].pc = pc

Set(c, r) == task' = [task EXCEPT ![c] = r]

(* The entry is removed from the map, with what is in it. *)
RemoveEntry == open' = FALSE /\ queue' = <<>>

(* An error propagates: the lease guard and then the runner guard go. *)
Err(c) == Set(c, [task[c] EXCEPT !.pc = "dropping"])

(* begin_runner, begin_runner_when_settled: an entry in the map excludes the
   call, which waits for it to go away and otherwise gives up. *)
BeginRunner(c) ==
    /\ At(c, "idle")
    /\ rev < MaxRevision
    /\ ~open
    /\ life \in {"absent", "ready"} \/ MayHappen("refused")
    /\ open' = TRUE
    /\ queue' = <<>>
    /\ Set(c, [IdleTask EXCEPT !.pc = "begun", !.guard = "open", !.rv = rev])
    /\ UNCHANGED <<session, intake, ran, discarded>>

(* start_one, follow_up_one up to the durable turn. *)
CreateTurn(c) ==
    LET t == task[c] IN
    /\ t.pc \in {"begun", "popped"}
    /\ life \in {"absent", "ready"}
    /\ owner = None
    /\ rev = t.rv
    /\ life' = "running"
    /\ rev' = rev + 1
    /\ owner' = c
    /\ ran' = IF t.p = None THEN ran ELSE Append(ran, t.p)
    /\ Set(c, [t EXCEPT !.pc = "turn", !.p = None])
    /\ UNCHANGED <<open, queue, intake, discarded>>

CreateRefused(c) ==
    LET t == task[c] IN
    /\ t.pc \in {"begun", "popped"}
    /\ \/ life \notin {"absent", "ready"}
       \/ owner # None
       \/ rev # t.rv
       \/ MayHappen("refused") /\ At(c, "begun")
       \/ MayHappen("unrunnable") /\ At(c, "popped")
    /\ Err(c)
    /\ UNCHANGED <<session, open, queue, intake, ran, discarded>>

(* The turn ends, is parked, or leaves an unknown effect behind; the lease is
   given up with it. *)
EndTurn(c) ==
    /\ At(c, "turn")
    /\ \E l \in {"ready", "failed", "waiting", "reconciliation"} :
          /\ life' = l
          /\ rev' = rev + 1
          /\ owner' = None
          /\ \/ Set(c, [task[c] EXCEPT !.pc = "drain", !.seen = l,
                                       !.rv = rev + 1])
             \/ MayHappen("sync") /\ Err(c)
    /\ UNCHANGED <<open, queue, intake, ran, discarded>>

(* The ways a call ends on an error: a resumed turn keeps the entry
   (mark_closed), every other guard removes it when it is dropped. *)
Dropped(c) ==
    /\ At(c, "dropping")
    /\ IF task[c].guard = "open" /\ ~task[c].resume
       THEN RemoveEntry
       ELSE UNCHANGED <<open, queue>>
    /\ Set(c, IdleTask)
    /\ UNCHANGED <<session, intake, ran, discarded>>

-----------------------------------------------------------------------------
(* provide_input, resolve_permission *)

(* Nobody else is answering the wait. *)
SoleAnswer == \A c \in Tasks : task[c].pc \notin {"loaded", "leased"}

LoadWaiting(c) ==
    /\ At(c, "idle")
    /\ rev < MaxRevision
    /\ life = "waiting"
    /\ SoleAnswer \/ MayHappen("duplicate")
    /\ Set(c, [IdleTask EXCEPT !.pc = "loaded", !.rv = rev])
    /\ UNCHANGED <<session, open, queue, intake, ran, discarded>>

(* acquire, then ensure_runner: the entry is adopted or made. *)
EnsureRunner(c) ==
    /\ At(c, "loaded")
    /\ owner = None
    /\ owner' = c
    /\ open' = TRUE
    /\ Set(c, [task[c] EXCEPT !.pc = "leased", !.guard = "open",
                              !.resume = TRUE])
    /\ UNCHANGED <<life, rev, queue, intake, ran, discarded>>

AcquireRefused(c) ==
    /\ At(c, "loaded")
    /\ owner # None
    /\ Set(c, IdleTask)
    /\ UNCHANGED <<session, open, queue, intake, ran, discarded>>

(* The resuming commit; a denial makes the session ready at once. *)
ResumeTurn(c) ==
    /\ At(c, "leased")
    /\ rev = task[c].rv
    /\ rev' = rev + 1
    /\ \/ /\ life' = "running"
          /\ Set(c, [task[c] EXCEPT !.pc = "turn"])
          /\ UNCHANGED owner
       \/ /\ life' = "ready"
          /\ owner' = None
          /\ Set(c, [task[c] EXCEPT !.pc = "drain", !.seen = "ready",
                                    !.rv = rev + 1])
    /\ UNCHANGED <<open, queue, intake, ran, discarded>>

ResumeRefused(c) ==
    /\ At(c, "leased")
    /\ rev # task[c].rv
    /\ owner' = None
    /\ Err(c)
    /\ UNCHANGED <<life, rev, open, queue, intake, ran, discarded>>

-----------------------------------------------------------------------------
(* drain_mailbox, with the snapshot that the turn returned *)

(* A fault, for comparison: the guard is dropped open at a park. *)
DrainParkedOpen(c) ==
    /\ At(c, "drain")
    /\ task[c].seen \in {"waiting", "reconciliation"}
    /\ RemoveEntry
    /\ Set(c, IdleTask)
    /\ UNCHANGED <<session, intake, ran, discarded>>

(* A parked turn or a pending reconciliation keeps the entry. *)
DrainParked(c) ==
    /\ At(c, "drain")
    /\ task[c].seen \in {"waiting", "reconciliation"}
    /\ Set(c, IdleTask)
    /\ UNCHANGED <<session, open, queue, intake, ran, discarded>>

(* A fault, for comparison: the newest prompt first. *)
DrainPopBack(c) ==
    /\ At(c, "drain")
    /\ task[c].seen = "ready"
    /\ open
    /\ queue # <<>>
    /\ queue' = Front(queue)
    /\ Set(c, [task[c] EXCEPT !.pc = "popped", !.p = Last(queue),
                              !.resume = FALSE])
    /\ UNCHANGED <<session, open, intake, ran, discarded>>

(* From here on an error drops the guard open. *)
DrainPop(c) ==
    /\ At(c, "drain")
    /\ task[c].seen = "ready"
    /\ open
    /\ queue # <<>>
    /\ queue' = Tail(queue)
    /\ Set(c, [task[c] EXCEPT !.pc = "popped", !.p = Head(queue),
                              !.resume = FALSE])
    /\ UNCHANGED <<session, open, intake, ran, discarded>>

DrainDone(c) ==
    /\ At(c, "drain")
    /\ task[c].seen = "ready"
    /\ open
    /\ queue = <<>>
    /\ RemoveEntry
    /\ Set(c, IdleTask)
    /\ UNCHANGED <<session, intake, ran, discarded>>

(* The entry is gone: InvalidState. *)
DrainMissing(c) ==
    /\ At(c, "drain")
    /\ task[c].seen \in {"ready", "failed"}
    /\ ~open
    /\ Set(c, [task[c] EXCEPT !.pc = "dropping", !.resume = FALSE])
    /\ UNCHANGED <<session, open, queue, intake, ran, discarded>>

(* A fault, for comparison: a terminal finish leaves the queue behind. *)
DrainTerminalKeeping(c) ==
    /\ At(c, "drain")
    /\ task[c].seen = "failed"
    /\ Set(c, IdleTask)
    /\ UNCHANGED <<session, open, queue, intake, ran, discarded>>

DrainTerminal(c) ==
    /\ At(c, "drain")
    /\ task[c].seen = "failed"
    /\ open
    /\ discarded' = discarded \cup ToSet(queue)
    /\ RemoveEntry
    /\ Set(c, IdleTask)
    /\ UNCHANGED <<session, intake, ran>>

-----------------------------------------------------------------------------
(* cancel_durable of a parked turn and reconcile_unknown_effect: the commit
   under a lease of its own, then the entry. *)

Terminate(c) ==
    /\ At(c, "idle")
    /\ life \in {"waiting", "reconciliation"}
    /\ SoleAnswer \/ MayHappen("duplicate")
    /\ owner = None
    /\ life' = "failed"
    /\ rev' = rev + 1
    /\ Set(c, [IdleTask EXCEPT !.pc = "evicting"])
    /\ UNCHANGED <<owner, open, queue, intake, ran, discarded>>

Evict(c) ==
    /\ At(c, "evicting")
    /\ discarded' = discarded \cup ToSet(queue)
    /\ RemoveEntry
    /\ Set(c, IdleTask)
    /\ UNCHANGED <<session, intake, ran>>

SwitchModel ==
    /\ MayHappen("switch")
    /\ rev < MaxRevision
    /\ life = "ready"
    /\ owner = None
    /\ rev' = rev + 1
    /\ UNCHANGED <<life, owner, open, queue, task, intake, ran, discarded>>

-----------------------------------------------------------------------------
Progress(c) ==
    \/ CreateTurn(c) \/ CreateRefused(c) \/ EndTurn(c) \/ Dropped(c)
    \/ EnsureRunner(c) \/ AcquireRefused(c) \/ ResumeTurn(c)
    \/ ResumeRefused(c) \/ DrainParked(c) \/ DrainPop(c) \/ DrainDone(c)
    \/ DrainMissing(c) \/ DrainTerminal(c) \/ Evict(c)

MailboxNext ==
    /\ \/ \E p \in Prompts : QueueCheck(p) \/ QueuePush(p)
       \/ \E c \in Tasks : \/ Progress(c)
                           \/ BeginRunner(c)
                           \/ LoadWaiting(c)
                           \/ Terminate(c)
       \/ SwitchModel
    /\ UNCHANGED disturbed

MailboxSpec == MailboxInit /\ [][MailboxNext]_mailboxVars

(* Calls in progress are scheduled; users need not do anything. *)
FairMailbox ==
    /\ MailboxSpec
    /\ \A c \in Tasks : WF_mailboxVars(Progress(c) /\ UNCHANGED disturbed)

-----------------------------------------------------------------------------
(* Correctness *)

(* queue_follow_up: 'a 202 must mean "will run"'.  An accepted prompt is in
   the queue, in the hands of the drain, or has been run; or the session came
   to an end and the prompt was taken out by it. *)
PromptsKept ==
    \A p \in ToSet(accepted) :
        \/ p \in ToSet(queue) \cup ToSet(ran) \cup discarded
        \/ \E c \in Tasks : task[c].p = p

(* Prompts become turns in the order in which they were accepted. *)
RunInOrder ==
    \A i, j \in 1 .. Len(ran) :
        i < j => \E m, n \in 1 .. Len(accepted) :
                    m < n /\ accepted[m] = ran[i] /\ accepted[n] = ran[j]

(* begin_runner_when_settled: on an idle Ready session "the residue belongs to
   a runner that is about to remove it".  An entry nobody owns would exclude
   every later follow-up. *)
EntryHasOwner ==
    open /\ life = "ready" =>
        \E c \in Tasks : task[c].guard = "open"
                         /\ (task[c].resume => task[c].pc # "dropping")

(* An accepted prompt does not wait for ever while the session could go on:
   it is run or discarded, unless the session waits for the user. *)
Settled(p) == p \in ToSet(ran) \cup discarded
AcceptedPromptsRun ==
    \A p \in Prompts :
        p \in ToSet(queue) ~> Settled(p) \/ life \in {"waiting", "reconciliation"}

(* The invariants of the mailbox together: order survives every fault, the
   others need an undisturbed mailbox. *)
MailboxCorrect ==
    /\ MailboxTypeOK
    /\ RunInOrder
    /\ ~disturbed => PromptsKept /\ EntryHasOwner
=============================================================================
