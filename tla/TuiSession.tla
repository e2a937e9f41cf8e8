----------------------------- MODULE TuiSession -----------------------------
(***************************************************************************)
(* The interactive client: the reducer of the terminal UI (latte-tui,      *)
(* session.rs), the loop that feeds it, and the dispatcher that turns its  *)
(* actions into HTTP requests (latte-code, lib.rs).  The UI keeps text     *)
(* that exists nowhere else (what is being typed, and what was submitted   *)
(* and is not yet in the transcript) next to a snapshot that is out of     *)
(* date as soon as it is read, while requests, their answers, wake-ups     *)
(* and keys arrive in any order.                                           *)
(*                                                                         *)
(* One session, which the first submission creates, and one fork of it, in *)
(* which nothing is submitted.  The server is what the UI can observe of   *)
(* the session: "over" stands for Interrupted and Failed, a refusal for a  *)
(* stale revision or a failed request.  A text is a model value; what is   *)
(* typed into an input request is named by that request.                   *)
(* The queue `queued_follow_up' of the reducer is never filled by the      *)
(* program, so its dispatch and its recovery are left out, and so are the  *)
(* pickers, the palette and everything that is only drawn.                 *)
(***************************************************************************)
EXTENDS Naturals, Sequences, FiniteSets, SequencesExt

CONSTANTS Texts,           \* what the user types into the composer
          NoText,          \* an empty editor
          MaxSubmissions,  \* bound: submissions of the composer
          MaxRequests,     \* bound: permission, input and unknown-effect stops
          MaxInFlight,     \* bound: requests under way at once
          TuiFaults        \* what may go wrong besides interleaving:
                           \*   "timeout"  an answer is lost, its request not
                           \*   "refused"  a request is refused
                           \*   "closed"   the event stream cannot be reopened
                           \*   "down"     a snapshot cannot be read
                           \*   "rival"    another client settles a request

ASSUME TuiAssumption ==
    /\ NoText \notin Texts
    /\ MaxSubmissions \in Nat
    /\ MaxRequests \in Nat
    /\ MaxInFlight \in Nat
    /\ TuiFaults \subseteq {"timeout", "refused", "closed", "down", "rival"}

VARIABLES server,    \* the session: lifecycle, request, user cards, mailbox
          ui,        \* SessionUiModel
          loop,      \* where the terminal loop is
          wake,      \* the projection channel: nothing, a change, closed
          feedback,  \* answers under way to the UI
          requests,  \* requests under way to the server
          frame,     \* history: requests that a drawn frame has shown
          typed      \* history: texts typed so far, those submitted, and
                     \*   whether a fork was asked for

tuiVars == <<server, ui, loop, wake, feedback, requests, frame, typed>>

Lives == {"absent", "ready", "running", "permission", "input",
          "reconciliation", "over"}

View == [life: Lives, req: 0..MaxRequests, cards: Seq(Texts),
         answered: SUBSET (1..MaxRequests)]

NoView == [life |-> "absent", req |-> 0, cards |-> <<>>, answered |-> {}]

NoPending == [id |-> 0, text |-> NoText, assigned |-> FALSE, after |-> 0]

Pending == [id: 0..MaxSubmissions, text: Texts \cup {NoText},
            assigned: BOOLEAN, after: Nat]

Submission == {"start", "follow_up", "queue"}

(* lost: the client has given up waiting for the answer. *)
UiRequest == [kind: Submission, id: 1..MaxSubmissions, text: Texts, lost: BOOLEAN]
              \cup [kind: {"answer", "decide", "reconcile", "cancel", "fork"},
                    id: 0..MaxRequests, value: 0..MaxRequests, lost: BOOLEAN]

TuiTypeOK ==
    /\ server \in [life: Lives, req: 0..MaxRequests, cards: Seq(Texts),
                   answered: SUBSET (1..MaxRequests), queue: Seq(Texts)]
    /\ ui \in [conv: {"draft", "open", "fork"}, view: View,
               connection: {"connected", "disconnected"},
               draft: [composer: Texts \cup {NoText}, deferred: Texts \cup {NoText},
                       pending: Pending, failed: BOOLEAN],
               form: [input: 0..MaxRequests, target: 0..MaxRequests,
                      answer: 0..MaxRequests, value: 0..MaxRequests,
                      failed: BOOLEAN],
               rendered: 0..MaxRequests, confirm: 0..MaxRequests,
               nextId: 1..(MaxSubmissions + 1)]
    /\ ui.draft.pending.id < ui.nextId
    /\ ui.draft.pending.id = 0 <=> ui.draft.pending.text = NoText
    /\ loop \in {"tick", "key", "exited"}
    /\ wake \in {"none", "changed", "closed"}
    /\ requests \subseteq UiRequest
    /\ frame \subseteq 1..MaxRequests
    /\ typed \in [all: SUBSET Texts, submitted: SUBSET Texts, forked: BOOLEAN]

TuiInit ==
    /\ server = [life |-> "absent", req |-> 0, cards |-> <<>>,
                 answered |-> {}, queue |-> <<>>]
    /\ ui = [conv |-> "draft", view |-> NoView, connection |-> "connected",
             draft |-> [composer |-> NoText, deferred |-> NoText,
                        pending |-> NoPending, failed |-> FALSE],
             form |-> [input |-> 0, target |-> 0, answer |-> 0, value |-> 0,
                       failed |-> FALSE],
             rendered |-> 0, confirm |-> 0, nextId |-> 1]
    /\ loop = "tick"
    /\ wake = "none"
    /\ feedback = <<>>
    /\ requests = {}
    /\ frame = {}
    /\ typed = [all |-> {}, submitted |-> {}, forked |-> FALSE]

-----------------------------------------------------------------------------
(* The reducer.  Each operator takes the model of the UI to the next one. *)

Authority(u) == u.connection = "connected"

Life(u) == IF u.conv = "draft" THEN "absent" ELSE u.view.life

(* A user card newer than the submission, with its text. *)
IsDurable(u) ==
    /\ u.draft.pending.id # 0
    /\ u.draft.pending.assigned
    /\ \E i \in DOMAIN u.view.cards :
           i > u.draft.pending.after /\ u.view.cards[i] = u.draft.pending.text

(* reconcile_pending_submission: a draft that was displaced comes back. *)
DurableDraft(d) ==
    [composer |-> IF d.composer = NoText THEN d.deferred ELSE d.composer,
     deferred |-> IF d.composer = NoText THEN NoText ELSE d.deferred,
     pending |-> NoPending, failed |-> FALSE]

(* A fault, for comparison: a failed submission is given up. *)
ForgottenDraft(d) ==
    [d EXCEPT !.pending = NoPending, !.failed = FALSE]

(* restore_pending_submission: the prompt takes the composer back. *)
RestoredDraft(d) ==
    [composer |-> d.pending.text,
     deferred |-> IF d.composer # NoText THEN d.composer ELSE d.deferred,
     pending |-> NoPending, failed |-> FALSE]

(* reconcile_pending_submission, finalize_failed_submissions_after_snapshot. *)
DraftAfter(u) ==
    CASE IsDurable(u) -> DurableDraft(u.draft)
      [] ~IsDurable(u) /\ u.draft.failed /\ u.draft.pending.id # 0 ->
            RestoredDraft(u.draft)
      [] OTHER -> u.draft

Target(u) == IF Life(u) = "input" THEN u.view.req ELSE 0

(* synchronize_input_target: what was typed for another request is dropped. *)
SynchronizedInput(f, target) ==
    IF f.target = target THEN f ELSE [f EXCEPT !.input = 0, !.target = target]

(* reconcile_pending_input_submission, the restored value of a failed answer,
   and synchronize_input_target. *)
FormAfter(u) ==
    LET f == u.form
        idle == [f EXCEPT !.answer = 0, !.value = 0, !.failed = FALSE]
    IN
    CASE f.answer = 0 -> SynchronizedInput(f, Target(u))
      [] f.answer # 0 /\ f.answer \in u.view.answered ->
            SynchronizedInput([idle EXCEPT !.input = 0], Target(u))
      [] f.answer # 0 /\ f.answer \notin u.view.answered /\ f.failed ->
            SynchronizedInput([idle EXCEPT !.input = f.value, !.target = f.answer],
                              Target(u))
      [] OTHER -> f

Synchronized(u) == [u EXCEPT !.draft = DraftAfter(u), !.form = FormAfter(u)]

ViewOf(s) == [life |-> s.life, req |-> s.req, cards |-> s.cards,
              answered |-> s.answered]

(* SessionUiInput::SessionOpened. *)
SessionOpened(u) == Synchronized([u EXCEPT !.view = ViewOf(server), !.conv = "open"])

(* SessionUiInput::Snapshot, read while a draft waits for its session: the
   only input that reconnects. *)
SnapshotLoaded(u) ==
    LET found == u.draft.pending.assigned /\ server.life # "absent" IN
    Synchronized([u EXCEPT !.view = ViewOf(server), !.connection = "connected",
                           !.conv = IF found THEN "open" ELSE @])

(* The fork, which is another session: no card of it is a card of the first. *)
ForkOpened(u) ==
    Synchronized([u EXCEPT !.view = [NoView EXCEPT !.life = "ready"], !.conv = "fork"])

(* SessionUiAction::RefreshSnapshots, in apply_session_actions. *)
Refreshed(u) ==
    CASE u.conv = "open" -> SessionOpened(u)
      [] u.conv = "fork" -> ForkOpened(u)
      [] u.conv = "draft" /\ u.draft.pending.id # 0 -> SnapshotLoaded(u)
      [] OTHER -> u

(* SubmissionAssigned: the conversation becomes the session, if it has been
   read. *)
Assigned(u) ==
    LET v == [u EXCEPT !.draft.pending.assigned = TRUE,
                       !.conv = IF @ = "draft" /\ u.view.life # "absent" THEN "open" ELSE @]
    IN [v EXCEPT !.draft = IF IsDurable(v) THEN DurableDraft(v.draft) ELSE @]

(* One answer, as drain_runtime_updates hands it to the reducer, and what it
   leaves to do.  An answer to a submission that is no longer pending changes
   nothing. *)
Noted(w, m) ==
    LET refresh == w.todo \cup {IF "fork" \in w.todo THEN "refresh fork" ELSE "refresh"} IN
    CASE m.kind = "assigned" /\ w.ui.draft.pending.id = m.id ->
            [w EXCEPT !.ui = Assigned(w.ui)]
      [] m.kind = "error" /\ w.ui.draft.pending.id = m.id ->
            [ui |-> [w.ui EXCEPT !.draft.failed = TRUE], todo |-> refresh]
      [] m.kind = "answer_error" /\ w.ui.form.answer = m.id ->
            [ui |-> [w.ui EXCEPT !.form.failed = TRUE], todo |-> refresh]
      [] m.kind = "forked" -> [w EXCEPT !.todo = @ \cup {"fork"}]
      [] OTHER -> w

(* apply_session_actions, once all answers are in: the fork is opened whatever
   is pending by then. *)
ActionsApplied(w) ==
    LET u == IF "refresh" \in w.todo THEN Refreshed(w.ui) ELSE w.ui
        v == IF "fork" \in w.todo THEN ForkOpened(u) ELSE u
    IN IF "refresh fork" \in w.todo THEN Refreshed(v) ELSE v

-----------------------------------------------------------------------------
(* The terminal loop: draw, poll the projection, drain the feedback, read one
   key.  The next frame is drawn right after the key; mark_selected_permission_
   rendered notes what it shows. *)

Shown(u) == IF Life(u) = "permission" THEN u.view.req ELSE 0

Drawn(u) ==
    /\ ui' = [u EXCEPT !.rendered = Shown(u)]
    /\ frame' = frame \cup ({Shown(u)} \ {0})

(* SessionProjectionPoll: one event, of which the last stays. *)
Polled(u) ==
    CASE wake = "changed" -> Refreshed(u)
      [] wake = "closed" -> [u EXCEPT !.connection = "disconnected"]
      [] OTHER -> u

(* drain_runtime_updates: every answer that has arrived, one after another. *)
FeedbackDrained(u) ==
    LET after[n \in 0..Len(feedback)] ==
            IF n = 0 THEN [ui |-> u, todo |-> {}] ELSE Noted(after[n - 1], feedback[n])
    IN ActionsApplied(after[Len(feedback)])

(* Poll, then drain. *)
Tick ==
    /\ loop = "tick"
    /\ loop' = "key"
    /\ wake' = IF wake = "closed" THEN "closed" ELSE "none"
    /\ ui' = FeedbackDrained(Polled(ui))
    /\ feedback' = <<>>
    /\ UNCHANGED <<server, requests, frame, typed>>

(* A snapshot that cannot be read ends the UI. *)
TickFails ==
    /\ "down" \in TuiFaults
    /\ loop = "tick"
    /\ wake = "changed"
    /\ loop' = "exited"
    /\ UNCHANGED <<server, ui, wake, feedback, requests, frame, typed>>

-----------------------------------------------------------------------------
(* Keys (reduce_key_at): a confirmation, a reconciliation, a permission and an
   input request own every key, in this order; then the composer does. *)

Key == loop = "key" /\ loop' = "tick" /\ UNCHANGED <<server, wake>>

ComposerOwnsKeys ==
    ui.confirm = 0 /\ Life(ui) \notin {"reconciliation", "permission", "input"}

Ask(kind, id, value) ==
    /\ Cardinality(requests) < MaxInFlight
    /\ requests' = requests \cup {[kind |-> kind, id |-> id, value |-> value,
                                   lost |-> FALSE]}

NoKey ==
    /\ Key
    /\ Drawn(ui)
    /\ UNCHANGED <<feedback, requests, typed>>

TypeText(p) ==
    /\ Key
    /\ ComposerOwnsKeys
    /\ ui.draft.composer = NoText
    /\ p \notin typed.all
    /\ Drawn([ui EXCEPT !.draft.composer = p])
    /\ typed' = [typed EXCEPT !.all = @ \cup {p}]
    /\ UNCHANGED <<feedback, requests>>

(* submit_composer and the dispatcher: a start has its session assigned before
   it is sent; a follow-up behind a running turn is queued at the server. *)
Submit ==
    LET open == ui.conv = "open"
        kind == CASE ~open -> "start"
                  [] open /\ ui.view.life = "ready" -> "follow_up"
                  [] OTHER -> "queue"
    IN
    /\ Key
    /\ ComposerOwnsKeys
    /\ ui.conv # "fork"
    /\ Authority(ui)
    /\ ui.draft.pending.id = 0
    /\ ui.draft.composer # NoText
    /\ ui.nextId <= MaxSubmissions
    /\ Cardinality(requests) < MaxInFlight
    /\ IF open THEN ui.view.life \in {"ready", "running"}
       ELSE server.life = "absent" /\ \A r \in requests : r.kind # "start"
    /\ Drawn([ui EXCEPT !.draft.composer = NoText, !.nextId = @ + 1,
                        !.draft.pending = [id |-> ui.nextId, text |-> ui.draft.composer,
                                     assigned |-> open,
                                     after |-> IF open THEN Len(ui.view.cards) ELSE 0]])
    /\ feedback' = IF open THEN feedback
                   ELSE Append(feedback, [kind |-> "assigned", id |-> ui.nextId])
    /\ requests' = requests \cup {[kind |-> kind, id |-> ui.nextId,
                                    text |-> ui.draft.composer, lost |-> FALSE]}
    /\ typed' = [typed EXCEPT !.submitted = @ \cup {ui.draft.composer}]

TypeInput ==
    /\ Key
    /\ ui.confirm = 0
    /\ Life(ui) = "input"
    /\ ui.form.answer = 0
    /\ Drawn([ui EXCEPT !.form.input = IF @ = 0 THEN ui.view.req ELSE @])
    /\ UNCHANGED <<feedback, requests, typed>>

SubmitInput ==
    /\ Key
    /\ ui.confirm = 0
    /\ Life(ui) = "input"
    /\ Authority(ui)
    /\ ui.form.answer = 0
    /\ ui.form.input # 0
    /\ Drawn([ui EXCEPT !.form.input = 0, !.form.answer = ui.view.req,
                        !.form.value = ui.form.input, !.form.failed = FALSE])
    /\ Ask("answer", ui.view.req, ui.form.input)
    /\ UNCHANGED <<feedback, typed>>

(* A fault, for comparison: the key acts on a request not yet drawn. *)
DecideUnseen ==
    /\ Key
    /\ ui.confirm = 0
    /\ Life(ui) = "permission"
    /\ Authority(ui)
    /\ Ask("decide", ui.view.req, 0)
    /\ Drawn(ui)
    /\ UNCHANGED <<feedback, typed>>

(* d and Ctrl+A: one request, the same for allow and deny. *)
Decide ==
    /\ Key
    /\ ui.confirm = 0
    /\ Life(ui) = "permission"
    /\ Authority(ui)
    /\ ui.rendered = ui.view.req
    /\ Ask("decide", ui.view.req, 0)
    /\ Drawn(ui)
    /\ UNCHANGED <<feedback, typed>>

OpenConfirmation ==
    /\ Key
    /\ ui.confirm = 0
    /\ Life(ui) = "reconciliation"
    /\ Authority(ui)
    /\ Drawn([ui EXCEPT !.confirm = ui.view.req])
    /\ UNCHANGED <<feedback, requests, typed>>

Confirm ==
    /\ Key
    /\ ui.confirm # 0
    /\ Drawn([ui EXCEPT !.confirm = 0])
    /\ \/ UNCHANGED requests
       \/ Authority(ui) /\ Ask("reconcile", ui.confirm, 0)
    /\ UNCHANGED <<feedback, typed>>

(* The first Ctrl+C; the dispatcher reads a fresh snapshot for it. *)
Cancel ==
    /\ Key
    /\ Authority(ui)
    /\ Life(ui) \in {"running", "permission", "input"}
    /\ Ask("cancel", 0, 0)
    /\ Drawn(ui)
    /\ UNCHANGED <<feedback, typed>>

(* /new, and a session picked from the catalog. *)
SwitchAvailable ==
    /\ ui.draft.pending.id = 0
    /\ Life(ui) \in {"absent", "ready", "over"}

SwitchSession ==
    /\ Key
    /\ ui.confirm = 0
    /\ SwitchAvailable
    /\ \/ Drawn([ui EXCEPT !.conv = "draft", !.view = NoView])
       \/ server.life # "absent" /\ Drawn(SessionOpened(ui))
    /\ UNCHANGED <<feedback, requests, typed>>

(* /fork, once: it leaves no mark in the UI. *)
AskFork ==
    /\ Key
    /\ ui.confirm = 0
    /\ ui.conv = "open"
    /\ SwitchAvailable
    /\ ~typed.forked
    /\ Ask("fork", 0, 0)
    /\ typed' = [typed EXCEPT !.forked = TRUE]
    /\ Drawn(ui)
    /\ UNCHANGED feedback

(* Ctrl+R while disconnected. *)
Refresh ==
    /\ Key
    /\ ~Authority(ui)
    /\ Drawn(Refreshed(ui))
    /\ UNCHANGED <<feedback, requests, typed>>

Quit ==
    /\ loop = "key"
    /\ loop' = "exited"
    /\ UNCHANGED <<server, ui, wake, feedback, requests, frame, typed>>

Keys ==
    \/ NoKey \/ Submit \/ TypeInput \/ SubmitInput \/ Decide
    \/ OpenConfirmation \/ Confirm \/ Cancel \/ SwitchSession \/ AskFork
    \/ Refresh \/ Quit
    \/ \E p \in Texts : TypeText(p)

-----------------------------------------------------------------------------
(* The server. *)

Changed == wake' = IF wake = "closed" THEN "closed" ELSE "changed"

Reply(r, ok) ==
    feedback' =
        IF r.lost \/ r.kind \notin Submission \cup {"answer"} \cup (IF ok THEN {"fork"} ELSE {})
        THEN feedback
        ELSE Append(feedback,
                    [kind |-> CASE r.kind = "fork" -> "forked"
                                [] r.kind # "fork" /\ ok -> "ok"
                                [] r.kind = "answer" /\ ~ok -> "answer_error"
                                [] OTHER -> "error",
                     id |-> r.id])

(* What a request makes of the session, if anything. *)
Outcomes(r) ==
    CASE r.kind = "start" /\ server.life = "absent" ->
            {[server EXCEPT !.life = "running", !.cards = Append(@, r.text)]}
      [] r.kind = "follow_up" /\ server.life = "ready" ->
            {[server EXCEPT !.life = "running", !.cards = Append(@, r.text)]}
      [] r.kind = "queue" /\ server.life \in {"running", "permission", "input"} ->
            {[server EXCEPT !.queue = Append(@, r.text)]}
      [] r.kind = "answer" /\ server.life = "input" /\ server.req = r.id ->
            {[server EXCEPT !.life = "running", !.answered = @ \cup {r.id}]}
      [] r.kind = "decide" /\ server.life = "permission" /\ server.req = r.id ->
            {[server EXCEPT !.life = "running"]}
      [] r.kind = "reconcile" /\ server.life = "reconciliation" /\ server.req = r.id ->
            {[server EXCEPT !.life = "over", !.queue = <<>>]}
      [] r.kind = "cancel" /\ server.life \in {"running", "permission", "input"} ->
            {[server EXCEPT !.life = "over", !.queue = <<>>]}
      [] r.kind = "fork" -> {server}
      [] OTHER -> {}

Serve(r) ==
    /\ r \in requests
    /\ requests' = requests \ {r}
    /\ \/ /\ server' \in Outcomes(r)
          /\ Changed
          /\ Reply(r, TRUE)
       \/ /\ Outcomes(r) = {} \/ "refused" \in TuiFaults
          /\ Reply(r, FALSE)
          /\ UNCHANGED <<server, wake>>
    /\ UNCHANGED <<ui, loop, frame, typed>>

(* The client gives up; the request goes on. *)
TimeOut(r) ==
    /\ "timeout" \in TuiFaults
    /\ r \in requests
    /\ r.kind \in Submission \cup {"answer"}
    /\ \A q \in requests : ~q.lost
    /\ requests' = (requests \ {r}) \cup {[r EXCEPT !.lost = TRUE]}
    /\ Reply(r, FALSE)
    /\ UNCHANGED <<server, ui, loop, wake, frame, typed>>

(* The turn stops for the user, ends and hands over to the next prompt of the
   mailbox, or ends for good and takes the mailbox with it. *)
TurnStops ==
    /\ server.life = "running"
    /\ server.req < MaxRequests
    /\ \E life \in {"permission", "input", "reconciliation"} :
           server' = [server EXCEPT !.life = life, !.req = @ + 1]
    /\ Changed
    /\ UNCHANGED <<ui, loop, feedback, requests, frame, typed>>

TurnEnds ==
    /\ server.life = "running"
    /\ server' \in
          {IF server.queue = <<>> THEN [server EXCEPT !.life = "ready"]
           ELSE [server EXCEPT !.cards = Append(@, Head(server.queue)),
                               !.queue = Tail(@)],
           [server EXCEPT !.life = "over", !.queue = <<>>]}
    /\ Changed
    /\ UNCHANGED <<ui, loop, feedback, requests, frame, typed>>

RivalSettles ==
    /\ "rival" \in TuiFaults
    /\ server.life \in {"permission", "input", "reconciliation"}
    /\ server' = [server EXCEPT !.life =
                      IF @ = "reconciliation" THEN "over" ELSE "running"]
    /\ Changed
    /\ UNCHANGED <<ui, loop, feedback, requests, frame, typed>>

(* spawn_sse_bridge gives up when the stream cannot be opened. *)
BridgeCloses ==
    /\ "closed" \in TuiFaults
    /\ wake' = "closed"
    /\ UNCHANGED <<server, ui, loop, feedback, requests, frame, typed>>

UiLoop == Tick \/ NoKey

TuiNext ==
    \/ Tick \/ TickFails \/ Keys
    \/ \E r \in requests : Serve(r) \/ TimeOut(r)
    \/ TurnStops \/ TurnEnds \/ RivalSettles \/ BridgeCloses

TuiSpec == TuiInit /\ [][TuiNext]_tuiVars

(* The loop of the UI runs, the server answers and turns end; the user need
   not press a key. *)
FairTui ==
    /\ TuiSpec
    /\ WF_tuiVars(UiLoop)
    /\ WF_tuiVars(\E r \in requests : Serve(r))
    /\ WF_tuiVars(TurnEnds)

-----------------------------------------------------------------------------
(* A submitted prompt is never lost by the client: until its card is durable
   it is pending, or back in an editor (reconcile_pending_submission,
   restore_pending_submission), whatever the order in which the snapshot, the
   answer and the user's next keys arrive. *)
SubmittedIsKept ==
    loop # "exited" =>
        typed.submitted \subseteq
            {ui.draft.composer, ui.draft.deferred, ui.draft.pending.text} \cup ToSet(server.cards)

(* No permission is decided that the user has not seen: a key that was typed
   before the frame with the request was drawn does not reach it
   (rendered_permission_request). *)
NoUnseenDecision ==
    [][\A r \in requests' \ requests : r.kind = "decide" => r.id \in frame]_tuiVars

(* What was typed as the answer to one request is never sent as the answer to
   another (input_target, synchronize_input_target). *)
AnswerFitsQuestion ==
    \A r \in requests : r.kind = "answer" => r.value = r.id

(* A submission whose card is durable or whose request has failed does not
   lock the composer for good, whichever of snapshot, wake-up and answer comes
   first (reduce, SubmissionError and Snapshot), unless the answer of a fork
   has taken the user away from it. *)
SubmissionIsSettled ==
    /\ ui.draft.pending.id # 0
    /\ \/ \E i \in DOMAIN server.cards :
             i > ui.draft.pending.after /\ server.cards[i] = ui.draft.pending.text
       \/ [kind |-> "error", id |-> ui.draft.pending.id] \in ToSet(feedback)
ComposerIsFree ==
    ui.draft.pending.id = 0 \/ loop = "exited" \/ ~Authority(ui) \/ ui.conv = "fork"
SettledSubmissionUnlocks == SubmissionIsSettled ~> ComposerIsFree

(* The invariants of the client's session state together. *)
TuiSessionCorrect == TuiTypeOK /\ SubmittedIsKept /\ AnswerFitsQuestion
=============================================================================
