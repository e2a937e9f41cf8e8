---------------------------- MODULE TuiControls ----------------------------
(***************************************************************************)
(* The commands of the terminal UI (latte-tui: command.rs and the pickers, *)
(* the palette and the slash popup of session.rs) and the model a prompt   *)
(* is run with.  A model is chosen for a draft in the UI alone, for an     *)
(* open session by a request that carries the revision the user saw; until *)
(* a snapshot shows the chosen model, the UI holds a lock that keeps it    *)
(* from submitting and from leaving the session.  Answers, snapshots and   *)
(* the switches of another client come in any order.  The answer to /fork  *)
(* opens the fork, whatever the UI holds by then.                          *)
(*                                                                         *)
(* The first session of the server and one fork of it.  The server is what *)
(* these requests see of them: the model, the revision, whether a turn     *)
(* runs.  The search of the pickers, the mouse, and what follow-ups do     *)
(* behind a running turn (see SessionMailbox) are left out.                *)
(***************************************************************************)
EXTENDS Naturals, Sequences, FiniteSets

CONSTANTS Models,        \* model_catalog; the first choice of a draft is
          DefaultModel,  \*   the configured default
          MaxPrompts,    \* bound: prompts typed
          MaxSwitches,   \* bound: switches asked for
          MaxRivals,     \* bound: switches of another client
          MaxErrors      \* bound: requests that fail

ASSUME ControlsAssumption ==
    /\ DefaultModel \in Models
    /\ MaxPrompts \in Nat /\ MaxSwitches \in Nat
    /\ MaxRivals \in Nat /\ MaxErrors \in Nat

VARIABLES hosted,   \* the server's sessions
          panel,    \* the part of SessionUiModel that is modelled here
          asked,    \* requests under way
          told,     \* answers under way to the UI
          stale,    \* a session has changed since the last refresh
          ran,      \* history: for each prompt run, the model shown and used
          used      \* counters of the bounds

controlsVars == <<hosted, panel, asked, told, stale, ran, used>>

Chats == {"first", "fork"}

(* BUILTINS and their ArgumentPolicy: one command of each kind that matters
   here.  Rename stands for the commands that change nothing of the panel. *)
Policy == [new |-> "none", sessions |-> "optional", model |-> "none",
           rename |-> "required", fork |-> "optional"]

(* What the composer may hold: nothing, a prompt, a slash line with the popup
   over it, or one without.  The line can be edited at any time: which command
   it is, is chosen when it is used. *)
Line == {"empty", "prompt", "popup", "slash"}

(* resolve_slash. *)
FitsPolicy(name, argument) ==
    /\ Policy[name] = "none" => ~argument
    /\ Policy[name] = "required" => argument

NoLock == [id |-> 0, model |-> DefaultModel, chat |-> "first"]

NothingOpen == [exists |-> FALSE, life |-> "ready", model |-> DefaultModel, rev |-> 0]

(* The session may have been there before. *)
ControlsInit ==
    /\ \E there \in BOOLEAN :
           hosted = [c \in Chats |-> [NothingOpen EXCEPT !.exists = there /\ c = "first"]]
    /\ panel = [open |-> FALSE, chat |-> "first", view |-> NothingOpen, overlay |-> "none",
                line |-> "empty", draft |-> DefaultModel, lock |-> NoLock,
                pending |-> "none", next |-> 1]
    /\ asked = {}
    /\ told = {}
    /\ stale = FALSE
    /\ ran = {}
    /\ used = [prompts |-> 0, rivals |-> 0, errors |-> 0]

-----------------------------------------------------------------------------
(* Reading the panel. *)

(* selected_provider_model: what composer_meta shows. *)
ShownModel(p) == IF p.open THEN p.view.model ELSE p.draft

(* session_switch_available. *)
Available(p) == p.pending = "none" /\ p.lock.id = 0 /\ (p.open => p.view.life = "ready")

(* reconcile_pending_model_switch: only the session in view can end the wait. *)
LockAfter(p) ==
    IF p.lock.id # 0 /\ p.chat = p.lock.chat /\ p.view.model = p.lock.model THEN NoLock
    ELSE p.lock

(* reconcile_pending_submission: likewise, once its prompt is durable. *)
PendingAfter(p) ==
    IF p.pending = p.chat
       /\ ~\E r \in asked : r.kind \in {"start", "follow"}
       /\ ~\E a \in told : a.kind \in {"start", "follow"}
    THEN "none" ELSE p.pending

(* SessionOpened: a fresh snapshot of a session.  The model picker stays. *)
InSession(p, chat) ==
    LET q == [p EXCEPT !.open = TRUE, !.chat = chat, !.view = hosted[chat],
                       !.overlay = IF @ = "models" THEN @ ELSE "none"]
    IN [q EXCEPT !.lock = LockAfter(q), !.pending = PendingAfter(q)]

(* RefreshSnapshots: a draft whose prompt has made a session becomes it. *)
Reloaded(p) ==
    IF p.open THEN InSession(p, p.chat)
    ELSE IF p.pending # "none" /\ hosted["first"].exists
    THEN [InSession(p, "first") EXCEPT !.overlay = p.overlay]
    ELSE p

-----------------------------------------------------------------------------
(* Keys.  A picker, then the palette, then the popup, then the composer. *)

Only(p) == panel' = p /\ UNCHANGED <<hosted, asked, told, stale, ran, used>>

TypeLine ==
    /\ panel.overlay = "none"
    /\ panel.line = "empty"
    /\ \E line \in Line \ {"empty"} :
           /\ line = "prompt" => used.prompts < MaxPrompts
           /\ Only([panel EXCEPT !.line = line])

EraseLine ==
    /\ panel.overlay = "none"
    /\ panel.line # "empty"
    /\ Only([panel EXCEPT !.line = "empty"])

(* dispatch_builtin, for what changes the panel alone. *)
Dispatched(p, name) ==
    CASE ~Available(p) -> p
      [] name = "new" /\ Available(p) ->
            [p EXCEPT !.open = FALSE, !.chat = "first", !.view = NothingOpen,
                      !.draft = DefaultModel]
      [] name = "sessions" /\ Available(p) -> [p EXCEPT !.overlay = "sessions"]
      [] name = "model" /\ Available(p) -> [p EXCEPT !.overlay = "models"]
      [] OTHER -> p

(* dispatch_builtin: /fork asks the server and marks nothing.  One fork is
   asked for at a time, and one is made. *)
Dispatch(p, name) ==
    IF name = "fork" /\ Available(p) /\ p.open
    THEN /\ ~hosted["fork"].exists /\ \A r \in asked : r.kind # "fork"
         /\ panel' = p
         /\ asked' = asked \cup {[kind |-> "fork", id |-> 0, chat |-> p.chat,
                                  model |-> DefaultModel, rev |-> 0]}
         /\ UNCHANGED <<hosted, told, stale, ran, used>>
    ELSE Only(Dispatched(p, name))

(* A command that would not run leaves its line in the composer. *)
LineAfter(p, name) ==
    IF name \in {"new", "sessions", "model"} /\ ~Available(p) THEN p.line ELSE "empty"

(* reduce_slash_popup_key: Enter runs the suggestion. *)
PopupEnter ==
    /\ panel.overlay = "none"
    /\ panel.line = "popup"
    /\ panel.pending = "none"
    /\ \E name \in DOMAIN Policy :
           Dispatch([panel EXCEPT !.line = LineAfter(panel, name)], name)

PopupDismiss ==
    /\ panel.overlay = "none"
    /\ panel.line = "popup"
    /\ Only([panel EXCEPT !.line = "slash"])

(* Ctrl+P, and Enter in the palette: dispatched without an argument. *)
OpenPalette ==
    /\ panel.overlay = "none"
    /\ Only([panel EXCEPT !.overlay = "palette"])

PaletteEnter ==
    /\ panel.overlay = "palette"
    /\ \E name \in DOMAIN Policy :
           Dispatch([panel EXCEPT !.overlay = "none"], name)

(* Esc. *)
CloseOverlay == panel.overlay # "none" /\ Only([panel EXCEPT !.overlay = "none"])

(* reduce_session_picker_key, Enter. *)
PickSession ==
    /\ panel.overlay = "sessions"
    /\ \E c \in Chats : hosted[c].exists /\ Only(InSession(panel, c))

(* reduce_model_picker_key, Enter on one of the models. *)
PickModel ==
    /\ panel.overlay = "models"
    /\ \E m \in Models :
         IF ~panel.open
         THEN Only([panel EXCEPT !.overlay = "none", !.draft = m])
         ELSE IF panel.view.life # "ready" \/ panel.view.model = m
         THEN Only([panel EXCEPT !.overlay = "none"])
         ELSE /\ panel.next <= MaxSwitches
              /\ panel' = [panel EXCEPT !.overlay = "none", !.next = @ + 1,
                                        !.lock = [id |-> panel.next, model |-> m,
                                                  chat |-> panel.chat]]
              /\ asked' = asked \cup {[kind |-> "switch", id |-> panel.next,
                                       chat |-> panel.chat, model |-> m,
                                       rev |-> panel.view.rev]}
              /\ UNCHANGED <<hosted, told, stale, ran, used>>

(* submit_composer: nothing is submitted while a submission or a switch is
   under way. *)
MaySubmit == panel.overlay = "none" /\ panel.pending = "none" /\ panel.lock.id = 0

(* submit_slash_candidate. *)
SubmitCommand ==
    /\ MaySubmit
    /\ panel.line = "slash"
    /\ \E name \in DOMAIN Policy, argument \in BOOLEAN :
           /\ FitsPolicy(name, argument)
           /\ Dispatch([panel EXCEPT !.line = LineAfter(panel, name)], name)

(* A prompt for a new session with the model shown, or a follow-up fenced by
   the revision shown. *)
SubmitPrompt ==
    /\ MaySubmit
    /\ panel.line = "prompt"
    /\ IF panel.open THEN panel.view.life = "ready" ELSE ~hosted["first"].exists
    /\ panel' = [panel EXCEPT !.line = "empty", !.pending = panel.chat]
    /\ asked' = asked \cup {[kind |-> IF panel.open THEN "follow" ELSE "start",
                             id |-> 0, chat |-> panel.chat,
                             model |-> ShownModel(panel), rev |-> panel.view.rev]}
    /\ used' = [used EXCEPT !.prompts = @ + 1]
    /\ UNCHANGED <<hosted, told, stale, ran>>

-----------------------------------------------------------------------------
(* The server and the other client. *)

(* A fault, for comparison: the revision is not looked at. *)
FencedAlways(r) == hosted[r.chat].life = "ready"

(* The revision fence of switch_model and follow_up. *)
Fenced(r) == hosted[r.chat].life = "ready" /\ r.rev = hosted[r.chat].rev

(* The answers the UI does something with. *)
Reported(r, ok) ==
    told' = IF r.kind = "switch" \/ ok = (r.kind = "fork")
            THEN told \cup {[kind |-> r.kind, id |-> r.id, ok |-> ok]} ELSE told

(* A session becomes another, a revision on. *)
Revised(chat, life, model) ==
    hosted' = [hosted EXCEPT ![chat] = [exists |-> TRUE, life |-> life, model |-> model,
                                        rev |-> hosted[chat].rev + 1]]

(* create_session_fork asks nothing of the session it copies. *)
Performed(r) ==
    /\ stale' = TRUE
    /\ Reported(r, TRUE)
    /\ CASE r.kind = "switch" ->
               Fenced(r) /\ Revised(r.chat, "ready", r.model) /\ UNCHANGED ran
         [] r.kind = "start" ->
               /\ ~hosted[r.chat].exists
               /\ Revised(r.chat, "running", r.model)
               /\ ran' = ran \cup {[shown |-> r.model, with |-> r.model]}
         [] r.kind = "follow" ->
               /\ Fenced(r)
               /\ Revised(r.chat, "running", hosted[r.chat].model)
               /\ ran' = ran \cup {[shown |-> r.model, with |-> hosted[r.chat].model]}
         [] r.kind = "fork" ->
               Revised("fork", "ready", hosted[r.chat].model) /\ UNCHANGED ran
    /\ UNCHANGED used

RefuseAsked(r) ==
    /\ Reported(r, FALSE)
    /\ \/ UNCHANGED used
          /\ r.kind \in {"switch", "follow"} /\ ~Fenced(r)
       \/ used.errors < MaxErrors /\ used' = [used EXCEPT !.errors = @ + 1]
    /\ UNCHANGED <<hosted, stale, ran>>

ServeAsked(r) ==
    /\ r \in asked
    /\ asked' = asked \ {r}
    /\ Performed(r) \/ RefuseAsked(r)
    /\ UNCHANGED panel

TurnIsOver ==
    /\ \E c \in Chats : /\ hosted[c].life = "running"
                        /\ Revised(c, "ready", hosted[c].model)
    /\ stale' = TRUE
    /\ UNCHANGED <<panel, asked, told, ran, used>>

RivalSwitches ==
    /\ used.rivals < MaxRivals
    /\ \E c \in Chats : /\ hosted[c].exists /\ hosted[c].life = "ready"
                        /\ \E m \in Models \ {hosted[c].model} : Revised(c, "ready", m)
    /\ stale' = TRUE
    /\ used' = [used EXCEPT !.rivals = @ + 1]
    /\ UNCHANGED <<panel, asked, told, ran>>

-----------------------------------------------------------------------------
(* The loop. *)

(* The projection says that something changed. *)
Wakes ==
    /\ stale
    /\ stale' = FALSE
    /\ panel' = Reloaded(panel)
    /\ UNCHANGED <<hosted, asked, told, ran, used>>

(* ModelSwitchCompleted refreshes, ModelSwitchError ends the wait, an answer to
   another switch does nothing; the prompt of a failed submission comes back.
   Forked: the fork is opened, and nothing is asked first. *)
Hears(a) ==
    /\ a \in told
    /\ told' = told \ {a}
    /\ panel' =
          CASE a.kind = "switch" /\ panel.lock.id = a.id ->
                  IF a.ok THEN Reloaded(panel) ELSE [panel EXCEPT !.lock = NoLock]
            [] a.kind \in {"start", "follow"} /\ panel.pending # "none" ->
                  [Reloaded(panel) EXCEPT !.pending = "none", !.line = "prompt"]
            [] a.kind = "fork" -> InSession(panel, "fork")
            [] OTHER -> panel
    /\ UNCHANGED <<hosted, asked, stale, ran, used>>

ControlsKeys ==
    \/ TypeLine \/ EraseLine \/ PopupEnter \/ PopupDismiss \/ OpenPalette
    \/ PaletteEnter \/ CloseOverlay \/ PickSession \/ PickModel
    \/ SubmitCommand \/ SubmitPrompt

ControlsNext ==
    \/ ControlsKeys \/ TurnIsOver \/ RivalSwitches \/ Wakes
    \/ \E r \in asked : ServeAsked(r)
    \/ \E a \in told : Hears(a)

(* The server answers what it is asked, and the UI loop takes what it is told. *)
ControlsFairness ==
    /\ WF_controlsVars(\E r \in asked : ServeAsked(r))
    /\ WF_controlsVars(Wakes)
    /\ WF_controlsVars(\E a \in told : Hears(a))

ControlsSpec == ControlsInit /\ [][ControlsNext]_controlsVars /\ ControlsFairness

-----------------------------------------------------------------------------
(* A prompt runs with the model that was on the screen when it was submitted,
   although the session may be switched meanwhile by another client, and the
   fork may come into view (expected_session_revision of FollowUp and
   SwitchModel, draft_model). *)
RunsWithShownModel == \A r \in ran : r.shown = r.with

(* The panel shows the fork, and what it waits for belongs to the session that
   was forked. *)
TakenAway(chat) == panel.open /\ panel.chat = "fork" /\ chat = "first"

(* The lock of a model switch is not held for good: the switch was refused, or
   a snapshot shows its model, unless another client has switched the session
   or the answer of a fork has taken the user away from it
   (reconcile_pending_model_switch). *)
SwitchLocks == panel.lock.id # 0
SwitchLockEnds ==
    SwitchLocks ~> (~SwitchLocks \/ used.rivals > 0 \/ TakenAway(panel.lock.chat))

(* While a switch or a submission is under way, no command, picker or popup
   leaves its session and no second model is picked: only the answer of a fork
   that was asked for before takes the user away, and only to the fork
   (submit_composer, session_switch_available, dispatch_builtin). *)
OnlyAForkLeaves ==
    /\ panel.lock.id # 0 =>
          /\ panel.open /\ panel.overlay # "models" /\ panel.pending = "none"
          /\ panel.chat = panel.lock.chat \/ TakenAway(panel.lock.chat)
    /\ panel.pending # "none" /\ panel.open =>
          panel.chat = panel.pending \/ TakenAway(panel.pending)

(* While a switch of the model is under way its session stays in view, so that a
   snapshot can confirm it: session_switch_available refuses every other session,
   and docs/design/slash-commands.md has that checked again at dispatch, and the
   composer locked until the snapshot confirms the switch. *)
LockHoldsTheSession ==
    panel.lock.id # 0 => panel.open /\ panel.chat = panel.lock.chat

(* The invariants of the controls together. *)
TuiControlsCorrect == RunsWithShownModel /\ OnlyAForkLeaves
=============================================================================
