--------------------------- MODULE TuiTranscript ---------------------------
(***************************************************************************)
(* What the terminal UI makes of a session's cards (latte-tui, session.rs, *)
(* project_transcript): they are grouped by turn, a tool's result is       *)
(* folded into the action its call opened, and the note that an effect     *)
(* started turns that action into a running one.  The UI sees only a       *)
(* bounded tail of the cards, as of the last snapshot, and a provider may  *)
(* give the calls of different turns the same id.  The permission and the  *)
(* reconciliation card take their subject from the same tail.              *)
(*                                                                         *)
(* The runtime below writes the cards that the ledger writes, in its       *)
(* order: one call at a time, a started note, and a result or the failure  *)
(* that leaves an outcome unknown.  A card carries the number of the call  *)
(* it belongs to, which is the effect id of the code; the UI uses it only  *)
(* where the code uses the effect id.                                      *)
(***************************************************************************)
EXTENDS Naturals, Sequences, FiniteSets, SequencesExt

CONSTANTS CallNames,      \* tool_call_id, unique within a turn
          TailCards,      \* cards of the bounded transcript of a snapshot
          MaxTurnsShown,  \* bound: turns
          MaxCallsShown,  \* bound: calls over all turns
          MaxProgress     \* entries of model.progress (64)

ASSUME TranscriptAssumption ==
    /\ TailCards \in Nat \ {0}
    /\ MaxTurnsShown \in Nat /\ MaxCallsShown \in Nat
    /\ MaxProgress \in Nat \ {0}

VARIABLES calls,     \* the runtime: what became of each call
          cards,     \* the durable cards
          chat,      \* lifecycle, active turn, number of turns
          held,      \* the snapshot the UI holds
          progress   \* model.progress: transient, of one turn each

transcriptVars == <<calls, cards, chat, held, progress>>

NoTurn == 0

(* A card of one session is a record [kind, turn, name, n]; n is the call, 0 for
   a card of no call. *)

-----------------------------------------------------------------------------
(* The projection. *)

(* The action a result belongs to: same turn, same id, no result yet. *)
Opens(items, card) ==
    {i \in DOMAIN items : /\ items[i].turn = card.turn
                          /\ items[i].name = card.name
                          /\ items[i].result = 0
                          /\ items[i].opened}

LastOf(S) == CHOOSE i \in S : \A j \in S : j <= i

(* The state of a call's action as its card opens it. *)
CallState(view, card) ==
    CASE card.turn = view.active /\ view.life = "permission" -> "Waiting"
      [] card.turn = view.active /\ view.life = "running" -> "Running"
      [] OTHER -> "Recorded"

Action(card, state, opened) ==
    [turn |-> card.turn, name |-> card.name, key |-> card.n, state |-> state,
     result |-> 0, opened |-> opened]

ResultState(card) == IF card.kind = "error" THEN "Failed" ELSE "Succeeded"

(* One card; every action of the view that is not of a call is left out. *)
Fold(view, items, card) ==
    CASE card.kind = "call" ->
            Append(items, Action(card, CallState(view, card), TRUE))
      [] card.kind \in {"result", "error"} ->
            IF Opens(items, card) = {}
            THEN Append(items, Action(card, ResultState(card), FALSE))
            ELSE [items EXCEPT ![LastOf(Opens(items, card))].state = ResultState(card),
                               ![LastOf(Opens(items, card))].result = card.n]
      [] card.kind = "started" ->
            LET its == {i \in DOMAIN items : /\ items[i].turn = card.turn
                                             /\ items[i].opened
                                             /\ items[i].key = card.n}
            IN IF its = {} THEN items
               ELSE [items EXCEPT ![LastOf(its)].state = "Running"]
      [] OTHER -> items

(* project_transcript, of the actions.  Grouping by turn only orders them,
   because the cards of a turn are contiguous. *)
ProjectTranscript(view) ==
    LET shown[k \in 0..Len(view.tail)] ==
            IF k = 0 THEN <<>> ELSE Fold(view, shown[k - 1], view.tail[k])
    IN shown[Len(view.tail)]

(* A fault, for comparison: the oldest call with that id is taken. *)
PermissionByName(view) ==
    LET named == {i \in DOMAIN view.tail :
                     view.tail[i].kind = "call" /\ view.pending # 0 /\
                     view.tail[i].name = view.calls[view.pending].name}
    IN {view.tail[i].n : i \in {j \in named : \A k \in named : j <= k}}

(* permission_presentation: the call whose effect is asked for, if the tail
   still has its card. *)
PermissionSubject(view) ==
    {c.n : c \in {d \in ToSet(view.tail) : d.kind = "call" /\ d.n = view.pending}}

(* reconciliation_effect_from_snapshot: the newest unknown outcome. *)
ReconciliationEffect(view) ==
    LET at == {i \in DOMAIN view.tail : view.tail[i].kind = "unknown"}
    IN IF view.life # "reconciliation" \/ at = {} THEN 0
       ELSE view.tail[LastOf(at)].n

-----------------------------------------------------------------------------
TranscriptInit ==
    /\ calls = <<>>
    /\ cards = <<>>
    /\ chat = [life |-> "ready", active |-> NoTurn, turns |-> 0, pending |-> 0]
    /\ held = [life |-> "ready", active |-> NoTurn, pending |-> 0, tail |-> <<>>,
               calls |-> <<>>]
    /\ progress = <<>>

AppendCard(kind, turn, name, n) ==
    cards' = Append(cards, [kind |-> kind, turn |-> turn, name |-> name, n |-> n])

UiStays == UNCHANGED <<held, progress>>

BeginTurn ==
    /\ chat.life = "ready"
    /\ chat.turns < MaxTurnsShown
    /\ chat' = [life |-> "running", active |-> chat.turns + 1,
                turns |-> chat.turns + 1, pending |-> 0]
    /\ AppendCard("user", chat.turns + 1, 0, 0)
    /\ UiStays /\ UNCHANGED calls

(* The next call of the turn: it runs at once, or waits for consent. *)
CallInHand == \E i \in DOMAIN calls : calls[i].is \in {"prepared", "waiting", "started"}

PrepareShown(name, waits) ==
    LET n == Len(calls) + 1 IN
    /\ chat.life = "running"
    /\ ~CallInHand
    /\ n <= MaxCallsShown
    /\ \A i \in DOMAIN calls : calls[i].turn = chat.active => calls[i].name # name
    /\ calls' = Append(calls, [turn |-> chat.active, name |-> name,
                               is |-> IF waits THEN "waiting" ELSE "prepared"])
    /\ AppendCard("call", chat.active, name, n)
    /\ chat' = IF waits THEN [chat EXCEPT !.life = "permission", !.pending = n]
               ELSE chat
    /\ UiStays

LastIs(is) == Len(calls) > 0 /\ calls[Len(calls)].is = is

Becomes(is) == calls' = [calls EXCEPT ![Len(calls)].is = is]

Allowed ==
    /\ LastIs("waiting")
    /\ Becomes("prepared")
    /\ chat' = [chat EXCEPT !.life = "running", !.pending = 0]
    /\ UiStays /\ UNCHANGED cards

(* A denied call is answered like one that failed. *)
Denied ==
    /\ LastIs("waiting")
    /\ Becomes("refused")
    /\ AppendCard("error", chat.active, calls[Len(calls)].name, Len(calls))
    /\ chat' = [chat EXCEPT !.life = "running", !.pending = 0]
    /\ UiStays

StartEffect ==
    /\ LastIs("prepared")
    /\ Becomes("started")
    /\ AppendCard("started", chat.active, 0, Len(calls))
    /\ UiStays /\ UNCHANGED chat

FinishEffect(is) ==
    /\ LastIs("started")
    /\ Becomes(is)
    /\ AppendCard(IF is = "done" THEN "result" ELSE "error", chat.active,
             calls[Len(calls)].name, Len(calls))
    /\ UiStays /\ UNCHANGED chat

LoseEffect ==
    /\ LastIs("started")
    /\ Becomes("unknown")
    /\ AppendCard("unknown", chat.active, 0, Len(calls))
    /\ chat' = [chat EXCEPT !.life = "reconciliation"]
    /\ UiStays

Reconciled ==
    /\ chat.life = "reconciliation"
    /\ chat' = [chat EXCEPT !.life = "over", !.active = NoTurn]
    /\ UiStays /\ UNCHANGED <<calls, cards>>

EndShownTurn ==
    /\ chat.life = "running"
    /\ ~CallInHand
    /\ AppendCard("completion", chat.active, 0, 0)
    /\ chat' = [chat EXCEPT !.life = "ready", !.active = NoTurn]
    /\ UiStays /\ UNCHANGED calls

Runtime ==
    \/ BeginTurn \/ Allowed \/ Denied \/ StartEffect \/ LoseEffect \/ Reconciled
    \/ EndShownTurn
    \/ \E name \in CallNames, waits \in BOOLEAN : PrepareShown(name, waits)
    \/ \E is \in {"done", "failed"} : FinishEffect(is)

-----------------------------------------------------------------------------
(* The UI. *)

Window == IF Len(cards) <= TailCards THEN cards
          ELSE SubSeq(cards, Len(cards) - TailCards + 1, Len(cards))

(* SessionOpened and Snapshot: the view is replaced and the progress cleared. *)
Snapshot ==
    /\ held' = [life |-> chat.life, active |-> chat.active, pending |-> chat.pending,
                tail |-> Window, calls |-> calls]
    /\ progress' = <<>>
    /\ UNCHANGED <<calls, cards, chat>>

(* record_progress: text goes to the last entry, an attempt and a tool to their
   own; what finds no room is dropped. *)
Recorded(p, kind, turn) ==
    LET e == [kind |-> kind, turn |-> turn]
        merges == IF kind = "delta" THEN p # <<>> /\ Last(p) = e
                  ELSE \E i \in DOMAIN p : p[i] = e
    IN IF merges \/ Len(p) >= MaxProgress THEN p ELSE Append(p, e)

(* Progress of the latest turn, which may be over when it arrives. *)
ProgressArrives(kind) ==
    /\ chat.turns > 0
    /\ progress' = Recorded(progress, kind, chat.turns)
    /\ UNCHANGED <<calls, cards, chat, held>>

(* render_transcript and render_progress: only of the turn that is shown as
   active. *)
ProgressShown ==
    {e \in ToSet(progress) : held.active # NoTurn /\ e.turn = held.active}

TranscriptNext ==
    \/ Runtime \/ Snapshot
    \/ \E kind \in {"delta", "attempt"} : ProgressArrives(kind)

TranscriptSpec == TranscriptInit /\ [][TranscriptNext]_transcriptVars

-----------------------------------------------------------------------------
(* The calls whose card is in the tail. *)
Listed(view) == {c.n : c \in {d \in ToSet(view.tail) : d.kind = "call"}}

(* The transcript tells what became of every call it lists, as of its snapshot:
   one action for each, waiting or running while it is, with its own result
   and no other call's, even when an earlier turn used the same id
   (project_transcript). *)
TranscriptIsTrue ==
    LET shown == ProjectTranscript(held) IN
    \A n \in Listed(held) :
        \E i \in DOMAIN shown :
           LET item == shown[i]
               is == held.calls[n].is
           IN
           /\ {j \in DOMAIN shown : shown[j].key = n} = {i}
           /\ item.result \in {0, n}
           /\ is = "waiting" => item.state = "Waiting"
           /\ is = "started" => item.state = "Running"
           /\ is = "done" => item.state = "Succeeded"
           /\ is \in {"failed", "refused"} => item.state = "Failed"

(* No result is shown twice, and none is dropped: a result whose call is no
   longer in the tail has an action of its own. *)
ResultsAreShownOnce ==
    LET shown == ProjectTranscript(held) IN
    \A c \in {d \in ToSet(held.tail) : d.kind \in {"result", "error"}} :
        Cardinality({i \in DOMAIN shown :
                        \/ shown[i].result = c.n
                        \/ ~shown[i].opened /\ shown[i].key = c.n}) = 1

(* The blocking cards name the call that is really waiting or unknown, and
   always have one to name, although they look for it in the bounded tail
   (permission_presentation, reconciliation_effect_from_snapshot). *)
BlockingCardsHaveSubject ==
    /\ held.life = "permission" =>
          /\ PermissionSubject(held) = {held.pending}
          /\ held.calls[held.pending].is = "waiting"
    /\ held.life = "reconciliation" =>
          /\ ReconciliationEffect(held) # 0
          /\ held.calls[ReconciliationEffect(held)].is = "unknown"

(* Progress is bounded and is shown only for the turn the view shows as active
   (record_progress, render_progress). *)
ProgressIsCurrent ==
    /\ Len(progress) <= MaxProgress
    /\ held.life \in {"ready", "over"} => ProgressShown = {}

(* The invariants of the transcript view together. *)
TuiTranscriptCorrect ==
    /\ TranscriptIsTrue /\ ResultsAreShownOnce
    /\ BlockingCardsHaveSubject /\ ProgressIsCurrent
=============================================================================
