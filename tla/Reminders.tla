------------------------------ MODULE Reminders ------------------------------
(***************************************************************************)
(* The one-shot reminder of a session (latte-headless, session.rs,         *)
(* set_reminder, take_reminder, restore_reminder and their callers         *)
(* follow_up_one and provide_input).  A user arms it while the session is  *)
(* idle; the next turn that is prepared takes it out of a process-local    *)
(* slot, before it has the lease, and gives it back when it does not start *)
(* after all.  Meanwhile another reminder may be armed, another process    *)
(* may run a turn, and a turn may come to wait for input.                  *)
(*                                                                         *)
(* One session, as one process sees it; Rival is every other process.      *)
(***************************************************************************)
EXTENDS Naturals, Sequences, SequencesExt

CONSTANTS Writers,     \* calls of this process
          Reminders,
          NoReminder,
          MaxChanges   \* bound: session revision at which calls stop

ASSUME RemindersAssumption ==
    /\ NoReminder \notin Reminders
    /\ MaxChanges \in Nat

VARIABLES chat,       \* durable: lifecycle, revision, whether it is leased
          entry,      \* the session has a mailbox entry
          slot,       \* pending_reminders
          writer,     \* each call: where it is, its snapshot, what it took
          armed,      \* history: reminders in the order they were armed
          given,      \* history: reminders of the turns that started
          forfeited,  \* history: reminders an answer took and did not return
          crossed     \* history: two calls held a reminder at the same time

remindersVars == <<chat, entry, slot, writer, armed, given, forfeited, crossed>>

IdleWriter == [pc |-> "idle", rev |-> 0, took |-> NoReminder]

Goes(w, pc) == writer' = [writer EXCEPT ![w].pc = pc]
Leaves(w) == writer' = [writer EXCEPT ![w] = IdleWriter]

RemindersInit ==
    /\ chat = [life |-> "ready", rev |-> 0, leased |-> FALSE]
    /\ entry = FALSE
    /\ slot = NoReminder
    /\ writer = [w \in Writers |-> IdleWriter]
    /\ armed = <<>>
    /\ given = <<>>
    /\ forfeited = {}
    /\ crossed = FALSE

-----------------------------------------------------------------------------
(* set_reminder: the lifecycle is read, then the slot is written. *)

ArmCheck(w) ==
    /\ writer[w].pc = "idle"
    /\ chat.life = "ready"
    /\ Goes(w, "arming")
    /\ UNCHANGED <<chat, entry, slot, armed, given, forfeited, crossed>>

ArmInsert(w, r) ==
    /\ writer[w].pc = "arming"
    /\ r \notin ToSet(armed)
    /\ slot' = r
    /\ armed' = Append(armed, r)
    /\ Leaves(w)
    /\ UNCHANGED <<chat, entry, given, forfeited, crossed>>

-----------------------------------------------------------------------------
(* take_reminder and restore_reminder *)

InHand == {writer[w].took : w \in Writers} \ {NoReminder}

Take(w, pc) ==
    /\ writer' = [writer EXCEPT ![w].took = slot, ![w].pc = pc]
    /\ slot' = NoReminder
    /\ crossed' = (crossed \/ (slot # NoReminder /\ InHand # {}))

(* A fault, for comparison: the value is put back whatever the slot holds. *)
RestoredOver(took) == IF took = NoReminder THEN slot ELSE took

(* A reminder that was armed meanwhile is not overwritten. *)
Restored(took) == IF slot = NoReminder THEN took ELSE slot

GiveBack(w) ==
    /\ slot' = Restored(writer[w].took)
    /\ Leaves(w)

-----------------------------------------------------------------------------
(* follow_up_one, with the guard its callers hold *)

BeginFollowUp(w) ==
    /\ writer[w].pc = "idle"
    /\ ~entry
    /\ chat.rev < MaxChanges
    /\ entry' = TRUE
    /\ Goes(w, "begun")
    /\ UNCHANGED <<chat, slot, armed, given, forfeited, crossed>>

(* load_full, and the refusal of a session that accepts no follow-up *)
LoadFollowUp(w) ==
    /\ writer[w].pc = "begun"
    /\ IF chat.life = "ready"
       THEN /\ writer' = [writer EXCEPT ![w].pc = "loaded", ![w].rev = chat.rev]
            /\ UNCHANGED entry
       ELSE Leaves(w) /\ entry' = FALSE
    /\ UNCHANGED <<chat, slot, armed, given, forfeited, crossed>>

TakeForFollowUp(w) ==
    /\ writer[w].pc = "loaded"
    /\ Take(w, "prepared")
    /\ UNCHANGED <<chat, entry, armed, given, forfeited>>

(* prepare_history fails, or the lease is not to be had; the guard goes. *)
RefuseFollowUp(w) ==
    /\ writer[w].pc = "prepared"
    /\ GiveBack(w)
    /\ entry' = FALSE
    /\ UNCHANGED <<chat, armed, given, forfeited, crossed>>

AcquireFor(w, from, to) ==
    /\ writer[w].pc = from
    /\ ~chat.leased
    /\ chat' = [chat EXCEPT !.leased = TRUE]
    /\ Goes(w, to)
    /\ UNCHANGED <<entry, slot, armed, given, forfeited, crossed>>

(* The turn starts and owns what was taken, or the submission is refused. *)
CommitFollowUp(w) ==
    /\ writer[w].pc = "leased"
    /\ IF chat.life = "ready" /\ chat.rev = writer[w].rev
       THEN /\ chat' = [life |-> "running", rev |-> chat.rev + 1, leased |-> TRUE]
            /\ given' = Append(given, writer[w].took)
            /\ writer' = [writer EXCEPT ![w].pc = "turn", ![w].took = NoReminder]
            /\ UNCHANGED <<entry, slot>>
       ELSE /\ chat' = [chat EXCEPT !.leased = FALSE]
            /\ GiveBack(w)
            /\ entry' = FALSE
            /\ UNCHANGED given
    /\ UNCHANGED <<armed, forfeited, crossed>>

(* The turn ends, or waits for input and keeps its mailbox entry. *)
LeaveTurn(w) ==
    /\ writer[w].pc = "turn"
    /\ \E next \in {"ready", "input"} :
           /\ chat' = [life |-> next, rev |-> chat.rev + 1, leased |-> FALSE]
           /\ entry' = (next = "input")
    /\ Leaves(w)
    /\ UNCHANGED <<slot, armed, given, forfeited, crossed>>

-----------------------------------------------------------------------------
(* provide_input *)

LoadAnswer(w) ==
    /\ writer[w].pc = "idle"
    /\ chat.life = "input"
    /\ chat.rev < MaxChanges
    /\ writer' = [writer EXCEPT ![w].pc = "answer", ![w].rev = chat.rev]
    /\ UNCHANGED <<chat, entry, slot, armed, given, forfeited, crossed>>

TakeForAnswer(w) ==
    /\ writer[w].pc = "answer"
    /\ Take(w, "answering")
    /\ UNCHANGED <<chat, entry, armed, given, forfeited>>

(* prepare_history fails. *)
UnpreparedAnswer(w) ==
    /\ writer[w].pc = "answering"
    /\ GiveBack(w)
    /\ UNCHANGED <<chat, entry, armed, given, forfeited, crossed>>

(* The provider cannot be built, or the lease is not to be had: both returns
   leave the reminder behind in the call. *)
RefuseAnswer(w) ==
    /\ writer[w].pc = "answering"
    /\ forfeited' = forfeited \cup ({writer[w].took} \ {NoReminder})
    /\ Leaves(w)
    /\ UNCHANGED <<chat, entry, slot, armed, given, crossed>>

(* ensure_runner, and the commit that resumes the turn *)
CommitAnswer(w) ==
    /\ writer[w].pc = "answerable"
    /\ entry' = TRUE
    /\ IF chat.life = "input" /\ chat.rev = writer[w].rev
       THEN /\ chat' = [life |-> "running", rev |-> chat.rev + 1, leased |-> TRUE]
            /\ given' = Append(given, writer[w].took)
            /\ writer' = [writer EXCEPT ![w].pc = "turn", ![w].took = NoReminder]
            /\ UNCHANGED slot
       ELSE /\ chat' = [chat EXCEPT !.leased = FALSE]
            /\ GiveBack(w)
            /\ UNCHANGED given
    /\ UNCHANGED <<armed, forfeited, crossed>>

-----------------------------------------------------------------------------
(* Another process runs a turn until it ends or waits for input. *)
Rival ==
    /\ chat.life \in {"ready", "input"}
    /\ ~chat.leased
    /\ chat.rev < MaxChanges
    /\ \E next \in {"ready", "input"} :
           chat' = [chat EXCEPT !.life = next, !.rev = @ + 1]
    /\ UNCHANGED <<entry, slot, writer, armed, given, forfeited, crossed>>

FollowUpStep(w) ==
    \/ BeginFollowUp(w) \/ LoadFollowUp(w) \/ TakeForFollowUp(w) \/ RefuseFollowUp(w)
    \/ AcquireFor(w, "prepared", "leased") \/ CommitFollowUp(w) \/ LeaveTurn(w)

AnswerStep(w) ==
    \/ LoadAnswer(w) \/ TakeForAnswer(w) \/ UnpreparedAnswer(w) \/ RefuseAnswer(w)
    \/ AcquireFor(w, "answering", "answerable") \/ CommitAnswer(w)

RemindersNext ==
    \/ \E w \in Writers :
           \/ ArmCheck(w)
           \/ \E r \in Reminders : ArmInsert(w, r)
           \/ FollowUpStep(w)
           \/ AnswerStep(w)
    \/ Rival

RemindersSpec == RemindersInit /\ [][RemindersNext]_remindersVars

-----------------------------------------------------------------------------
(* "A newer reminder armed concurrently is never overwritten", and one that no
   turn owns is given back (restore_reminder): the reminder that was armed last
   is in the slot, in the hands of a call, or was given to a turn.  The
   exceptions are an answer that took it and is refused on one of two ways, and two
   calls with a reminder each, of which the first to give its own back fills the
   slot. *)
NewestIsKept ==
    armed # <<>> /\ ~crossed =>
        Last(armed) \in {slot} \cup InHand \cup ToSet(given) \cup forfeited

(* A reminder is "consumed once" and "must not resurface" (resolve_permission):
   no two turns are given the same one, and one that was given is nowhere else. *)
GivenOnce ==
    LET turns == {i \in DOMAIN given : given[i] # NoReminder} IN
    /\ \A i, j \in turns : given[i] = given[j] => i = j
    /\ \A i \in turns : given[i] \notin {slot} \cup InHand
    /\ \A v, w \in Writers :
           writer[v].took = writer[w].took /\ writer[v].took # NoReminder => v = w

(* The invariants of the reminder together. *)
RemindersCorrect == NewestIsKept /\ GivenOnce
=============================================================================
