-------------------------- MODULE ConversationLog --------------------------
(***************************************************************************)
(* The way of one session's cards from the database to its JSONL file      *)
(* (latte-engine: EngineHandle::sync_session_conversation in lib.rs, the   *)
(* conversation_outbox table in storage.rs, ConversationStore in           *)
(* conversation.rs).  A commit puts the card into the outbox; whoever      *)
(* needs the conversation drains the outbox into the file, fsyncs it and   *)
(* deletes what it drained; readers then read the file alone.  Drainers of *)
(* several processes overlap, and any of them may die between two writes.  *)
(***************************************************************************)
EXTENDS Integers, Sequences, SequencesExt, FiniteSetsExt

CONSTANTS Drainers,      \* tasks, in one or several processes
          None,          \* nobody
          MaxSeq,        \* bound: sequence number of the last commit
          MaxCrashes,    \* bound: crashes and power failures
          MaxRecords,    \* MAX_FILE_BYTES, as a number of records
          Oversized      \* the cards whose record is over MAX_RECORD_BYTES

ASSUME ConversationAssumption ==
    /\ None \notin Drainers
    /\ MaxSeq \in Nat
    /\ MaxCrashes \in Nat
    /\ MaxRecords \in Nat
    /\ Oversized \subseteq Nat

VARIABLES last,    \* sessions.last_seq
          cards,   \* history: the sequence numbers whose commit had a card
          outbox,  \* conversation_outbox
          header,  \* the first line of the file
          log,     \* the sequence numbers of the complete lines after it
          torn,    \* the file ends in an incomplete line
          safe,    \* how many lines, the header included, are on the disk
          holder,  \* who has the lock of the file
          task,    \* the local state of each drainer
          crashes

file == <<header, log, torn, safe>>
logVars == <<last, cards, outbox, file, holder, task, crashes>>

Seqs == 1 .. MaxSeq

PC == {"idle", "read", "locked", "heading", "headed", "append", "half",
       "written", "synced", "reading", "done"}

(* entries: what was read from the outbox; seen: the cards committed by then;
   have and tail: what repair_and_read found; view: what a reader gets. *)
Task == [pc: PC, entries: SUBSET Seqs, seen: SUBSET Seqs, have: SUBSET Seqs,
         tail: 0 .. MaxSeq, view: SUBSET Seqs]

IdleTask == [pc |-> "idle", entries |-> {}, seen |-> {}, have |-> {},
             tail |-> 0, view |-> {}]

LogTypeOK ==
    /\ last \in 0 .. MaxSeq
    /\ cards \subseteq Seqs
    /\ outbox \subseteq cards
    /\ header \in {"none", "torn", "whole"}
    /\ log \in Seq(Seqs)
    /\ torn \in BOOLEAN
    /\ safe \in 0 .. Len(log) + 1
    /\ header # "whole" => log = <<>> /\ safe = 0
    /\ holder \in Drainers \cup {None}
    /\ task \in [Drainers -> Task]
    /\ crashes \in 0 .. MaxCrashes

LogInit ==
    /\ last = 0
    /\ cards = {}
    /\ outbox = {}
    /\ header = "none"
    /\ log = <<>>
    /\ torn = FALSE
    /\ safe = 0
    /\ holder = None
    /\ task = [c \in Drainers |-> IdleTask]
    /\ crashes = 0

(* Every commit takes a sequence number, not every commit has a card. *)
CommitCard ==
    /\ last < MaxSeq
    /\ last' = last + 1
    /\ cards' = cards \cup {last + 1}
    /\ outbox' = outbox \cup {last + 1}
    /\ UNCHANGED <<file, holder, task, crashes>>

CommitEvent ==
    /\ last \in 1 .. MaxSeq - 1
    /\ last' = last + 1
    /\ UNCHANGED <<cards, outbox, file, holder, task, crashes>>

-----------------------------------------------------------------------------
(* sync_session_conversation *)

At(c, pc) == task[c].pc = pc

Goto(c, pc) == task' = [task EXCEPT ![c].pc = pc]

(* conversation_outbox_entries; other drainers may be anywhere. *)
ReadOutbox(c) ==
    /\ At(c, "idle")
    /\ last > 0
    /\ task' = [task EXCEPT ![c] = [IdleTask EXCEPT
                   !.pc = "read", !.entries = outbox, !.seen = cards]]
    /\ UNCHANGED <<last, cards, outbox, file, holder, crashes>>

(* A fault, for comparison: every process has a mutex of its own. *)
LockNothing(c) ==
    /\ At(c, "read")
    /\ holder' = c
    /\ Goto(c, "locked")
    /\ UNCHANGED <<last, cards, outbox, file, crashes>>

(* file.lock in ConversationStore::sync *)
Lock(c) ==
    /\ At(c, "read")
    /\ holder = None
    /\ holder' = c
    /\ Goto(c, "locked")
    /\ UNCHANGED <<last, cards, outbox, file, crashes>>

(* The file is closed, and the lock with it. *)
Unlock(c) == holder' = IF holder = c THEN None ELSE holder

(* An error: the call is over, what it wrote stays. *)
Refused(c) ==
    /\ task' = [task EXCEPT ![c] = IdleTask]
    /\ Unlock(c)
    /\ UNCHANGED <<last, cards, outbox, file, crashes>>

(* A record is two writes: the bytes and the newline. *)
WriteHeader(c) ==
    /\ At(c, "locked")
    /\ header = "none"
    /\ task[c].entries # {}   \* otherwise an error: see DrainsAgree
    /\ header' = "torn"
    /\ Goto(c, "heading")
    /\ UNCHANGED <<last, cards, outbox, log, torn, safe, holder, crashes>>

FinishHeader(c) ==
    /\ At(c, "heading")
    /\ header' = "whole"
    /\ Goto(c, "headed")
    /\ UNCHANGED <<last, cards, outbox, log, torn, safe, holder, crashes>>

SyncHeader(c) ==
    /\ At(c, "headed")
    /\ safe' = 1
    /\ Goto(c, "locked")
    /\ UNCHANGED <<last, cards, outbox, header, log, torn, holder, crashes>>

(* The length of the file counts, a torn tail included. *)
TooLong == Len(log) > MaxRecords \/ (torn /\ Len(log) = MaxRecords)

LastLogged == IF log = <<>> THEN 0 ELSE log[Len(log)]

(* repair_and_read truncates an incomplete last line. *)
Truncate ==
    /\ torn' = FALSE
    /\ safe' = IF torn THEN Len(log) + 1 ELSE safe
    /\ UNCHANGED <<header, log>>

(* A fault, for comparison: one line too many goes. *)
RepairTooMuch(c) ==
    /\ At(c, "locked")
    /\ header = "whole"
    /\ torn' = FALSE
    /\ log' = IF torn /\ log # <<>> THEN Front(log) ELSE log
    /\ safe' = Len(log') + 1
    /\ UNCHANGED header
    /\ task' = [task EXCEPT ![c].pc = "append", ![c].have = ToSet(log'),
                            ![c].tail = IF log' = <<>> THEN 0 ELSE Last(log')]
    /\ UNCHANGED <<last, cards, outbox, holder, crashes>>

Repair(c) ==
    /\ At(c, "locked")
    /\ header = "whole"
    /\ ~TooLong
    /\ Truncate
    /\ task' = [task EXCEPT ![c].pc = "append", ![c].have = ToSet(log),
                            ![c].tail = LastLogged]
    /\ UNCHANGED <<last, cards, outbox, holder, crashes>>

(* "conversation header is torn", or the file is over its limit. *)
RepairRefused(c) ==
    /\ At(c, "locked")
    /\ header = "torn" \/ (header = "whole" /\ TooLong)
    /\ Refused(c)

Missing(c) == task[c].entries \ task[c].have

(* Entries that the file has are skipped, the others must come after it. *)
AppendBytes(c) ==
    /\ At(c, "append")
    /\ Missing(c) # {}
    /\ Min(Missing(c)) > task[c].tail   \* likewise
    /\ Min(Missing(c)) \notin Oversized
    /\ torn' = TRUE
    /\ Goto(c, "half")
    /\ UNCHANGED <<last, cards, outbox, header, log, safe, holder, crashes>>

(* write_record refuses a record that no reader would take, before its first
   byte; what the call has appended so far stays. *)
AppendRefused(c) ==
    /\ At(c, "append")
    /\ Missing(c) # {}
    /\ Min(Missing(c)) \in Oversized
    /\ Refused(c)

AppendNewline(c) ==
    LET n == Min(Missing(c)) IN
    /\ At(c, "half")
    /\ torn' = FALSE
    /\ log' = Append(log, n)
    /\ task' = [task EXCEPT ![c].pc = "append", ![c].tail = n,
                            ![c].have = @ \cup {n}]
    /\ UNCHANGED <<last, cards, outbox, header, safe, holder, crashes>>

SyncData(c) ==
    /\ At(c, "append")
    /\ Missing(c) = {}
    /\ safe' = Len(log) + 1
    /\ Unlock(c)
    /\ Goto(c, "synced")
    /\ UNCHANGED <<last, cards, outbox, header, log, torn, crashes>>

(* acknowledge_conversation_outbox: through the last entry that was read. *)
Acknowledge(c) ==
    /\ At(c, "synced")
    /\ outbox' = {n \in outbox : \A m \in task[c].entries : n > m}
    /\ Goto(c, "reading")
    /\ UNCHANGED <<last, cards, file, holder, crashes>>

(* conversation_page, session_snapshot_projection_v2: read the file back.
   ConversationStore::read takes the lock again, and repairs again. *)
ReadBack(c) ==
    /\ At(c, "reading")
    /\ holder = None
    /\ ~TooLong
    /\ Truncate
    /\ task' = [task EXCEPT ![c].pc = "done", ![c].view = ToSet(log)]
    /\ UNCHANGED <<last, cards, outbox, holder, crashes>>

ReadRefused(c) ==
    /\ At(c, "reading")
    /\ holder = None
    /\ TooLong
    /\ Refused(c)

Done(c) ==
    /\ At(c, "done")
    /\ Refused(c)

-----------------------------------------------------------------------------
(* A process dies, or a write fails: the file keeps what was written. *)
Crash(c) ==
    /\ ~At(c, "idle")
    /\ crashes < MaxCrashes
    /\ crashes' = crashes + 1
    /\ task' = [task EXCEPT ![c] = IdleTask]
    /\ Unlock(c)
    /\ UNCHANGED <<last, cards, outbox, file>>

(* The machine dies: of what was not synchronised a prefix survives, in the
   end a part of a line.  The database commits with synchronous=FULL. *)
PowerFailure ==
    /\ crashes < MaxCrashes
    /\ crashes' = crashes + 1
    /\ task' = [c \in Drainers |-> IdleTask]
    /\ holder' = None
    /\ \/ /\ header = "whole"
          /\ \E n \in (IF safe = 0 THEN 1 ELSE safe) .. Len(log) + 1 :
                /\ log' = SubSeq(log, 1, n - 1)
                /\ torn' \in IF n <= Len(log) \/ torn THEN BOOLEAN ELSE {FALSE}
          /\ UNCHANGED header
       \/ /\ safe = 0
          /\ header' \in IF header = "none" THEN {"none"} ELSE {"none", "torn"}
          /\ log' = <<>>
          /\ torn' = FALSE
    /\ UNCHANGED <<last, cards, outbox, safe>>

Drain(c) ==
    \/ ReadOutbox(c) \/ Lock(c) \/ WriteHeader(c) \/ FinishHeader(c)
    \/ SyncHeader(c) \/ Repair(c) \/ RepairRefused(c)
    \/ AppendBytes(c) \/ AppendRefused(c) \/ AppendNewline(c) \/ SyncData(c)
    \/ Acknowledge(c) \/ ReadBack(c) \/ ReadRefused(c) \/ Done(c)

LogNext ==
    \/ CommitCard
    \/ CommitEvent
    \/ \E c \in Drainers : Drain(c) \/ Crash(c)
    \/ PowerFailure

LogSpec == LogInit /\ [][LogNext]_logVars

(* Drainers are scheduled: every engine drains its sessions when it opens,
   and every read and commit drains again; a lock that is given up again and
   again is obtained in the end. *)
FairLog ==
    /\ LogSpec
    /\ \A c \in Drainers : WF_logVars(Drain(c)) /\ SF_logVars(Lock(c))

-----------------------------------------------------------------------------
(* Correctness *)

Durable == {log[i] : i \in 1 .. safe - 1}

(* The file holds the cards up to some point, in order, each of them once. *)
LogIsPrefix ==
    /\ \A i, j \in 1 .. Len(log) : i < j => log[i] < log[j]
    /\ ToSet(log) = {n \in cards : n <= LastLogged}

(* A card leaves the database only when the disk has it. *)
DurableOrPending == cards \subseteq outbox \cup Durable

(* Lines on the disk never go away; repair removes only a torn last line. *)
DurableStays == [][Durable \subseteq ToSet(log')]_logVars

(* What sync and read take for a damaged file never comes from drainers with
   old pages of the outbox: "conversation sequence is not increasing", "file is
   missing and the durable outbox has no recovery records", no header. *)
DrainsAgree ==
    \A c \in Drainers :
        /\ At(c, "append") /\ Missing(c) # {} => Min(Missing(c)) > task[c].tail
        /\ At(c, "locked") /\ header = "none" => task[c].entries # {}
        /\ At(c, "reading") => header = "whole"

(* A reader sees every card that was committed before it asked. *)
ReadersSeeCommits ==
    \A c \in Drainers : At(c, "done") => task[c].seen \subseteq task[c].view

(* The invariants of the log together. *)
ConversationLogCorrect ==
    LogTypeOK /\ LogIsPrefix /\ DurableOrPending /\ DrainsAgree /\ ReadersSeeCommits

(* startup_flushes_a_crash_surviving_conversation_outbox: every card reaches
   the disk, though drainers crash on the way. *)
CardsReachDisk == \A n \in Seqs : n \in cards ~> n \in Durable

(* What is refused whoever asks: a file whose header has no newline, one over
   MAX_FILE_BYTES (repair_and_read), a card over MAX_RECORD_BYTES and with it
   all that come after it (write_record). *)
RefusedForGood == header = "torn" \/ TooLong \/ outbox \cap Oversized # {}

(* Nothing else keeps a card from the disk: not a torn line, not a drainer
   that died with the lock, not a page of the outbox that has gone stale. *)
OnDisk == cards \subseteq Durable
CardsReachDiskOrRefused == ~OnDisk ~> (OnDisk \/ RefusedForGood)
=============================================================================
