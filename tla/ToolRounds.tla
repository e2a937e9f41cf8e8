----------------------------- MODULE ToolRounds -----------------------------
(***************************************************************************)
(* The tool rounds of one turn (latte-headless, session.rs,                *)
(* run_provider_turn and below): a reply of the provider that calls tools  *)
(* is written to the transcript as one card, its calls run in order, a     *)
(* call that needs permission parks the turn, and whoever resolves the     *)
(* permission, in this process or in a later one, takes the rest of the    *)
(* batch from the card.  The ledger (latte-engine, storage.rs) refuses a   *)
(* second commit under a source key that it has seen.                      *)
(*                                                                         *)
(* A call is its provider id: ids are unique in one reply and may come     *)
(* back in a later one.  An effect is named by its round and its place in  *)
(* the batch.                                                              *)
(***************************************************************************)
EXTENDS Naturals, Sequences, FiniteSets, SequencesExt, FiniteSetsExt

CONSTANTS CallIds,       \* tool call ids the provider uses
          MaxBatch,      \* bound: calls in one reply
          MaxReplies,    \* bound: replies with tool calls
          MaxToolRounds, \* SessionHistoryPolicy::max_tool_rounds
          SnapshotPage       \* cards a commit response carries

ASSUME RoundsAssumption ==
    /\ {MaxBatch, MaxReplies, MaxToolRounds, SnapshotPage} \subseteq Nat

VARIABLES roundCards,    \* durable: the assistant cards with tool calls
          counter,  \* durable: session_turns.tool_round_count
          effects,  \* durable: the effects of each round
          sources,  \* durable: source keys of earlier commits
          life,     \* durable: what the session waits for
          work,     \* the coordinator, in memory
          callsRun,      \* history: effects that were executed
          replies   \* history: replies with tool calls so far

roundsVars == <<roundCards, counter, effects, sources, life, work, callsRun, replies>>

Batches == {b \in SeqOf(CallIds, MaxBatch) : b # <<>> /\ IsInjective(b)}

Place == (1..MaxReplies) \X (1..MaxBatch)

NoWork == [pc |-> "none", calls |-> <<>>, round |-> 0, ordinal |-> 0]

RoundsTypeOK ==
    /\ roundCards \in Seq(Batches)
    /\ counter = Len(roundCards)
    /\ effects \in [Place -> {"none", "prepared", "started", "observed"}]
    /\ life \in {"running", "permission", "input", "ready", "failed", "interrupted"}
    /\ work.pc \in {"none", "ask", "prepare", "start", "run", "observe"}
    /\ (work.pc # "none") => life = "running"
    /\ replies \in 0..MaxReplies

RoundsInit ==
    /\ roundCards = <<>>
    /\ counter = 0
    /\ effects = [p \in Place |-> "none"]
    /\ sources = {}
    /\ life = "running"
    /\ work = [NoWork EXCEPT !.pc = "ask"]
    /\ callsRun = <<>>
    /\ replies = 0

durable == <<roundCards, counter, effects, sources>>

Here == <<work.round, work.ordinal>>
CallId == work.calls[work.ordinal]

-----------------------------------------------------------------------------
(* A commit under a source key.  The digest of a commit covers its command id,
   which is always fresh, so a key that was used is never taken again. *)
Source(key, commit) ==
    \/ /\ key \notin sources
       /\ sources' = sources \cup {key}
       /\ commit
    \/ /\ key \in sources
       /\ work' = NoWork
       /\ life' = "interrupted"
       /\ UNCHANGED <<roundCards, counter, effects, sources>>

(* A fault, for comparison: rounds are counted in the page of the transcript
   that a commit returned. *)
RoundsOnPage == IF Len(roundCards) < SnapshotPage THEN Len(roundCards) ELSE SnapshotPage

(* persisted_tool_rounds. *)
RoundsTaken == counter

(* The bound stops another batch, never the request that precedes it. *)
ReplyTools(calls) ==
    LET round == Len(roundCards) + 1
        first == [pc |-> "prepare", calls |-> calls, round |-> round, ordinal |-> 1]
    IN
    /\ work.pc = "ask"
    /\ replies < MaxReplies
    /\ replies' = replies + 1
    /\ \/ /\ RoundsTaken >= MaxToolRounds
          /\ life' = "ready"
          /\ work' = NoWork
          /\ UNCHANGED durable
       \/ /\ RoundsTaken < MaxToolRounds
          /\ Source(<<"round", calls[1], 0>>,
                    /\ roundCards' = Append(roundCards, calls)
                    /\ counter' = counter + 1
                    /\ work' = first
                    /\ UNCHANGED <<life, effects>>)
    /\ UNCHANGED callsRun

(* Text, an empty answer, an error, or a question to the user. *)
ReplyOther(next) ==
    /\ work.pc = "ask"
    /\ life' = next
    /\ work' = NoWork
    /\ UNCHANGED <<durable, callsRun, replies>>

(* prepare_session_effect; an Ask parks the turn. *)
PrepareCall(ask) ==
    /\ work.pc = "prepare"
    /\ Source(<<"prepare", CallId, work.ordinal>>,
              /\ effects' = [effects EXCEPT ![Here] = "prepared"]
              /\ work' = IF ask THEN NoWork ELSE [work EXCEPT !.pc = "start"]
              /\ life' = IF ask THEN "permission" ELSE life
              /\ UNCHANGED <<roundCards, counter>>)
    /\ UNCHANGED <<callsRun, replies>>

StartCall ==
    /\ work.pc = "start"
    /\ Source(<<"start", CallId, work.ordinal>>,
              /\ effects' = [effects EXCEPT ![Here] = "started"]
              /\ work' = [work EXCEPT !.pc = "run"]
              /\ UNCHANGED <<life, roundCards, counter>>)
    /\ UNCHANGED <<callsRun, replies>>

RunCall ==
    /\ work.pc = "run"
    /\ callsRun' = Append(callsRun, Here)
    /\ work' = [work EXCEPT !.pc = "observe"]
    /\ UNCHANGED <<durable, life, replies>>

(* The next call of the batch, or the next request. *)
AfterCall(w) ==
    IF w.ordinal < Len(w.calls)
    THEN [w EXCEPT !.pc = "prepare", !.ordinal = @ + 1]
    ELSE [w EXCEPT !.pc = "ask"]

ObserveCall ==
    /\ work.pc = "observe"
    /\ effects' = [effects EXCEPT ![Here] = "observed"]
    /\ work' = AfterCall(work)
    /\ UNCHANGED <<roundCards, counter, sources, life, callsRun, replies>>

-----------------------------------------------------------------------------
(* The user decides; the coordinator is a new one, after a restart too. *)

Prepared == CHOOSE p \in Place : effects[p] = "prepared"

(* tool_round_for_call: the newest card that has the call. *)
ToolRoundForCall(id) ==
    LET round == Max({r \in DOMAIN roundCards : id \in ToSet(roundCards[r])})
    IN [pc |-> "run", calls |-> roundCards[round], round |-> round,
        ordinal |-> CHOOSE o \in DOMAIN roundCards[round] : roundCards[round][o] = id]

ResolveAllow ==
    LET p == Prepared IN
    /\ life = "permission"
    /\ life' = "running"
    /\ effects' = [effects EXCEPT ![p] = "started"]
    /\ work' = ToolRoundForCall(roundCards[p[1]][p[2]])
    /\ UNCHANGED <<roundCards, counter, sources, callsRun, replies>>

ResolveDeny ==
    /\ life = "permission"
    /\ life' = "ready"
    /\ effects' = [effects EXCEPT ![Prepared] = "none"]
    /\ UNCHANGED <<roundCards, counter, sources, work, callsRun, replies>>

ProvideInputAnswer ==
    /\ life = "input"
    /\ life' = "running"
    /\ work' = [NoWork EXCEPT !.pc = "ask"]
    /\ UNCHANGED <<durable, callsRun, replies>>

(* The process ends: a parked turn waits on, another one is recovered. *)
CoordinatorDies ==
    /\ work.pc # "none"
    /\ work' = NoWork
    /\ life' = "interrupted"
    /\ UNCHANGED <<durable, callsRun, replies>>

RoundsNext ==
    \/ \E calls \in Batches : ReplyTools(calls)
    \/ \E next \in {"ready", "failed", "input", "interrupted"} : ReplyOther(next)
    \/ \E ask \in BOOLEAN : PrepareCall(ask)
    \/ StartCall \/ RunCall \/ ObserveCall
    \/ ResolveAllow \/ ResolveDeny \/ ProvideInputAnswer
    \/ CoordinatorDies

RoundsSpec == RoundsInit /\ [][RoundsNext]_roundsVars

-----------------------------------------------------------------------------
(* The bound on tool rounds holds over approvals, answers and restarts: the
   turn never executes a call of a round past it ("silently refills the budget
   across an input answer, an approval, or a restart",
   persisted_tool_rounds). *)
RoundsBounded ==
    \A i \in DOMAIN callsRun : callsRun[i][1] <= MaxToolRounds

Before(p, q) == p[1] < q[1] \/ (p[1] = q[1] /\ p[2] < q[2])

(* Every call runs at most once and in the order of the replies, also when the
   batch is taken up again from its card and when a later reply uses an id
   again (execute_tool_batch, tool_round_for_call). *)
CallsRunInOrder ==
    \A i, j \in DOMAIN callsRun : i < j => Before(callsRun[i], callsRun[j])

(* The provider is asked again only when every call that it made has its
   result ("requires a tool result for every call in the original assistant
   message, in order", resolve_permission). *)
CallsAreAnswered ==
    work.pc = "ask" =>
        \A r \in DOMAIN roundCards, o \in 1..MaxBatch :
            o <= Len(roundCards[r]) => effects[<<r, o>>] = "observed"

(* The invariants of the tool rounds together. *)
ToolRoundsCorrect == RoundsTypeOK /\ RoundsBounded /\ CallsRunInOrder /\ CallsAreAnswered
=============================================================================
