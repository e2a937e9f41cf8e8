------------------------------ MODULE History -------------------------------
(***************************************************************************)
(* What the provider is told of a conversation (latte-headless,            *)
(* session.rs, prepare_history to assemble_mid_turn_request,               *)
(* maybe_compact_mid_turn, compact_session).  The transcript only grows;   *)
(* a request is built from it, from a summary card that stands for a       *)
(* prefix, and from elision cards that replace tool results by skeletons.  *)
(* The request of a running turn lives in memory and is extended there;    *)
(* after a permission it is built again from the transcript.               *)
(*                                                                         *)
(* A card is its place in the transcript.  Sizes are in units; a round has *)
(* one tool call (batches are the subject of ToolRounds).                  *)
(***************************************************************************)
EXTENDS Naturals, Sequences, FiniteSets, SequencesExt, FiniteSetsExt

CONSTANTS Budget,        \* exact request budget
          Trigger,       \* fill at which proactive compaction is due
          RetainSize,    \* retain_ratio of the budget
          HeadSize, TailSize, ToolSize,   \* head, repository tail, tool result
          SummarySizes,  \* sizes a summary may have
          SourceSize,    \* max_summary_source_bytes
          MaxFailures,   \* MAX_COMPACTION_FAILURES
          TailPage,      \* cards of a snapshot when there is no summary
          Strategies,    \* compaction strategies of the profile
          MaxCards       \* bound: cards of the transcript

ASSUME HistoryAssumption ==
    /\ {Budget, Trigger, RetainSize, HeadSize, TailSize, ToolSize, SourceSize, MaxFailures, TailPage,
         MaxCards} \subseteq Nat
    /\ SummarySizes \subseteq Nat \ {0}
    /\ Strategies \subseteq {"off", "summarize", "elide"}

VARIABLES script,    \* durable: the transcript
          keys,      \* durable: source keys of this turn's compaction cards
          rounds,    \* durable: tool rounds of this turn
          phase,     \* durable: what the session waits for
          failures,  \* in memory: consecutive failures of the summarizer
          carried,     \* in memory: the request of the running turn
          retried,   \* in memory: the turn has recovered from an overflow
          strategy,  \* CompactionStrategy of the profile
          severed    \* history: calls copied by a fork without their answer

historyVars == <<script, keys, rounds, phase, failures, carried, retried, strategy, severed>>

Kinds == {"user", "assistant", "call", "tool", "check", "denied", "summary", "elision", "audit"}

(* A summary stands for the cards whose text reached the summarizer; it is
   whole when all that it replaces did.  An elision stands for results. *)
Card(kind) == [kind |-> kind, retain |-> 0, stands |-> {}, size |-> 1, whole |-> TRUE]

NoRequest == [cards |-> <<>>, skeletons |-> {}, tail |-> 0]

HistoryTypeOK ==
    /\ \A n \in DOMAIN script :
         /\ script[n].kind \in Kinds
         /\ script[n].retain < n
         /\ \A m \in script[n].stands : m < n
    /\ phase \in {"ready", "running", "input", "permission", "over"}
    /\ failures \in 0..MaxFailures
    /\ phase \in {"ready", "over"} => carried = NoRequest
    /\ strategy \in Strategies
    /\ severed \subseteq Nat

HistoryInit ==
    /\ script = <<>>
    /\ keys = {}
    /\ rounds = 0
    /\ phase = "ready"
    /\ failures = 0
    /\ carried = NoRequest
    /\ retried = FALSE
    /\ strategy \in Strategies
    /\ severed = {}

-----------------------------------------------------------------------------
(* The projection of a transcript into segments. *)

OfKind(s, kinds) == {n \in DOMAIN s : s[n].kind \in kinds}

NewestSummary(s) == IF OfKind(s, {"summary"}) = {} THEN 0 ELSE Max(OfKind(s, {"summary"}))

(* The tool results that any elision card names: elision is for good. *)
Skeletons(s) == UNION {s[n].stands : n \in OfKind(s, {"elision"})}

(* The first card that the newest summary keeps verbatim, or itself; what
   precedes it is superseded. *)
Floor(s) ==
    LET card == NewestSummary(s)
    IN IF card = 0 THEN 1 ELSE IF s[card].retain = 0 THEN card ELSE s[card].retain

Superseded(s) == {n \in DOMAIN s : n < Floor(s)}

(* projection_window: the newest summary and what it keeps, or the tail. *)
WindowOf(s) ==
    IF NewestSummary(s) = 0
    THEN {n \in DOMAIN s : n + TailPage > Len(s)}
    ELSE {n \in DOMAIN s : n >= Floor(s)}

Segment(n, summary) == [cards |-> <<n>>, first |-> n, summary |-> summary]

(* declared_tool_call: the segment has the call that the result answers. *)
Declared(s, cards, n) ==
    /\ s[n].kind \in {"tool", "denied"}
    /\ s[Last(cards)].kind = "call"

(* apply_entry: a user card opens a segment, answers join the last one. *)
ApplyEntry(s, segments, n) ==
    IF s[n].kind = "user"
    THEN Append(segments, Segment(n, FALSE))
    ELSE IF segments # <<>>
            /\ \/ s[n].kind \in {"assistant", "call"}
               \/ /\ s[n].kind \in {"tool", "denied", "check"}
                  /\ Declared(s, Last(segments).cards, n)
         THEN [segments EXCEPT ![Len(segments)].cards = Append(@, n)]
         ELSE segments

Apply(s, segments, ns) ==
    LET upto[n \in 0..Len(s)] ==
            IF n = 0 THEN segments
            ELSE IF n \in ns THEN ApplyEntry(s, upto[n - 1], n)
            ELSE upto[n - 1]
    IN upto[Len(s)]

(* A fault, for comparison: what an older summary card precedes is taken to
   be covered, although the newest card promised to keep it. *)
RetainedAfterOlderCard(s, window, card) ==
    {n \in window : /\ n < card
                    /\ s[card].retain # 0
                    /\ n >= s[card].retain
                    /\ \A m \in OfKind(s, {"summary"}) : m < card => n > m}

(* What the newest summary card keeps verbatim: by its own boundary. *)
Retained(s, window, card) ==
    {n \in window : n < card /\ s[card].retain # 0 /\ n >= s[card].retain}

(* scan_history_segments. *)
ScanSegments(s, window) ==
    LET card == NewestSummary(s)
    IN IF card = 0
       THEN Apply(s, <<>>, window)
       ELSE Apply(s, <<Segment(card, TRUE)>> \o Apply(s, <<>>, Retained(s, window, card)),
                  {n \in window : n > card})

CardSize(s, skeletons, n) ==
    IF s[n].kind = "tool" THEN IF n \in skeletons THEN 1 ELSE ToolSize ELSE s[n].size

SizeOf(s, skeletons, ns) == MapThenSumSet(LAMBDA n : CardSize(s, skeletons, n), ns)

CardsOf(segments) == UNION {Range(segments[i].cards) : i \in DOMAIN segments}

Flat(segments) ==
    LET upto[i \in 0..Len(segments)] ==
            IF i = 0 THEN <<>> ELSE upto[i - 1] \o segments[i].cards
    IN upto[Len(segments)]

-----------------------------------------------------------------------------
(* Fitting and planning, over a list of segments and the size of a prompt. *)

Suffix(segments, from) == SubSeq(segments, from + 1, Len(segments))

SegmentsSize(s, skeletons, segments) == SizeOf(s, skeletons, CardsOf(segments))

(* usage: the window is filled up to the watermark of the profile.  The
   byte and token estimates of the code rise together. *)
CompactionDue(used) == used >= Trigger

(* fit_request, first phase: whole segments, newest first. *)
Discarded(s, skeletons, segments, prompt) ==
    Min({d \in 0..Len(segments) :
            \/ d = Len(segments)
            \/ HeadSize + SegmentsSize(s, skeletons, Suffix(segments, d)) + prompt <= Budget})

(* fit_request, second phase: the tail takes the slack or is left out. *)
TailFits(s, skeletons, segments, prompt) ==
    HeadSize + SegmentsSize(s, skeletons, segments) + prompt + TailSize <= Budget

TailKept(s, skeletons, segments, prompt) ==
    IF TailFits(s, skeletons, Suffix(segments, Discarded(s, skeletons, segments, prompt)), prompt)
    THEN TailSize ELSE 0

(* proactive_retain_boundary: the newest segment stays whatever its size,
   older ones while they fit, a summary never. *)
RetainBoundary(s, skeletons, segments) ==
    LET fits(b) == \/ b + 1 = Len(segments)
                   \/ SegmentsSize(s, skeletons, Suffix(segments, b)) <= RetainSize
    IN Min({b \in 0..Len(segments) :
               \/ b = Len(segments)
               \/ /\ \A i \in DOMAIN segments : i > b => ~segments[i].summary
                  /\ fits(b)})

(* elide_prefix: the tool results before the boundary. *)
ToolsBefore(s, segments, boundary) ==
    {n \in CardsOf(SubSeq(segments, 1, boundary)) : s[n].kind = "tool"}

(* compaction_source: the oldest durable card that stays verbatim. *)
RetainFrom(segments, boundary) ==
    IF boundary = Len(segments) THEN 0 ELSE segments[boundary + 1].first

(* compaction_source: the newest segments first, and of the segment that is
   over the bound its beginning.  The cards that are wholly in it. *)
Reached(s, skeletons, prefix) ==
    IF SegmentsSize(s, skeletons, prefix) <= SourceSize
    THEN CardsOf(prefix)
    ELSE UNION {LET cards == prefix[i].cards
                    newer == CardsOf(Suffix(prefix, i))
                IN {cards[k] : k \in {h \in DOMAIN cards :
                       SizeOf(s, skeletons, newer \cup Range(SubSeq(cards, 1, h))) <= SourceSize}} :
                i \in DOMAIN prefix}

(* fold_prompt_into_summary_source: the prompt is the end of the source, and
   the first to be cut. *)
SourceIsWhole(s, skeletons, prefix, folded) ==
    /\ SegmentsSize(s, skeletons, prefix) <= SourceSize
    /\ folded # {} => SegmentsSize(s, skeletons, prefix) < SourceSize

(* What a summary of the prefix can tell of: the cards it was made from, and
   what a summary among them stood for. *)
StandsFor(s, skeletons, prefix, folded) ==
    LET reached == Reached(s, skeletons, prefix)
    IN reached \cup (UNION {s[n].stands : n \in {m \in reached : s[m].kind = "summary"}})
               \cup (IF SourceIsWhole(s, skeletons, prefix, folded) THEN folded ELSE {})

SummaryCard(s, skeletons, segments, boundary, size, folded) ==
    LET prefix == SubSeq(segments, 1, boundary)
    IN [kind |-> "summary", retain |-> RetainFrom(segments, boundary),
        stands |-> StandsFor(s, skeletons, prefix, folded), size |-> size,
        whole |-> SourceIsWhole(s, skeletons, prefix, folded)]

(* The elided view, when there is one, is what the summarizer reads. *)
SourceView(s, skeletons, segments, boundary) ==
    IF strategy = "elide" THEN skeletons \cup ToolsBefore(s, segments, boundary) ELSE skeletons

ElisionCard(ns) == [Card("elision") EXCEPT !.stands = ns]

(* The outcomes of building a request from segments under pressure: the
   plain window, an elision, a summary, or a summary that failed. *)
Plain(skeletons, segments, tail) ==
    [tier |-> "plain", segments |-> segments, skeletons |-> skeletons, tail |-> tail, card |-> {}]

ElideTier(s, skeletons, segments, boundary, reactive, tail, prompt) ==
    LET all == skeletons \cup ToolsBefore(s, segments, boundary)
        used == HeadSize + SegmentsSize(s, all, segments) + tail + prompt
    IN IF /\ strategy = "elide"
          /\ ToolsBefore(s, segments, boundary) # {}
          /\ reactive => Discarded(s, all, segments, prompt) = 0
          /\ ~reactive => ~CompactionDue(used)
          /\ used <= Budget
       THEN {[Plain(all, segments, tail) EXCEPT
                !.tier = "elided", !.card = {ElisionCard(ToolsBefore(s, segments, boundary))}]}
       ELSE {}

(* The summarizer answers with a text of some size, or fails. *)
SummaryTier(s, skeletons, segments, boundary, tail, prompt, folded, plain) ==
    LET view == SourceView(s, skeletons, segments, boundary)
        kept == Suffix(segments, boundary)
        size(z) == HeadSize + z + SegmentsSize(s, skeletons, kept) + tail + prompt
    IN {[plain EXCEPT !.tier = "failed"]} \cup
       {[Plain(skeletons, kept, tail) EXCEPT
           !.tier = "summarized", !.card = {SummaryCard(s, view, segments, boundary, z, folded)}] :
          z \in {y \in SummarySizes : size(y) <= Budget}}

(* prepare_history, for a prompt that is about to become the next card. *)
Prepare(s, segments, skeletons, promptCard) ==
    LET d == Discarded(s, skeletons, segments, 1)
        tail == TailKept(s, skeletons, segments, 1)
        plain == Plain(skeletons, Suffix(segments, d), tail)
        used == HeadSize + SegmentsSize(s, skeletons, Suffix(segments, d)) + tail + 1
        boundary == IF d > 0 THEN d ELSE RetainBoundary(s, skeletons, segments)
        elided == ElideTier(s, skeletons, segments, boundary, d > 0, tail, 1)
        folded == IF RetainFrom(segments, boundary) = 0 THEN {promptCard} ELSE {}
    IN IF \/ strategy = "off"
          \/ failures >= MaxFailures
          \/ d = 0 /\ (~CompactionDue(used) \/ boundary = 0)
       THEN {plain}
       ELSE IF elided # {} THEN elided
            ELSE SummaryTier(s, skeletons, segments, boundary, tail, 1, folded, plain)

-----------------------------------------------------------------------------
(* The actions.  An outcome is turned into cards and into a request. *)

FailuresAfter(tier) ==
    CASE tier = "failed" -> failures + 1
      [] tier = "summarized" -> 0
      [] OTHER -> failures

(* The card of an outcome, and the key under which it is committed. *)
CardFor(outcome) ==
    CASE outcome.tier = "plain" -> <<>>
      [] outcome.tier = "failed" -> <<Card("audit")>>
      [] OTHER -> <<CHOOSE c \in outcome.card : TRUE>>

Collides(outcome, site) == outcome.tier # "plain" /\ <<outcome.tier, site>> \in keys

KeysAfter(outcome, site) ==
    keys \cup (IF outcome.tier = "plain" THEN {} ELSE {<<outcome.tier, site>>})

(* The turn is left to the recovery, which interrupts it. *)
Abandon ==
    /\ phase' = "over"
    /\ carried' = NoRequest

RequestOf(s, outcome, prompt) ==
    [cards |-> (IF outcome.tier = "summarized" THEN <<Len(s)>> ELSE <<>>)
               \o Flat(outcome.segments) \o prompt,
     skeletons |-> outcome.skeletons,
     tail |-> outcome.tail]

(* follow_up_one: the user card, then the card of the prepared history. *)
FollowUpTurn ==
    /\ phase = "ready"
    /\ Len(script) < MaxCards
    /\ LET n == Len(script) + 1
           segments == ScanSegments(script, DOMAIN script)
       IN \E outcome \in Prepare(script, segments, Skeletons(script), n) :
            LET s == script \o <<Card("user")>> \o CardFor(outcome)
            IN /\ script' = s
               /\ carried' = RequestOf(s, outcome, <<n>>)
               /\ failures' = FailuresAfter(outcome.tier)
               /\ keys' = IF outcome.tier = "plain" THEN {} ELSE {<<outcome.tier, <<"start">>>>}
    /\ rounds' = 0
    /\ phase' = "running"
    /\ retried' = FALSE
    /\ UNCHANGED <<strategy, severed>>

(* provide_input: the answer is a card of the open turn; the commit of the
   card after it fails when its key was used. *)
AnswerInput ==
    /\ phase = "input"
    /\ Len(script) < MaxCards
    /\ LET n == Len(script) + 1
           segments == ScanSegments(script, DOMAIN script)
       IN \E outcome \in Prepare(script, segments, Skeletons(script), n) :
            /\ failures' = FailuresAfter(outcome.tier)
            /\ IF Collides(outcome, <<"input">>)
               THEN /\ script' = Append(script, Card("user"))
                    /\ Abandon
                    /\ UNCHANGED keys
               ELSE LET s == script \o <<Card("user")>> \o CardFor(outcome)
                    IN /\ script' = s
                       /\ carried' = RequestOf(s, outcome, <<n>>)
                       /\ keys' = KeysAfter(outcome, <<"input">>)
                       /\ phase' = "running"
    /\ retried' = FALSE
    /\ UNCHANGED <<rounds, strategy, severed>>

RequestSize == HeadSize + SizeOf(script, carried.skeletons, Range(carried.cards)) + carried.tail

(* run_provider_step refuses to send what is over the budget. *)
OverBudget ==
    /\ phase = "running"
    /\ RequestSize > Budget
    /\ phase' = "ready"
    /\ carried' = NoRequest
    /\ UNCHANGED <<script, keys, rounds, failures, retried, strategy, severed>>

Sends == phase = "running" /\ RequestSize <= Budget

(* The turn ends: with an answer and perhaps a verification, with an error
   that leaves the session usable, or with a cancellation that does not. *)
EndTurn(ending) ==
    /\ Sends
    /\ script' = script \o ending.cards
    /\ phase' = ending.phase
    /\ carried' = NoRequest
    /\ UNCHANGED <<keys, rounds, failures, retried, strategy, severed>>

Endings == {[cards |-> <<Card("assistant")>>, phase |-> "ready"],
            [cards |-> <<Card("assistant"), Card("check")>>, phase |-> "ready"],
            [cards |-> <<>>, phase |-> "ready"],
            [cards |-> <<>>, phase |-> "over"]}

AskInput ==
    /\ Sends
    /\ phase' = "input"
    /\ carried' = NoRequest
    /\ UNCHANGED <<script, keys, rounds, failures, retried, strategy, severed>>

(* A call that needs permission: the card of the round is durable. *)
ParkCall ==
    /\ Sends
    /\ Len(script) < MaxCards
    /\ script' = Append(script, Card("call"))
    /\ rounds' = rounds + 1
    /\ phase' = "permission"
    /\ carried' = NoRequest
    /\ UNCHANGED <<keys, failures, retried, strategy, severed>>

DenyCall ==
    /\ phase = "permission"
    /\ script' = Append(script, Card("denied"))
    /\ phase' = "ready"
    /\ UNCHANGED <<keys, rounds, failures, carried, retried, strategy, severed>>

(* The calls that no result follows. *)
Unanswered(s) ==
    {n \in OfKind(s, {"call"}) : n = Len(s) \/ s[n + 1].kind \notin {"tool", "denied"}}

(* A turn is cancelled while it waits, or while its tool runs: the card of
   the round stays without a result. *)
CancelTurn ==
    /\ \/ phase \in {"permission", "input"} /\ UNCHANGED <<script, rounds>>
       \/ /\ Sends
          /\ Len(script) < MaxCards
          /\ script' = Append(script, Card("call"))
          /\ rounds' = rounds + 1
    /\ phase' = "over"
    /\ carried' = NoRequest
    /\ UNCHANGED <<keys, failures, retried, strategy, severed>>

(* resolve_permission: the request is built again, from the transcript. *)
AllowCall ==
    /\ phase = "permission"
    /\ LET s == Append(script, Card("tool"))
       IN /\ script' = s
          /\ carried' = [cards |-> Flat(ScanSegments(s, WindowOf(s))), skeletons |-> Skeletons(s),
                       tail |-> TailSize]
    /\ phase' = "running"
    /\ retried' = FALSE
    /\ UNCHANGED <<keys, rounds, failures, strategy, severed>>

-----------------------------------------------------------------------------
(* maybe_compact_mid_turn and mid_turn_summarize, on the transcript s.  When
   it is forced, only a smaller request will do; when it is not, a failure
   is recorded and the request stays what it was. *)
MidTurn(s, current, forced) ==
    LET segments == ScanSegments(s, WindowOf(s))
        skeletons == Skeletons(s)
        size(r) == HeadSize + SizeOf(s, r.skeletons, Range(r.cards)) + r.tail
        d == Discarded(s, skeletons, segments, 0)
        tail == IF current.tail = 0 THEN 0 ELSE TailKept(s, skeletons, segments, 0)
        used == SegmentsSize(s, skeletons, Suffix(segments, d)) + tail
        boundary == IF d > 0 THEN d ELSE RetainBoundary(s, skeletons, segments)
        same == [tier |-> "plain", request |-> current, card |-> <<>>]
        all == skeletons \cup ToolsBefore(s, segments, boundary)
        elided == [cards |-> Flat(segments), skeletons |-> all, tail |-> tail]
        cured == \/ forced
                 \/ d > 0 /\ Discarded(s, all, segments, 0) = 0
                 \/ d = 0 /\ ~CompactionDue(size(elided))
        summarized(z) ==
            LET view == SourceView(s, skeletons, segments, boundary)
                card == SummaryCard(s, view, segments, boundary, z, {})
                total == HeadSize + z + SegmentsSize(s, all, Suffix(segments, boundary)) + tail
            IN [tier |-> "summarized", card |-> <<card>>, total |-> total,
                request |-> [cards |-> <<Len(s) + 1>> \o Flat(Suffix(segments, boundary)),
                             skeletons |-> IF strategy = "elide" THEN all ELSE skeletons,
                             tail |-> tail]]
        good(total) == total <= Budget /\ (forced => total < size(current))
    IN IF \/ strategy = "off"
          \/ ~forced /\ failures >= MaxFailures
          \/ segments = <<>>
          \/ ~forced /\ d = 0 /\ ~CompactionDue(used)
          \/ d = 0 /\ boundary = 0
       THEN {same}
       ELSE IF strategy = "elide" /\ ToolsBefore(s, segments, boundary) # {} /\ cured /\ good(size(elided))
            THEN {[tier |-> "elided", request |-> elided,
                   card |-> <<ElisionCard(ToolsBefore(s, segments, boundary))>>]}
       ELSE IF RetainFrom(segments, boundary) = 0 \/ (forced /\ failures >= MaxFailures)
            THEN {same}
       ELSE {o \in {summarized(z) : z \in SummarySizes} : good(o.total)}
            \cup {IF forced THEN same
                  ELSE [tier |-> "failed", request |-> current, card |-> <<Card("audit")>>]}

(* The key of a card between two requests carries the round, except that of
   the audit card. *)
Site(tier) == IF tier = "failed" THEN <<"round">> ELSE <<"round", rounds'>>

(* What the outcome does to the turn whose transcript is s. *)
Compact(s, outcome) ==
    LET key == <<outcome.tier, Site(outcome.tier)>>
    IN /\ failures' = FailuresAfter(outcome.tier)
       /\ IF outcome.tier # "plain" /\ key \in keys
          THEN /\ script' = s
               /\ Abandon
               /\ UNCHANGED keys
          ELSE /\ script' = s \o outcome.card
               /\ carried' = outcome.request
               /\ keys' = keys \cup (IF outcome.tier = "plain" THEN {} ELSE {key})
               /\ phase' = "running"

(* A round of tools, then compaction between two requests. *)
ToolRound ==
    /\ Sends
    /\ Len(script) + 1 < MaxCards
    /\ rounds' = rounds + 1
    /\ LET n == Len(script)
           s == script \o <<Card("call"), Card("tool")>>
           current == [carried EXCEPT !.cards = @ \o <<n + 1, n + 2>>]
       IN \E outcome \in MidTurn(s, current, FALSE) : Compact(s, outcome)
    /\ UNCHANGED <<retried, strategy, severed>>

(* The provider finds the request too long: once per request loop, the
   history is made smaller or the turn fails. *)
Overflow ==
    /\ Sends
    /\ ~retried
    /\ rounds' = rounds
    /\ \E outcome \in MidTurn(script, carried, TRUE) :
         IF outcome.tier = "plain"
         THEN /\ phase' = "ready"
              /\ carried' = NoRequest
              /\ UNCHANGED <<script, keys, failures>>
         ELSE Compact(script, outcome)
    /\ retried' = TRUE
    /\ UNCHANGED <<strategy, severed>>

(* compact_session: the same tiers on an idle session; its keys carry the
   revision of the turn and are always new. *)
ManualCompact ==
    /\ phase = "ready"
    /\ Len(script) < MaxCards
    /\ LET s == script
           segments == ScanSegments(s, DOMAIN s)
           skeletons == Skeletons(s)
           boundary == RetainBoundary(s, skeletons, segments)
           tools == ToolsBefore(s, segments, boundary)
           all == skeletons \cup tools
           elides == /\ strategy = "elide"
                     /\ tools # {}
                     /\ HeadSize + SegmentsSize(s, all, segments) + TailSize <= Budget
           plain == Plain(skeletons, segments, TailSize)
       IN /\ segments # <<>>
          /\ strategy # "off"
          /\ failures < MaxFailures
          /\ boundary > 0
          /\ \E i \in 1..boundary : ~segments[i].summary
          /\ \E outcome \in IF elides
                            THEN {[plain EXCEPT !.tier = "elided", !.card = {ElisionCard(tools)}]}
                            ELSE SummaryTier(s, all, segments, boundary, TailSize, 0, {}, plain) :
               /\ failures' = FailuresAfter(outcome.tier)
               /\ script' = IF outcome.tier = "failed" THEN script ELSE script \o CardFor(outcome)
    /\ UNCHANGED <<keys, rounds, phase, carried, retried, strategy, severed>>

(* fork_session_v2: a new session with a copy of the transcript, whatever
   the session does; a round may be committed whose results are to come. *)
ForkSession ==
    /\ \/ UNCHANGED script
       \/ /\ Sends
          /\ Len(script) < MaxCards
          /\ script' = Append(script, Card("call"))
    /\ severed' = Unanswered(script')
    /\ phase' = "ready"
    /\ keys' = {}
    /\ rounds' = 0
    /\ failures' = 0
    /\ carried' = NoRequest
    /\ retried' = FALSE
    /\ UNCHANGED strategy

(* The process dies: what waits for the user survives. *)
HistoryRestart ==
    /\ phase \in {"running", "input", "permission"}
    /\ phase' = IF phase = "running" THEN "over" ELSE phase
    /\ carried' = NoRequest
    /\ failures' = 0
    /\ retried' = FALSE
    /\ UNCHANGED <<script, keys, rounds, strategy, severed>>

-----------------------------------------------------------------------------
HistoryNext ==
    \/ FollowUpTurn
    \/ AnswerInput
    \/ OverBudget
    \/ \E ending \in Endings : EndTurn(ending)
    \/ AskInput
    \/ ParkCall
    \/ DenyCall
    \/ CancelTurn
    \/ AllowCall
    \/ ToolRound
    \/ Overflow
    \/ ManualCompact
    \/ ForkSession
    \/ HistoryRestart

HistorySpec == HistoryInit /\ [][HistoryNext]_historyVars

-----------------------------------------------------------------------------
(* A summary that may not have been made from all that it replaces: its
   source was over the bound, or it is the first of a transcript that was
   longer than the tail page, which between two requests is all that a
   snapshot holds while there is no summary. *)
Curtailed(s, n) ==
    \/ ~s[n].whole
    \/ n > TailPage + 1 /\ \A m \in OfKind(s, {"summary"}) : n <= m

(* No word is silently dropped from the memory of a conversation: each card
   of the exchange is in the projection that the next turn starts from, or
   it was superseded by a summary; and then the newest summary can still
   tell of it, through any number of summaries, unless the source of one
   of them was curtailed. *)
NothingForgotten ==
    LET card == NewestSummary(script)
        exchange == OfKind(script, {"user", "assistant", "call", "tool", "denied"})
    IN /\ exchange \subseteq CardsOf(ScanSegments(script, DOMAIN script)) \cup Superseded(script)
       /\ \/ \A n \in exchange \cap Superseded(script) : n \in script[card].stands
          \/ \E n \in OfKind(script, {"summary"}) : Curtailed(script, n)

(* The cards without some of them, in their order. *)
Without(cards, ns) ==
    LET upto[i \in 0..Len(cards)] ==
            IF i = 0 THEN <<>>
            ELSE IF cards[i] \in ns THEN upto[i - 1]
            ELSE Append(upto[i - 1], cards[i])
    IN upto[Len(cards)]

(* What the running turn has in memory is what a restart would rebuild from
   the transcript: apart from what the newest summary supersedes, the cards
   of the request are a suffix of the projection, in the same order and with
   the same results replaced by skeletons. *)
RequestIsProjection ==
    phase = "running" =>
        LET mine == Without(carried.cards, Superseded(script))
            whole == Flat(ScanSegments(script, DOMAIN script))
        IN /\ IsSuffix(mine, whole)
           /\ \A n \in Range(mine) : n \in carried.skeletons <=> n \in Skeletons(script)

(* The grammar of the provider: in the projection of an idle session, each
   tool call is followed at once by one result, and each result follows a
   call; but a fork may have left the result of a call behind. *)
CallsArePaired ==
    phase = "ready" =>
        LET cards == Flat(ScanSegments(script, DOMAIN script))
            is(i, kinds) == i \in DOMAIN cards /\ script[cards[i]].kind \in kinds
        IN \A i \in DOMAIN cards :
             /\ is(i, {"call"}) => is(i + 1, {"tool", "denied"}) \/ cards[i] \in severed
             /\ is(i, {"tool", "denied", "check"}) => is(i - 1, {"call"})

(* The invariants of the history together. *)
HistoryCorrect ==
    HistoryTypeOK /\ NothingForgotten /\ RequestIsProjection /\ CallsArePaired
=============================================================================
