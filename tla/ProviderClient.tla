--------------------------- MODULE ProviderClient ---------------------------
(***************************************************************************)
(* One call of the model provider (latte-headless, provider.rs), made by   *)
(* one round of a turn (session.rs, run_provider_step): requests and their *)
(* retries, the pauses between them, the fallback from a stream to an      *)
(* inline answer, the assembly of a streamed answer, the deadline of the   *)
(* call, the time-out of the transport and the cancellation of the turn.   *)
(*                                                                         *)
(* Time is a clock in ticks.  A piece of text or of the arguments of a     *)
(* tool call is a model value, and a concatenation the sequence of its     *)
(* pieces.  What the provider does with a request is chosen freely.        *)
(***************************************************************************)
EXTENDS Integers, Sequences, FiniteSets, SequencesExt

CONSTANTS MaxAttempts,   \* with_max_attempts
          Deadline,      \* ProviderContext::deadline
          ClientTimeout, \* the time-out of the transport, for one request
          BasePause,     \* the first pause of the back-off
          MaxPause,      \* the longest pause
          RetryAfters,   \* what a Retry-After header may say
          Streaming,     \* with_streaming
          MaxCalls,      \* MAX_SSE_TOOL_CALLS
          Streams,       \* what a provider may stream
          NoId           \* a part of a tool call that repeats no id

(* An event of a stream; the index of a text is not looked at. *)
Delta(e) ==
    /\ e.kind \in {"text", "call", "done"}
    /\ e.index \in Nat
    /\ e.kind = "text" => e.index = 0
    /\ e.kind = "call" => e.index > 0

ASSUME ProviderAssumption ==
    /\ MaxAttempts \in Nat \ {0}
    /\ {Deadline, ClientTimeout, BasePause, MaxPause, MaxCalls} \subseteq Nat
    /\ RetryAfters \subseteq Nat
    /\ Streaming \in BOOLEAN
    /\ \A stream \in Streams :
          stream \in Seq(ToSet(stream)) /\ \A e \in ToSet(stream) : Delta(e)

VARIABLES call,      \* where complete() is, and its timer
          clock,
          token,     \* the cancellation token of the round
          fates,     \* history: what became of each request
          reply,     \* what the provider streams
          assembly,  \* StreamAssembly, and the lines of an unfinished event
          result     \* what complete() returned

providerVars == <<call, clock, token, fates, reply, assembly, result>>

Waiting == {"send", "pause", "stream", "json"}
Fates == {"open", "unreached", "refused", "unclear", "streamless", "rejected", "taken"}
Errors == {"cancelled", "timeout", "transport", "http", "overflow", "malformed"}
NoAssembly == [text |-> <<>>, tools |-> <<>>, line |-> FALSE, ended |-> FALSE]
Nothing == [kind |-> "none", text |-> <<>>, tools |-> <<>>]

ProviderTypeOK ==
    /\ call \in [stage: Waiting \cup {"attempt", "inline", "done"},
                 attempt: 0..MaxAttempts, inline: BOOLEAN, started: Nat, until: Nat]
    /\ clock \in Nat
    /\ token \in BOOLEAN
    /\ fates \in Seq(Fates)
    /\ Len(fates) <= MaxAttempts + 1
    /\ result.kind \in Errors \cup {"none", "answer", "inline"}
    /\ (call.stage = "done") <=> (result.kind # "none")

ProviderInit ==
    /\ call = [stage |-> "attempt", attempt |-> 0, inline |-> FALSE,
               started |-> 0, until |-> 0]
    /\ clock = 0
    /\ token = FALSE
    /\ fates = <<>>
    /\ reply = <<>>
    /\ assembly = NoAssembly
    /\ result = Nothing

Least(a, b) == IF a < b THEN a ELSE b

Return(kind) ==
    /\ call' = [call EXCEPT !.stage = "done"]
    /\ result' = [Nothing EXCEPT !.kind = kind]

Settled(fate) == fates' = [fates EXCEPT ![Len(fates)] = fate]

-----------------------------------------------------------------------------
(* A request goes out, with what is left of the deadline. *)

Begin(number) ==
    LET remaining == Least(Deadline - clock, ClientTimeout) IN
    /\ IF token THEN Return("cancelled") /\ UNCHANGED fates
       ELSE IF remaining <= 0 THEN Return("timeout") /\ UNCHANGED fates
       ELSE /\ call' = [call EXCEPT !.stage = "send", !.attempt = number,
                                    !.started = clock, !.until = clock + remaining]
            /\ fates' = Append(fates, "open")
            /\ UNCHANGED result
    /\ UNCHANGED <<clock, token, reply, assembly>>

SendAttempt == call.stage = "attempt" /\ Begin(call.attempt + 1)

(* complete_inline_once: one request, the stream left out. *)
SendInline == call.stage = "inline" /\ Begin(call.attempt)

(* retry_pause: never to the deadline or past it. *)
Pause(hint) ==
    LET exponential == BasePause * <<1, 2, 4, 8, 16>>[Least(call.attempt, 5)]
        delay == Least(IF hint = -1 THEN exponential ELSE hint, MaxPause)
    IN
    IF clock + delay >= Deadline THEN Return("timeout")
    ELSE /\ call' = [call EXCEPT !.stage = "pause", !.until = clock + delay]
         /\ UNCHANGED result

Retries == ~call.inline /\ call.attempt < MaxAttempts

CannotConnect ==
    /\ call.stage = "send"
    /\ Settled("unreached")
    /\ IF Retries THEN Pause(-1) ELSE Return("transport")
    /\ UNCHANGED <<clock, token, reply, assembly>>

(* A fault, for comparison: a request that broke is sent again. *)
BreaksAndRepeats ==
    /\ call.stage = "send"
    /\ Settled("taken")
    /\ IF Retries THEN Pause(-1) ELSE Return("transport")
    /\ UNCHANGED <<clock, token, reply, assembly>>

(* The connection breaks after the request went out: nobody knows how far the
   provider got. *)
Breaks ==
    /\ call.stage = "send"
    /\ Settled("taken")
    /\ \E kind \in {"transport", "timeout"} : Return(kind)
    /\ UNCHANGED <<clock, token, reply, assembly>>

SendTimesOut ==
    /\ call.stage = "send"
    /\ clock >= call.until
    /\ Settled("taken")
    /\ Return("timeout")
    /\ UNCHANGED <<clock, token, reply, assembly>>

(* is_retryable_status: the provider was too busy to take the request (429, 503),
   or it or a gateway gave up on it, and the provider may have begun (408, 502,
   504).  The client makes no difference between them. *)
TransientStatus ==
    /\ call.stage = "send"
    /\ \E fate \in {"refused", "unclear"} : Settled(fate)
    /\ IF Retries THEN \E hint \in RetryAfters \cup {-1} : Pause(hint)
       ELSE Return("http")
    /\ UNCHANGED <<clock, token, reply, assembly>>

(* Another status, with a body that says why: classify_http_error. *)
Rejects ==
    /\ call.stage = "send"
    /\ Settled("rejected")
    /\ \E kind \in {"overflow", "http", "transport"} : Return(kind)
    /\ UNCHANGED <<clock, token, reply, assembly>>

(* 400, 404, 415 or 422 and an empty body: the provider may not know streams. *)
RejectsStream ==
    /\ call.stage = "send"
    /\ IF Streaming /\ ~call.inline
       THEN /\ Settled("streamless")
            /\ call' = [call EXCEPT !.stage = "inline", !.inline = TRUE]
            /\ UNCHANGED result
       ELSE Settled("rejected") /\ Return("http")
    /\ UNCHANGED <<clock, token, reply, assembly>>

(* A success: a stream is read if one was asked for; JSON always is. *)
Answers(stage, stream) ==
    /\ call.stage = "send"
    /\ stage = "stream" => Streaming /\ ~call.inline
    /\ Settled("taken")
    /\ call' = [call EXCEPT !.stage = stage, !.until = call.started + ClientTimeout]
    /\ reply' = stream
    /\ assembly' = NoAssembly
    /\ UNCHANGED <<clock, token, result>>

Wake ==
    /\ call.stage = "pause"
    /\ IF token THEN Return("cancelled")
       ELSE clock >= call.until /\ call' = [call EXCEPT !.stage = "attempt"]
                                /\ UNCHANGED result
    /\ UNCHANGED <<clock, token, fates, reply, assembly>>

-----------------------------------------------------------------------------
(* The answer. *)

(* One delta of a tool call; what is missing before its index is filled up. *)
Assembled(a, e) ==
    LET known == [i \in 1..(IF Len(a.tools) < e.index THEN e.index ELSE Len(a.tools)) |->
                     IF i <= Len(a.tools) THEN a.tools[i]
                     ELSE [id |-> NoId, args |-> <<>>]]
    IN [a EXCEPT !.tools =
           [known EXCEPT ![e.index].id = IF e.id = NoId THEN @ ELSE e.id,
                         ![e.index].args = Append(@, e.piece)]]

Malformed(a, e) ==
    /\ e.kind = "call"
    /\ \/ e.index > MaxCalls
       \/ /\ e.index <= Len(a.tools)
          /\ e.id # NoId
          /\ a.tools[e.index].id \notin {NoId, e.id}

Consumed(a, e) ==
    CASE e.kind = "text" -> [a EXCEPT !.text = Append(@, e.piece)]
      [] e.kind = "call" -> Assembled(a, e)
      [] e.kind = "done" -> [a EXCEPT !.ended = TRUE]

(* Every call has an id, and no two have the same (validate_tool_calls). *)
ValidCalls(tools) ==
    \A i, j \in DOMAIN tools :
        tools[i].id # NoId /\ (tools[i].id = tools[j].id => i = j)

(* The end of parse_openai_sse. *)
StreamOver(a) ==
    /\ call' = [call EXCEPT !.stage = "done"]
    /\ result' = IF a.ended /\ ValidCalls(a.tools)
                 THEN [kind |-> "answer", text |-> a.text, tools |-> a.tools]
                 ELSE [Nothing EXCEPT !.kind = "malformed"]

(* The data of the next event arrives. *)
DataLine ==
    /\ call.stage = "stream"
    /\ reply # <<>>
    /\ ~assembly.line
    /\ assembly' = [assembly EXCEPT !.line = TRUE]
    /\ UNCHANGED <<call, clock, token, fates, reply, result>>

(* The empty line after it: consume_sse_event. *)
BlankLine ==
    LET a == Consumed(assembly, Head(reply)) IN
    /\ call.stage = "stream"
    /\ assembly.line
    /\ reply' = Tail(reply)
    /\ assembly' = [a EXCEPT !.line = FALSE]
    /\ IF Malformed(assembly, Head(reply)) THEN Return("malformed")
       ELSE IF a.ended THEN StreamOver(a)
       ELSE UNCHANGED <<call, result>>
    /\ UNCHANGED <<clock, token, fates>>

(* The body ends, wherever it is; the data of an event without its empty line
   is consumed. *)
BodyEnds ==
    LET last == assembly.line
        bad == last /\ Malformed(assembly, Head(reply))
    IN
    /\ call.stage = "stream"
    /\ IF bad THEN Return("malformed")
       ELSE StreamOver(IF last THEN Consumed(assembly, Head(reply)) ELSE assembly)
    /\ UNCHANGED <<clock, token, fates, reply, assembly>>

StreamCancelled ==
    /\ call.stage = "stream"
    /\ token
    /\ Return("cancelled")
    /\ UNCHANGED <<clock, token, fates, reply, assembly>>

(* response.json and decode_wire: all of it or none; the token is not polled. *)
JsonArrives ==
    /\ call.stage = "json"
    /\ \E kind \in {"inline", "malformed"} : Return(kind)
    /\ UNCHANGED <<clock, token, fates, reply, assembly>>

BodyBreaks ==
    /\ call.stage \in {"stream", "json"}
    /\ Return(IF call.stage = "stream" THEN "transport" ELSE "malformed")
    /\ UNCHANGED <<clock, token, fates, reply, assembly>>

-----------------------------------------------------------------------------
(* Time passes while the call waits, and never past its timer. *)
Elapse ==
    /\ call.stage \in Waiting
    /\ clock < call.until
    /\ clock' = clock + 1
    /\ UNCHANGED <<call, token, fates, reply, assembly, result>>

(* cancel_durable finds the token of the round, or the renewal of the lease
   fails. *)
CancelRound ==
    /\ call.stage # "done"
    /\ ~token
    /\ token' = TRUE
    /\ UNCHANGED <<call, clock, fates, reply, assembly, result>>

(* The steps the client takes by itself. *)
Drive == SendAttempt \/ SendInline \/ Wake \/ SendTimesOut

(* What the transport does at the latest when the time of a request is up. *)
GiveUp == BodyBreaks /\ clock >= call.until

ProviderNext ==
    \/ Drive
    \/ CannotConnect \/ Breaks \/ TransientStatus \/ Rejects \/ RejectsStream
    \/ \E stage \in {"stream", "json"}, stream \in Streams : Answers(stage, stream)
    \/ DataLine \/ BlankLine \/ BodyEnds \/ StreamCancelled \/ JsonArrives
    \/ BodyBreaks
    \/ Elapse
    \/ CancelRound

ProviderSpec == ProviderInit /\ [][ProviderNext]_providerVars

(* The client is scheduled, time passes, and the transport gives up when the
   time of a request is up; the provider need not do anything. *)
FairProvider ==
    /\ ProviderSpec
    /\ WF_providerVars(Drive) /\ WF_providerVars(GiveUp) /\ WF_providerVars(Elapse)

-----------------------------------------------------------------------------
(* A request is sent again only after what the client takes for transient: the
   provider was never reached or said so by its status; and once more, without
   the stream and for the last time, after a refusal of the stream without a
   byte ("A fallback is allowed only when the stream request was rejected before
   it produced any response body bytes", complete).  Whatever was answered,
   broke off or timed out after it went out is never repeated, nor is a request
   refused for good.  A status of a gateway does not tell whether the provider
   has begun, so the prompt of such a repeat may be worked on twice. *)
OnlyTransientRepeats ==
    \A i \in 1..(Len(fates) - 1) :
        /\ fates[i] \in {"unreached", "refused", "unclear", "streamless"}
        /\ fates[i] = "streamless" => i = Len(fates) - 1

(* The end mark of a stream that has one. *)
EndsAt(stream, i) == stream[i].kind = "done" /\ \A j \in 1..(i - 1) : stream[j].kind # "done"

EndOf(stream) == CHOOSE i \in DOMAIN stream : EndsAt(stream, i)

(* What the deltas of a stream up to its end mark say, put together at once. *)
Pieces(stream, kind, index) ==
    LET upTo[n \in 0..EndOf(stream)] ==
            IF n = 0 THEN <<>>
            ELSE IF stream[n].kind = kind /\ stream[n].index = index
            THEN Append(upTo[n - 1], stream[n].piece)
            ELSE upTo[n - 1]
    IN upTo[EndOf(stream)]

(* An answer is whole: however the bytes of a stream are cut, and wherever the
   stream breaks, the text and the arguments that reach the turn are those of
   the whole stream up to its end mark, each piece once and in order
   (consume_sse_event, parse_openai_sse: "SSE stream ended without [DONE]"). *)
AnswerIsWhole ==
    result.kind = "answer" =>
        \E stream \in Streams :
            /\ \E i \in DOMAIN stream : stream[i].kind = "done"
            /\ result.text = Pieces(stream, "text", 0)
            /\ \A i \in DOMAIN result.tools :
                   result.tools[i].args = Pieces(stream, "call", i)
            /\ \A i \in 1..EndOf(stream) :
                   stream[i].kind = "call" => stream[i].index <= Len(result.tools)

(* Every call of the provider returns, whatever the provider does not do: the
   retries are bounded, the pauses end, and the transport gives up on a body
   that never ends (complete, retry_pause). *)
CallReturns == (call.stage # "done") ~> (call.stage = "done")

(* The invariants of the provider client together. *)
ProviderClientCorrect == ProviderTypeOK /\ OnlyTransientRepeats /\ AnswerIsWhole
=============================================================================
