----------------------------- MODULE TextGuards -----------------------------
(***************************************************************************)
(* The two filters every text passes on its way to the transcript and to   *)
(* the provider: redact_session_text (latte-core/src/session.rs), which    *)
(* drops terminal controls, caps the length and hides credentials, and     *)
(* escape_volatile_frames (latte-headless/src/session.rs), which keeps a   *)
(* file's content from forging a frame of the request's volatile tail.     *)
(*                                                                         *)
(* A text is a sequence of pieces: "lt", "slash", "tag", "space" and "gt"  *)
(* make frame tokens; "esc" and "open" begin a control sequence, "control" *)
(* is any other control character. The others are words or parts of words: *)
(* "name" is a word of at least six letters that names a credential        *)
(* ("secret"), "bearer" that word, "sk" the prefix "sk-", "value" and      *)
(* "tag" any long word, "letter" a single one; "sep" is "=" and "close"    *)
(* "]". Quoted values, the other brackets and the other separators are     *)
(* left out. The mark "[REDACTED]" comes into a text by redaction only, so *)
(* that it is read by a later pass but never typed.                        *)
(***************************************************************************)
EXTENDS Naturals, Sequences

CONSTANTS MaxPieces,    \* length of the texts that are tried
          Caps          \* the values of SESSION_TEXT_CAP_BYTES that are tried, in pieces

ASSUME TextAssumption == MaxPieces \in Nat /\ Caps \subseteq Nat

VARIABLES body          \* the text, as it comes from a file, a tool or a user

Glyphs == {"lt", "slash", "tag", "space", "gt", "esc", "open", "close", "letter",
            "control", "name", "sep", "bearer", "sk", "value"}

\* "redacted" and "truncated" are marks in brackets, "dash" is what a key leaves.
Fragments == Glyphs \cup {"redacted", "truncated", "neutral", "dash"}

\* "[REDACTED]" is longer than the shortest credential it stands for.
Width(p) == IF p = "redacted" THEN 3 ELSE 1

\* The length of a text.
Size(s) ==
    LET w[i \in 1..(Len(s) + 1)] == IF i > Len(s) THEN 0 ELSE Width(s[i]) + w[i + 1]
    IN w[1]

-----------------------------------------------------------------------------
(* redact_session_text *)

\* The end of a control sequence: behind its first final character ('@' to '~'),
\* or the end of the text.
AfterSequence(s, i) ==
    LET finals == {j \in i..Len(s) : s[j] \in {"letter", "open", "close", "tag", "name",
                                             "bearer", "sk", "value"}}
    IN IF finals = {} THEN Len(s) + 1
       ELSE (CHOOSE j \in finals : \A k \in finals : j <= k) + 1

\* The text without controls and cut at the cap; `room' pieces may still be kept.
Filtered(s, cap) ==
    LET f[i \in 1..(Len(s) + 1)] == [room \in 0..cap |->
            IF i > Len(s) THEN <<>>
            ELSE IF s[i] = "esc" /\ i < Len(s) /\ s[i + 1] = "open"
                 THEN f[AfterSequence(s, i + 2)][room]
            ELSE IF s[i] \in {"esc", "control"} THEN f[i + 1][room]
            ELSE IF room < Width(s[i]) THEN <<"truncated">>
            ELSE <<s[i]>> \o f[i + 1][room - Width(s[i])]]
    IN f[1][cap]

\* replace_all: where something begins at i and ends before end[i], mark[i] instead.
Replaced(s, end, mark) ==
    LET f[i \in 1..(Len(s) + 1)] ==
            IF i > Len(s) THEN <<>>
            ELSE IF end[i] > i THEN mark[i] \o f[end[i]]
            ELSE <<s[i]>> \o f[i + 1]
    IN f[1]

\* The first place from i on whose piece is none of P.
Past(s, i, P) ==
    CHOOSE j \in i..(Len(s) + 1) :
        /\ \A k \in i..(j - 1) : s[k] \in P
        /\ j <= Len(s) => s[j] \notin P

\* The pieces that end in a letter, and those of [a-z0-9_-].
WordPieces == {"letter", "tag", "name", "bearer", "value"}
NamePieces == WordPieces \cup {"sk", "dash"}

WordBegins(s, i) == i = 1 \/ s[i - 1] \notin WordPieces

\* NAMED_ASSIGNMENT: where the value that is assigned to the name at i begins, or 0.
ValueOf(s, i) ==
    LET sep == Past(s, Past(s, i, NamePieces), {"space"})
        from == Past(s, sep + 1, {"space"})
    IN IF s[i] = "name" /\ sep < Len(s) /\ s[sep] = "sep"
          /\ from <= Len(s) /\ s[from] # "close"
       THEN from ELSE 0

\* Where it ends: behind a mark with all that is glued to it, or before the first
\* closing bracket, be it that of a mark.
ValueEnd(s, v) ==
    IF s[v] = "redacted" THEN Past(s, v, Fragments \ {"space"})
    ELSE LET end == Past(s, v, Fragments \ {"space", "close", "redacted", "truncated"})
         IN IF end <= Len(s) /\ s[end] \in {"redacted", "truncated"} THEN end + 1 ELSE end

AssignmentMasked(s, i, v) ==
    SubSeq(s, i, Past(s, i, NamePieces) - 1) \o <<"sep", "redacted">>
        \o (IF s[v] # "redacted" /\ s[ValueEnd(s, v) - 1] \in {"redacted", "truncated"}
            THEN <<"close">> ELSE <<>>)

AssignmentsMasked(s) ==
    Replaced(s, [i \in DOMAIN s |-> IF ValueOf(s, i) > 0 THEN ValueEnd(s, ValueOf(s, i)) ELSE 0],
                [i \in DOMAIN s |-> AssignmentMasked(s, i, ValueOf(s, i))])

\* BEARER: the end of the token behind the word at i, or 0.
BearerEnd(s, i) ==
    LET from == Past(s, i + 1, {"space"})
        end == Past(s, from, NamePieces \cup {"slash", "sep"})
    IN IF s[i] = "bearer" /\ WordBegins(s, i) /\ from > i + 1 /\ end > from THEN end ELSE 0

BearersMasked(s) ==
    Replaced(s, [i \in DOMAIN s |-> BearerEnd(s, i)],
                [i \in DOMAIN s |-> <<"bearer", "space", "redacted">>])

\* OPENAI_KEY: the end of the key at i, or 0. Letters and prefixes alone are too short.
KeyEnd(s, i) ==
    LET end == Past(s, i + 1, NamePieces)
    IN IF s[i] = "sk" /\ WordBegins(s, i)
          /\ \E k \in (i + 1)..(end - 1) : s[k] \in WordPieces \ {"letter"}
       THEN end ELSE 0

\* A key ends in a letter, so that a dash behind it stays.
KeysMasked(s) ==
    Replaced(s, [i \in DOMAIN s |-> KeyEnd(s, i)],
                [i \in DOMAIN s |-> IF KeyEnd(s, i) > 0 /\ s[KeyEnd(s, i) - 1] \notin WordPieces
                                    THEN <<"redacted", "dash">> ELSE <<"redacted">>])

\* redact_token_like_values.
Masked(s) == KeysMasked(BearersMasked(AssignmentsMasked(s)))

\* A bug it could have: credentials are looked for in the raw text.
RedactRawText(s, cap) == Filtered(Masked(s), cap)

RedactSessionText(s, cap) == Masked(Filtered(s, cap))

-----------------------------------------------------------------------------
(* escape_volatile_frames *)

\* The end of the frame token that begins at i, or 0: an optional slash, the name,
\* white space, and the closing bracket.
TokenEnd(s, i) ==
    LET name == IF i < Len(s) /\ s[i + 1] = "slash" THEN i + 2 ELSE i + 1
        ends == {j \in (name + 1)..Len(s) :
                    s[j] = "gt" /\ \A k \in (name + 1)..(j - 1) : s[k] = "space"}
    IN IF s[i] = "lt" /\ name <= Len(s) /\ s[name] = "tag" /\ ends # {}
       THEN CHOOSE j \in ends : TRUE ELSE 0

EscapeVolatileFrames(s) ==
    LET f[i \in 1..(Len(s) + 1)] ==
            IF i > Len(s) THEN <<>>
            ELSE IF TokenEnd(s, i) > 0 THEN <<"neutral">> \o f[TokenEnd(s, i) + 1]
            ELSE <<s[i]>> \o f[i + 1]
    IN f[1]

-----------------------------------------------------------------------------
TextInit == body = <<>>

ReadPiece(p) ==
    /\ Len(body) < MaxPieces
    /\ body' = Append(body, p)

TextNext == \E p \in Glyphs : ReadPiece(p)
TextSpec == TextInit /\ [][TextNext]_body

-----------------------------------------------------------------------------
\* What is glued to the mark of an assignment.
Glued(s) == \E i \in 1..(Len(s) - 1) :
    ValueOf(s, i) \in 1..(Len(s) - 1) /\ s[ValueOf(s, i)] = "redacted"
        /\ s[ValueOf(s, i) + 1] # "space"

(* A persisted text holds no control character, and a text that is shown   *)
(* holds no frame token, loses nothing else, and is not changed by a       *)
(* second escape.                                                          *)
TextsAreTame ==
    LET shown == EscapeVolatileFrames(body)
    IN /\ \A cap \in Caps : LET kept == RedactSessionText(body, cap)
                             IN \A i \in DOMAIN kept : kept[i] \notin {"esc", "control"}
       /\ \A i \in DOMAIN shown : TokenEnd(shown, i) = 0
       /\ EscapeVolatileFrames(shown) = shown
       /\ (\A i \in DOMAIN body : TokenEnd(body, i) = 0) => shown = body

(* A persisted text shows no credential in one of the three forms, not even *)
(* one that a control sequence had split. A second pass over it (storage    *)
(* redacts what the session redacted before) changes nothing but what is    *)
(* glued to an assignment's mark, a third pass nothing at all, unless the   *)
(* marks leave the text longer than the cap. The comment in                 *)
(* redact_token_like_values and its test promise more, that a second pass   *)
(* changes nothing: "[token=abc]" becomes "[token=[REDACTED]]" and then     *)
(* "[token=[REDACTED]", whose bracket was glued to the mark.                *)
CredentialsStayMasked ==
    \A cap \in Caps :
        LET kept == RedactSessionText(body, cap)
            again == RedactSessionText(kept, cap)
        IN /\ \A i \in DOMAIN kept : /\ ValueOf(kept, i) > 0 => kept[ValueOf(kept, i)] = "redacted"
                                     /\ BearerEnd(kept, i) = 0 /\ KeyEnd(kept, i) = 0
           /\ Size(kept) <= cap => /\ ~Glued(kept) => again = kept
                                  /\ RedactSessionText(again, cap) = again

TextsAreHarmless == TextsAreTame /\ CredentialsStayMasked
=============================================================================
