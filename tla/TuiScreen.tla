----------------------------- MODULE TuiScreen -----------------------------
(***************************************************************************)
(* What one frame of the terminal UI shows (latte-tui, session.rs, render  *)
(* and the functions below it): how the rows of the terminal are shared    *)
(* out between header, transcript and composer, where a blocking card is   *)
(* pinned, which part of the transcript the scroll position leaves in      *)
(* view, where the caret is put, and which suggestions of the slash popup  *)
(* are listed.  The user decides on an operation from what is on the       *)
(* screen, so it matters that a terminal of any size, resized at any       *)
(* time, with any text in the editor and any scroll position, shows it.    *)
(*                                                                         *)
(* A text is the sequence of the widths of its graphemes, with NewLine and *)
(* Tab told apart; a line of the transcript is the number of its cells, in *)
(* one word.  Colours, wording and everything in a row but its being there *)
(* are left out, and so are the columns: the model counts rows.            *)
(***************************************************************************)
EXTENDS Naturals, Sequences, FiniteSets, SequencesExt

CONSTANTS Widths, Heights,  \* the sizes the terminal may be given
          Cells,            \* cells of a line of the transcript
          MaxCardsShown,    \* bound: items of the transcript
          Graphemes,        \* what is typed: widths, or NewLine or Tab
          MaxText,          \* bound: graphemes in the editor
          MaxScrolls,       \* bound: scroll keys in a row
          Builtins          \* suggestions for a lone slash (BUILTINS.len)

ASSUME ScreenAssumption ==
    /\ Widths \subseteq Nat /\ Heights \subseteq Nat /\ Cells \subseteq Nat \ {0}
    /\ Graphemes \subseteq 0..3
    /\ MaxCardsShown \in Nat /\ MaxText \in Nat /\ MaxScrolls \in Nat
    /\ Builtins \in Nat \ {0}

VARIABLES terminal,  \* its width and height
          shows,     \* VisualState: what the selected session asks for
          items,     \* the transcript: messages, actions, completions
          editor,    \* the text in the composer, or in the input request
          popup,     \* slash_index + 1; 0 when nothing is suggested
          scroll,    \* rows above the tail, a u16
          scrolls    \* scroll keys since the last refresh (bound)

screenVars == <<terminal, shows, items, editor, popup, scroll, scrolls>>

NewLine == 0
Tab == 3

U16Max == 65535

Least2(a, b) == IF a < b THEN a ELSE b
Most2(a, b) == IF a < b THEN b ELSE a
Less(a, b) == IF a < b THEN 0 ELSE a - b     \* saturating_sub
Ceiling(a, b) == (a + b - 1) \div b

Blocking == {"permission", "reconciliation"}

(* An action may be expanded; a completion may carry a handoff. *)
Item == [kind: {"user", "message"}, cells: Cells, more: {FALSE}]
        \cup [kind: {"action", "completion"}, cells: Cells, more: BOOLEAN]

-----------------------------------------------------------------------------
(* Texts. *)

(* grapheme_width_at: a tab reaches to the next multiple of four. *)
WidthAt(g, column) == IF g = Tab THEN 4 - (column % 4) ELSE g

(* composer_text_layout: where the caret is after one more grapheme.  A row that
   is exactly full stays open until the next grapheme. *)
Placed(at, g, w) ==
    LET full == at.column > 0 /\ at.column + WidthAt(g, at.column) > w
        start == IF full THEN 0 ELSE at.column
        step == IF g = Tab THEN Least2(WidthAt(g, start), w) ELSE WidthAt(g, start)
    IN IF g = NewLine THEN [row |-> at.row + 1, column |-> 0]
       ELSE [row |-> IF full THEN at.row + 1 ELSE at.row, column |-> start + step]

(* The rows of the editor, with the caret after the last grapheme. *)
ComposerLayout(text, width) ==
    LET w == Most2(width, 1)
        at[n \in 0..Len(text)] == IF n = 0 THEN [row |-> 0, column |-> 0]
                                  ELSE Placed(at[n - 1], text[n], w)
        last == at[Len(text)]
    IN IF last.column >= w THEN [row |-> last.row + 1, column |-> 0] ELSE last

EditorRows(text, width) == ComposerLayout(text, width).row + 1

(* wrap_text, of a text without line breaks. *)
Wrapped(cells, width) == Ceiling(cells, Most2(width, 1))

(* wrapped_presentation_line_height, of a line that is one word. *)
LineRows(cells, width) ==
    IF width = 0 THEN 0 ELSE Most2(Ceiling(cells, width), 1)

-----------------------------------------------------------------------------
(* The layout. *)

(* ViewportTier::for_width. *)
Tier(w) == CASE w >= 110 -> "wide" [] w >= 78 /\ w < 110 -> "medium"
             [] OTHER -> "narrow"

CompactInset(t) == IF t = "narrow" THEN 2 ELSE 3
TranscriptInset(t) == IF t = "narrow" THEN 2 ELSE 4
IdleComposerInset(t) == CASE t = "wide" -> 6 [] t = "medium" -> 4 [] OTHER -> 2

BoundedInset(w, desired) == Least2(desired, Less(w, 1) \div 2)

AppWidth == Least2(terminal.w, 160)

(* IdleComposition::for_area and header_height; the header of a session. *)
DesiredHeader(state, t, h) ==
    CASE state = "idle" /\ t = "wide" -> IF h >= 52 THEN 20 ELSE 12
      [] state = "idle" /\ t = "medium" -> 15
      [] state = "idle" /\ t = "narrow" -> 12
      [] OTHER -> IF t = "narrow" THEN 2 ELSE 3

(* The header of the welcome screen in a small terminal. *)
CompactHeader(h) ==
    CASE h <= 2 -> 0 [] h \in 3..5 -> 1 [] h \in 6..9 -> 2 [] OTHER -> 5

BaseComposer(state, t, h) ==
    CASE state \in Blocking /\ h < 18 -> 3
      [] ~(state \in Blocking /\ h < 18)
         /\ (t = "narrow" \/ (state = "idle" /\ t = "wide" /\ h >= 52)) -> 5
      [] OTHER -> 4

(* viewport_layout keeps one row of the transcript, if there is one. *)
ComposerHeight(desired, header, h) ==
    LET reserve == IF h >= header + Least2(h, 2) + 1 THEN 1 ELSE 0
    IN Least2(desired, Less(Less(h, header), reserve))

(* viewport_layout. *)
Layout ==
    LET w == AppWidth
        h == terminal.h
        t == Tier(w)
        inset == BoundedInset(w, IF shows = "idle" THEN IdleComposerInset(t)
                                                    ELSE CompactInset(t))
        desired == BaseComposer(shows, t, h)
                   + Least2(EditorRows(editor, Less(w, 2 * inset + 2)) - 1, 4)
        wanted == DesiredHeader(shows, t, h)
        compact == shows = "idle" /\ (w < 40 \/ h < wanted + desired + 1)
        header == Least2(IF compact THEN CompactHeader(h) ELSE wanted,
                         Less(h, Least2(h, 2)))
        composer == ComposerHeight(desired, header, h)
        side == BoundedInset(w, TranscriptInset(t))
    IN [header |-> header, composer |-> composer,
        transcript |-> Less(Less(h, header), composer),
        inset |-> inset, width |-> Less(w, 2 * side), tier |-> t]

-----------------------------------------------------------------------------
(* The header, and the welcome screen of a session that does not exist yet. *)

(* render_welcome_header: where the card with the environment is, from the top
   of the header, by the composition that the terminal allows. *)
EnvironmentCard(t, h) ==
    CASE t = "wide" -> [top |-> IF h >= 52 THEN 4 ELSE 2, rows |-> 7]
      [] t = "medium" -> [top |-> 7, rows |-> 7]
      [] OTHER -> [top |-> 5, rows |-> 5]

Environment == <<"model", "directory", "permissions">>

(* render_environment_card: two borders, an empty row where there is room, and
   what is left for the environment. *)
CardFacts(rows) ==
    LET lines == Less(rows, IF rows >= 7 THEN 3 ELSE 2)
    IN ToSet(SubSeq(Environment, 1, Least2(lines, 3)))

(* render_constrained_welcome_header: between the title and the rule. *)
ConstrainedFacts(rows) ==
    CASE rows = 0 -> {}
      [] rows = 1 -> {"directory"}
      [] rows = 2 -> {"model", "directory"}
      [] OTHER -> ToSet(Environment)

(* The welcome screen has its card if its header has the height it wants. *)
WholeWelcome(area) ==
    area.header >= DesiredHeader("idle", area.tier, terminal.h) /\ AppWidth >= 40

(* render_header: the state of the session in the first row, or the welcome. *)
HeaderTells(area) ==
    CASE area.header = 0 -> {}
      [] area.header > 0 /\ shows # "idle" -> {"status"}
      [] OTHER -> IF WholeWelcome(area)
                  THEN CardFacts(EnvironmentCard(area.tier, terminal.h).rows)
                  ELSE ConstrainedFacts(Less(area.header, 2))

(* render_welcome: the row of the transcript that says why a submission was
   refused. *)
RefusalRow(t, h) ==
    CASE t = "wide" -> IF h >= 52 THEN 4 ELSE 3
      [] t = "medium" -> 2
      [] OTHER -> 1

-----------------------------------------------------------------------------
(* The transcript. *)

(* render_message_lines, render_completion_lines, and the lines of an action:
   rows of one item in an area of width w. *)
ItemRows(i, w) ==
    CASE i.kind = "user" -> Most2(Wrapped(i.cells, Less(w, 5)) + 2, 3) + 1
      [] i.kind = "message" -> Wrapped(i.cells, Less(w, 3))
      [] i.kind = "completion" ->
            Wrapped(i.cells, Less(w, 3))
            + IF i.more THEN 2 + Wrapped(i.cells, Less(w, 7)) ELSE 0
      [] i.kind = "action" ->
            LineRows(i.cells, w)
            + IF i.more THEN Least2(Wrapped(i.cells, Less(w, 7)), 6) + 1 ELSE 0

(* render_transcript: two empty rows where there is room for them. *)
TranscriptRows(area) ==
    FoldLeft(LAMBDA sum, i : sum + ItemRows(i, area.width),
             IF area.transcript >= 6 THEN 2 ELSE 0, items)

(* The first row in view: rows_above_tail and top_offset. *)
TopOffset(area) ==
    LET maximum == Less(TranscriptRows(area), area.transcript)
    IN maximum - Least2(scroll, maximum)

-----------------------------------------------------------------------------
(* The blocking card. *)

(* render_permission_card and render_reconciliation_card: borders, a reason, a
   rule, and the rows that say what is asked, on what, and which keys answer. *)
CardRows(state) == IF state = "permission" THEN 8 ELSE 7

(* A fault, for comparison: the card is a part of the transcript. *)
CardScrolled(area) ==
    [height |-> Less(CardRows(shows), TopOffset(area)), compact |-> FALSE]

(* render_blocking_card: the whole card, or three rows of it; as many of them
   as the transcript has rows, with a row left free below if there is one. *)
BlockingCard(area) ==
    LET compact == CardRows(shows) + 2 > area.transcript
        rows == IF compact THEN 3 ELSE CardRows(shows)
        below == IF area.transcript > rows THEN 1 ELSE 0
    IN [height |-> IF area.width = 0 THEN 0
                   ELSE Least2(rows, Less(area.transcript, below)),
        compact |-> compact]

(* What the user needs to decide: that something is asked, on what, how. *)
CardTells(area) ==
    LET c == BlockingCard(area) IN
    CASE c.height = 0 -> {}
      [] c.compact /\ c.height = 1 -> {"asked"}
      [] c.compact /\ c.height = 2 -> {"asked", "target"}
      [] OTHER -> {"asked", "target", "keys"}

-----------------------------------------------------------------------------
(* The composer and the popup. *)

(* render_composer: rule, text, divider, footer. *)
Prompt(area) ==
    LET h == area.composer
        top == IF h >= 3 THEN 1 ELSE 0
        footer == CASE h <= 1 -> 0
                    [] area.tier = "narrow" /\ h >= 4 -> 2
                    [] OTHER -> 1
        divider == IF h >= top + footer + 2 THEN 1 ELSE 0
    IN [top |-> top, bottom |-> divider + footer,
        height |-> Most2(Less(Less(Less(h, top), divider), footer), 1)]

(* The first row of the editor in view. *)
VisibleStart(area) ==
    Less(EditorRows(editor, Less(Less(AppWidth, 2 * area.inset), 2)),
         Prompt(area).height)

(* The row of the composer the caret is put on. *)
CaretRow(area) ==
    LET p == Prompt(area)
        caret == ComposerLayout(editor, Less(Less(AppWidth, 2 * area.inset), 2)).row
    IN Least2(p.top + Less(caret, VisibleStart(area)), p.top + p.height - 1)

(* render_slash_suggestions: first and last suggestion listed, if any is. *)
Suggested(area) ==
    LET available == area.header + area.transcript
        width == Less(AppWidth, 2 * area.inset)
        visible == Less(Least2(Builtins + 3, available), 3)
        start == Least2(Less(popup, visible), Less(Builtins, visible))
    IN IF available < 4 \/ width < 12 \/ visible = 0 THEN {}
       ELSE (start + 1)..Least2(start + visible, Builtins)

-----------------------------------------------------------------------------
ScreenInit ==
    /\ terminal \in [w: Widths, h: Heights]
    /\ shows = "idle"
    /\ items = <<>>
    /\ editor = <<>>
    /\ popup = 0
    /\ scroll = 0
    /\ scrolls = 0

(* SessionUiInput::Resize; the next frame has the new size. *)
Resize ==
    /\ terminal' \in [w: Widths, h: Heights]
    /\ UNCHANGED <<shows, items, editor, popup, scroll, scrolls>>

(* A fresh snapshot, by SessionUiInput::SessionOpened: the view goes back to
   the tail, and another request may be pending. *)
Redrawn(state, cards) ==
    /\ shows' = state
    /\ items' = cards
    /\ scroll' = 0
    /\ scrolls' = 0
    /\ popup' = IF state \in Blocking THEN 0 ELSE popup
    /\ UNCHANGED <<terminal, editor>>

SessionMoves ==
    /\ shows \notin Blocking
    /\ \E state \in {"active", "complete"} \cup Blocking :
           Redrawn(state, items)

CardArrives ==
    /\ shows \notin Blocking
    /\ Len(items) < MaxCardsShown
    /\ \E i \in Item : Redrawn("active", Append(items, i))

Resolved == shows \in Blocking /\ Redrawn("active", items)

(* Enter on an action: expanded_actions. *)
Expand ==
    /\ shows \notin Blocking
    /\ \E n \in DOMAIN items :
           /\ items[n].kind = "action"
           /\ items' = [items EXCEPT ![n].more = ~@]
    /\ UNCHANGED <<terminal, shows, editor, popup, scroll, scrolls>>

Type ==
    /\ shows \notin Blocking
    /\ Len(editor) < MaxText
    /\ \E g \in Graphemes : editor' = Append(editor, g)
    /\ popup' = 0
    /\ UNCHANGED <<terminal, shows, items, scroll, scrolls>>

Erase ==
    /\ shows \notin Blocking
    /\ editor # <<>>
    /\ editor' = Front(editor)
    /\ popup' = 0
    /\ UNCHANGED <<terminal, shows, items, scroll, scrolls>>

(* A lone slash, and the arrow keys. *)
Slash ==
    /\ shows \notin Blocking
    /\ editor = <<>>
    /\ editor' = <<1>>
    /\ popup' = 1
    /\ UNCHANGED <<terminal, shows, items, scroll, scrolls>>

SlashMoves ==
    /\ popup > 0
    /\ popup' \in {Least2(popup + 1, Builtins), Most2(popup - 1, 1)}
    /\ UNCHANGED <<terminal, shows, items, editor, scroll, scrolls>>

(* reduce_mouse, and PgUp, PgDn and Home of reduce_navigation_key. *)
Scroll ==
    /\ scrolls < MaxScrolls
    /\ scrolls' = scrolls + 1
    /\ scroll' \in {Least2(scroll + 3, U16Max), Less(scroll, 3)}
                   \cup (IF shows \in Blocking THEN {}
                         ELSE {Least2(scroll + 8, U16Max), Less(scroll, 8), U16Max})
    /\ UNCHANGED <<terminal, shows, items, editor, popup>>

ScreenNext ==
    \/ Resize \/ SessionMoves \/ CardArrives \/ Resolved \/ Expand
    \/ Type \/ Erase \/ Slash \/ SlashMoves \/ Scroll

ScreenSpec == ScreenInit /\ [][ScreenNext]_screenVars

-----------------------------------------------------------------------------
(* The rows of the terminal are shared out exactly, and from six rows on the
   composer keeps two of them and the transcript at least one, however long
   the text in the editor is (viewport_layout). *)
RowsAreShared(a) ==
    /\ a.header + a.transcript + a.composer = terminal.h
    /\ terminal.h >= 6 => a.composer >= 2 /\ a.transcript >= 1

(* "a pre-existing scroll offset can never move the required decision out of
   view": a request that is waiting is on the screen in every terminal of six
   rows or more, and from fourteen rows on so is what it is about and how to answer
   (render_blocking_card), whatever was typed, scrolled or resized before. *)
DecisionInView(a) ==
    shows \in Blocking /\ terminal.w > 0 =>
        /\ terminal.h >= 6 => "asked" \in CardTells(a)
        /\ terminal.h >= 14 => "keys" \in CardTells(a)

(* The caret is on the row where the next grapheme will appear, inside the
   rows of the prompt (render_composer, composer_text_layout). *)
CaretInView(a) ==
    LET p == Prompt(a) IN
    terminal.w > 0 /\ terminal.h >= 2 /\ shows \notin Blocking =>
        /\ CaretRow(a) \in p.top..(a.composer - 1 - p.bottom)
        /\ CaretRow(a) - p.top + VisibleStart(a)
              = ComposerLayout(editor, Less(Less(AppWidth, 2 * a.inset), 2)).row

(* A popup that is drawn lists the suggestion that Enter would run
   (render_slash_suggestions, reduce_slash_popup_key). *)
SelectionInView(a) ==
    popup > 0 /\ Suggested(a) # {} => popup \in Suggested(a)

(* What the user needs to know before typing is on the screen: in a terminal of
   ten rows or more the welcome names the permissions in force with the model
   and the directory, its card ends above the rule of the header, and from 28
   rows on the reason of a refused submission is in view; the header of an open
   session tells its state in every terminal that has three rows (render_header,
   render_welcome_header, render_welcome). *)
HeaderInView(a) ==
    LET card == EnvironmentCard(a.tier, terminal.h) IN
    /\ shows # "idle" /\ terminal.h >= 3 => "status" \in HeaderTells(a)
    /\ shows = "idle" /\ terminal.h >= 10 => HeaderTells(a) = ToSet(Environment)
    /\ shows = "idle" /\ WholeWelcome(a) => card.top + card.rows < a.header
    /\ shows = "idle" /\ terminal.h >= 28 => RefusalRow(a.tier, terminal.h) < a.transcript

(* The invariants of the screen together, of the layout of the moment. *)
TuiScreenCorrect ==
    \A a \in {Layout} :
        /\ RowsAreShared(a) /\ DecisionInView(a) /\ CaretInView(a)
        /\ SelectionInView(a) /\ HeaderInView(a)
=============================================================================
