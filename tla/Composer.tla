------------------------------ MODULE Composer ------------------------------
(***************************************************************************)
(* The prompt editor: text with image and paste chips in it, the caret,    *)
(* the completion menu, prompt history, and the reverse search through it. *)
(*                                                                         *)
(* A character is a number and a chip three of them with a space inside,   *)
(* as the labels are written; a pasted block is one character once it is   *)
(* expanded.  Which prompts a query matches is left open.                  *)
(***************************************************************************)
EXTENDS Naturals, Sequences, SequencesExt, FiniteSets

CONSTANTS
    Keyboard,       \* the characters that are typed
    MaxInput,       \* bound: characters typed, chips pasted and prompts submitted
    ImageCap,       \* MAX_IMAGES_PER_MESSAGE
    HistoryCap      \* PROMPT_HISTORY_CAP

Letter  == 0
Space   == 1
Newline == 2
Slash   == 3
At      == 4

ASSUME ComposerAssumption ==
    /\ Keyboard \subseteq {Letter, Space, Newline, Slash, At}
    /\ {MaxInput, ImageCap} \subseteq Nat /\ HistoryCap \in Nat \ {0}

VARIABLES
    ed,         \* App, the fields of the composer
    past,       \* prompt_history
    mine,       \* the prompt the user has been writing
    spent       \* how much of the bound is used up

composerVars == <<ed, past, mine, spent>>

ImageChip(k) == <<10 * k, Space, 10 * k + 1>>
PasteChip(k) == <<500 + 10 * k, Space, 500 + 10 * k + 1>>
Block(k)     == 600 + k

whitespace(c) == c \in {Space, Newline}

Blank == [text |-> <<>>, images |-> {}]

NoSearch == [open |-> FALSE, draft |-> Blank, walk |-> 0, matches |-> {},
             shown |-> 0, in_composer |-> 0]

(* History positions count from one, and 0 is None. *)
FreshEditor ==
    [input |-> <<>>, input_cursor |-> 0, attached_images |-> {}, next_image_id |-> 0,
     pasted_blocks |-> 0, completion |-> "none", history_cursor |-> 0,
     history_draft |-> Blank, search |-> NoSearch]

ComposerInit ==
    /\ ed = FreshEditor /\ past = <<>> /\ mine = Blank
    /\ spent = 0

-----------------------------------------------------------------------------
(* Chips *)

OccursAt(label, text, i) == SubSeq(text, i + 1, i + 3) = label

contains(text, label) == \E i \in 0..(Len(text) - 3) : Len(text) >= 3 /\ OccursAt(label, text, i)

Labels(e) ==
    {ImageChip(k) : k \in e.attached_images} \cup {PasteChip(k) : k \in 1..e.pasted_blocks}

chip_spans(e) ==
    {<<i, i + 3>> : i \in {i \in 0..Len(e.input) : /\ i + 3 <= Len(e.input)
                                                  /\ SubSeq(e.input, i + 1, i + 3) \in Labels(e)}}

MutOutOfChip(e, i, exit) == i

(* An index inside a chip moves to one of its ends. *)
out_of_chip(e, i, exit) ==
    LET around == {s \in chip_spans(e) : s[1] < i /\ i < s[2]}
    IN  IF around = {} THEN i
        ELSE LET s == CHOOSE s \in around : TRUE
             IN  CASE exit = "start" -> s[1]
                   [] exit = "end" -> s[2]
                   [] exit = "nearest" -> IF i - s[1] <= s[2] - i THEN s[1] ELSE s[2]

-----------------------------------------------------------------------------
(* Completion *)

Spaces(text) == {i \in 1..Len(text) : whitespace(text[i])}

trailing_token_start(text) == IF Spaces(text) = {} THEN 0 ELSE Max(Spaces(text))

(* The one command is a slash and a letter; any file may match. *)
Command == <<Slash, Letter>>

compute_completion(text) ==
    CASE text # <<>> /\ text[1] = Slash ->
           IF Spaces(text) = {} /\ IsPrefix(text, Command) THEN "slash" ELSE "none"
      [] OTHER ->
           IF /\ trailing_token_start(text) < Len(text)
              /\ text[trailing_token_start(text) + 1] = At
           THEN "file" ELSE "none"

MutSyncImages(images, text) == images

sync_images(images, text) == {k \in images : contains(text, ImageChip(k))}

refresh_completion(e) ==
    [e EXCEPT !.attached_images = sync_images(@, e.input),
              !.completion = compute_completion(e.input)]

-----------------------------------------------------------------------------
(* Editing *)

(* What every edit ends with: the caret, no place in history, a new menu. *)
Edited(e, text, cursor) ==
    refresh_completion([e EXCEPT !.input = text, !.input_cursor = cursor, !.history_cursor = 0])

Cut(text, from, to) == SubSeq(text, 1, from) \o SubSeq(text, to + 1, Len(text))

Insert(text, at, s) == SubSeq(text, 1, at) \o s \o SubSeq(text, at + 1, Len(text))

insert_str_at_cursor(e, s) == Edited(e, Insert(e.input, e.input_cursor, s), e.input_cursor + Len(s))

(* A chip next to the caret goes as a whole. *)
backspace(e) ==
    LET c == e.input_cursor
        chip == {s \in chip_spans(e) : s[2] = c}
        from == IF chip = {} THEN c - 1 ELSE (CHOOSE s \in chip : TRUE)[1]
    IN  IF c = 0 THEN e ELSE Edited(e, Cut(e.input, from, c), from)

delete_forward(e) ==
    LET c == e.input_cursor
        chip == {s \in chip_spans(e) : s[1] = c}
        to == IF chip = {} THEN c + 1 ELSE (CHOOSE s \in chip : TRUE)[2]
    IN  IF c >= Len(e.input) THEN e ELSE Edited(e, Cut(e.input, c, to), c)

word_start_before(e) ==
    LET ws(i) == whitespace(e.input[i])
        skip[i \in 0..Len(e.input)] == IF i > 0 /\ ws(i) THEN skip[i - 1] ELSE i
        word[i \in 0..Len(e.input)] == IF i > 0 /\ ~ws(i) THEN word[i - 1] ELSE i
        out[i \in 0..Len(e.input)] ==
            LET p == out_of_chip(e, word[i], "start") IN IF p = word[i] THEN p ELSE out[p]
    IN  out[skip[e.input_cursor]]

word_end_after(e) ==
    LET n == Len(e.input)
        ws(i) == whitespace(e.input[i + 1])
        skip[i \in 0..n] == IF i < n /\ ws(i) THEN skip[i + 1] ELSE i
        word[i \in 0..n] == IF i < n /\ ~ws(i) THEN word[i + 1] ELSE i
        out[i \in 0..n] ==
            LET p == out_of_chip(e, word[i], "end") IN IF p = word[i] THEN p ELSE out[p]
    IN  out[skip[e.input_cursor]]

LineBreaks(e) == {i \in 1..Len(e.input) : e.input[i] = Newline}

line_start(e, c) == LET before == {i \in LineBreaks(e) : i <= c} IN IF before = {} THEN 0 ELSE Max(before)

line_end(e, c) == LET after == {i \in LineBreaks(e) : i > c} IN IF after = {} THEN Len(e.input) ELSE Min(after) - 1

delete_word_back(e) ==
    IF e.input_cursor = 0 THEN e
    ELSE Edited(e, Cut(e.input, word_start_before(e), e.input_cursor), word_start_before(e))

kill_to_line_start(e) ==
    IF e.input_cursor = 0 THEN e
    ELSE Edited(e, Cut(e.input, line_start(e, e.input_cursor), e.input_cursor),
                line_start(e, e.input_cursor))

kill_to_line_end(e) ==
    Edited(e, Cut(e.input, e.input_cursor, line_end(e, e.input_cursor)), e.input_cursor)

-----------------------------------------------------------------------------
(* Moving the caret *)

At_(e, c) == [e EXCEPT !.input_cursor = c]

cursor_left(e) ==
    IF e.input_cursor = 0 THEN e ELSE At_(e, out_of_chip(e, e.input_cursor - 1, "start"))

cursor_right(e) ==
    IF e.input_cursor = Len(e.input) THEN e
    ELSE At_(e, out_of_chip(e, e.input_cursor + 1, "end"))

(* The same column of the line above or below, no further than its end. *)
cursor_up_logical(e) ==
    LET start == line_start(e, e.input_cursor)
        above == line_start(e, start - 1)
        col   == e.input_cursor - start
    IN  IF start = 0 THEN e
        ELSE At_(e, out_of_chip(e, Min({above + col, start - 1}), "nearest"))

cursor_down_logical(e) ==
    LET start == line_start(e, e.input_cursor)
        below == line_end(e, e.input_cursor) + 1
        col   == e.input_cursor - start
    IN  IF below > Len(e.input) THEN e
        ELSE At_(e, out_of_chip(e, Min({below + col, line_end(e, below)}), "nearest"))

(* The keys that move the caret, and a click anywhere in the composer. *)
Moves(e) ==
    {cursor_left(e), cursor_right(e), At_(e, line_start(e, e.input_cursor)),
     At_(e, line_end(e, e.input_cursor)), At_(e, word_start_before(e)), At_(e, word_end_after(e)),
     cursor_up_logical(e), cursor_down_logical(e)}
    \cup {At_(e, out_of_chip(e, i, "nearest")) : i \in 0..Len(e.input)}

Edits(e) ==
    {backspace(e), delete_forward(e), delete_word_back(e), kill_to_line_start(e),
     kill_to_line_end(e)}

-----------------------------------------------------------------------------
(* History and search *)

Current(e) == [text |-> e.input, images |-> e.attached_images]

restore(e, p) ==
    [e EXCEPT !.input = p.text, !.attached_images = p.images,
              !.input_cursor = Len(p.text), !.completion = "none"]

history_prev(e) ==
    LET c == IF e.history_cursor = 0 THEN Len(past) ELSE Max({1, e.history_cursor - 1})
        d == IF e.history_cursor = 0 THEN [e EXCEPT !.history_draft = Current(e)] ELSE e
    IN  IF past = <<>> THEN e ELSE restore([d EXCEPT !.history_cursor = c], past[c])

history_next(e) ==
    CASE e.history_cursor = 0 -> e
      [] e.history_cursor \in 1..(Len(past) - 1) ->
           restore([e EXCEPT !.history_cursor = @ + 1], past[e.history_cursor + 1])
      [] OTHER ->
           refresh_completion(restore([e EXCEPT !.history_cursor = 0, !.history_draft = Blank],
                                      e.history_draft))

(* The newest match before an index is put in the composer. *)
history_search_refresh(e, matches, before) ==
    LET older == {i \in matches : i < before}
        found == IF older = {} THEN 0 ELSE Max(older)
        e1    == IF found = 0 THEN e ELSE restore(e, past[found])
    IN  [e1 EXCEPT !.search.matches = matches, !.search.shown = found,
                   !.search.in_composer = IF found = 0 THEN @ ELSE found]

history_search_start(e) ==
    history_search_refresh(
        [e EXCEPT !.search = [NoSearch EXCEPT !.open = TRUE, !.draft = Current(e),
                                              !.walk = e.history_cursor],
                  !.input = <<>>, !.attached_images = {}, !.history_cursor = 0,
                  !.completion = "none", !.input_cursor = 0],
        1..Len(past), Len(past) + 1)

history_search_older(e) ==
    history_search_refresh(e, e.search.matches,
                           IF e.search.shown = 0 THEN Len(past) + 1 ELSE e.search.shown)

Closed(e) == [e EXCEPT !.search = NoSearch]

MutHistorySearchAccept(e) ==
    refresh_completion([Closed(e) EXCEPT !.history_cursor = e.search.in_composer,
                                         !.history_draft = e.search.draft])

history_search_cancel(e) ==
    refresh_completion([restore(Closed(e), e.search.draft) EXCEPT !.history_cursor = e.search.walk])

(* What the search found is kept as a place in history; a walk that was     *)
(* under way keeps its own draft.                                           *)
history_search_accept(e) ==
    IF e.search.in_composer = 0 THEN history_search_cancel(e)
    ELSE refresh_completion(
           [Closed(e) EXCEPT
              !.history_cursor = e.search.in_composer,
              !.history_draft = IF e.search.walk = 0 THEN e.search.draft ELSE @])

-----------------------------------------------------------------------------
(* Submitting *)

trim(text) ==
    LET solid == {i \in 1..Len(text) : ~whitespace(text[i])}
    IN  IF solid = {} THEN <<>> ELSE SubSeq(text, Min(solid), Max(solid))

MutExpandPasted(e, text) == text

(* Every placeholder is replaced by what was pasted. *)
expand_pasted(e, text) ==
    LET starts(k) == {i \in 1..Len(text) : i + 2 <= Len(text) /\ OccursAt(PasteChip(k), text, i - 1)}
        inside(i) == \E k \in 1..e.pasted_blocks : \E s \in starts(k) : i \in s..(s + 2)
        piece(i)  == IF ~inside(i) THEN <<text[i]>>
                     ELSE IF \E k \in 1..e.pasted_blocks : i \in starts(k)
                          THEN <<Block(CHOOSE k \in 1..e.pasted_blocks : i \in starts(k))>>
                          ELSE <<>>
    IN  FlattenSeq([i \in 1..Len(text) |-> piece(i)])

clear_input(e) ==
    [e EXCEPT !.input = <<>>, !.input_cursor = 0, !.pasted_blocks = 0, !.attached_images = {},
              !.completion = "none", !.history_cursor = 0, !.history_draft = Blank]

(* A prompt is remembered unless it repeats the last one. *)
Remembered(e, text) ==
    IF past # <<>> /\ Last(past).text = text THEN past
    ELSE LET longer == Append(past, [text |-> text, images |-> e.attached_images])
         IN  IF Len(longer) > HistoryCap THEN Tail(longer) ELSE longer

-----------------------------------------------------------------------------
(* Keys *)

Idle == UNCHANGED past /\ UNCHANGED spent

Editing == ~ed.search.open

(* An edit takes the user out of history; a key that changes nothing does not. *)
KeepsWriting(e) ==
    /\ ed' = e /\ UNCHANGED past
    /\ mine' = IF e.history_cursor = 0 THEN Current(e) ELSE mine

(* A character typed at the caret. *)
push_char ==
    /\ Editing /\ spent < MaxInput
    /\ \E c \in Keyboard : KeepsWriting(insert_str_at_cursor(ed, <<c>>))
    /\ spent' = spent + 1

EditKey == Editing /\ (\E e \in Edits(ed) : KeepsWriting(e)) /\ UNCHANGED spent

MoveKey == Editing /\ (\E e \in Moves(ed) : ed' = e) /\ UNCHANGED mine /\ Idle

(* paste_str of a long text: a placeholder stands for it. *)
paste_str ==
    /\ Editing /\ spent < MaxInput
    /\ LET e == insert_str_at_cursor(ed, PasteChip(ed.pasted_blocks + 1))
       IN  KeepsWriting([e EXCEPT !.pasted_blocks = @ + 1])
    /\ spent' = spent + 1

Attached(e) ==
    LET k == e.next_image_id + 1
    IN  [insert_str_at_cursor(e, ImageChip(k)) EXCEPT
           !.next_image_id = k, !.attached_images = @ \cup {k}]

(* attach_image, from the clipboard or a pasted path; refused at the cap. *)
attach_image ==
    /\ Editing /\ spent < MaxInput /\ Cardinality(ed.attached_images) < ImageCap
    /\ KeepsWriting(Attached(ed))
    /\ spent' = spent + 1

(* Tab on a menu that still fits the text: a command, a file name, or an    *)
(* image in place of the token.                                             *)
accept_completion ==
    /\ Editing /\ ed.completion # "none"
    /\ LET e     == [ed EXCEPT !.completion = "none"]
           start == trailing_token_start(e.input)
           bare  == [e EXCEPT !.input = SubSeq(@, 1, start), !.input_cursor = start]
           named == [e EXCEPT !.input = SubSeq(@, 1, start) \o <<Letter, Space>>]
       IN  \/ /\ compute_completion(ed.input) # ed.completion
              /\ KeepsWriting(e) /\ UNCHANGED spent
           \/ /\ compute_completion(ed.input) = "slash" /\ ed.completion = "slash"
              /\ KeepsWriting([e EXCEPT !.input = Command, !.input_cursor = Len(Command)])
              /\ UNCHANGED spent
           \/ /\ compute_completion(ed.input) = "file" /\ ed.completion = "file"
              /\ spent < MaxInput
              /\ KeepsWriting([named EXCEPT !.input_cursor = Len(named.input)])
              /\ spent' = spent + 1
           \/ /\ compute_completion(ed.input) = "file" /\ ed.completion = "file"
              /\ spent < MaxInput /\ Cardinality(ed.attached_images) < ImageCap
              /\ KeepsWriting(Attached(bare))
              /\ spent' = spent + 1

HistoryKey ==
    /\ Editing
    /\ ed' \in {history_prev(ed), history_next(ed)}
    /\ UNCHANGED mine /\ Idle

history_search ==
    /\ \/ ~ed.search.open /\ ed' = history_search_start(ed)
       \/ ed.search.open /\ ed' = history_search_older(ed)
       \/ /\ ed.search.open
          /\ \E ms \in SUBSET (1..Len(past)) :      \* the query grows or shrinks
               ed' = history_search_refresh(ed, ms, Len(past) + 1)
       \/ ed.search.open /\ ed' = history_search_accept(ed)
       \/ ed.search.open /\ ed' = history_search_cancel(ed)
    /\ UNCHANGED mine /\ Idle

(* Enter: remembered before it is known whether the prompt can be taken;    *)
(* refused, it stays in the composer.                                       *)
submit_prompt ==
    /\ Editing /\ spent < MaxInput /\ trim(ed.input) # <<>>
    /\ LET sent   == expand_pasted(ed, trim(ed.input))
           longer == Remembered(ed, sent)
           e      == [ed EXCEPT !.completion = "none",
                                !.history_cursor = IF @ = 0 THEN 0 ELSE Len(longer)]
       IN  /\ past' = longer
           /\ \/ ed' = clear_input(e) /\ mine' = Blank
              \/ ed' = e /\ UNCHANGED mine
    /\ spent' = spent + 1

(* Esc closes the menu first, then clears what was written. *)
handle_escape ==
    /\ Editing
    /\ IF ed.completion # "none" THEN ed' = [ed EXCEPT !.completion = "none"] /\ UNCHANGED mine
       ELSE ed.input # <<>> /\ ed' = clear_input(ed) /\ mine' = Blank
    /\ Idle

ComposerNext ==
    \/ push_char \/ EditKey \/ MoveKey \/ paste_str \/ attach_image \/ accept_completion
    \/ HistoryKey \/ history_search \/ submit_prompt \/ handle_escape

-----------------------------------------------------------------------------
(* Properties *)

(* A chip is in the text whole or not at all, and the caret is never inside *)
(* one, whatever keys, clicks and word motions come (out_of_chip, cut_chip).*)
ChipsStayWhole ==
    /\ \A s \in chip_spans(ed) : ~(s[1] < ed.input_cursor /\ ed.input_cursor < s[2])
    /\ Cardinality({i \in 1..Len(ed.input) : ed.input[i] >= 10 /\ ed.input[i] < 600})
         = 2 * Cardinality(chip_spans(ed))

(* The images that would be sent are those whose chips are in the text, and *)
(* every prompt in history has the images its chips stand for and no        *)
(* placeholder of a pasted block (sync_images, expand_pasted, restore).     *)
PromptIsComplete ==
    LET shown(text) == {k \in 1..ed.next_image_id : contains(text, ImageChip(k))}
    IN  /\ ed.attached_images = shown(ed.input)
        /\ \A i \in 1..Len(past) :
             /\ past[i].images = shown(past[i].text)
             /\ \A k \in 1..MaxInput : ~contains(past[i].text, PasteChip(k))

(* Browsing never costs the user what they had written: through walks and   *)
(* searches that interrupt each other, it can still be got back             *)
(* (history_draft, HistorySearch::draft and walk).                          *)
DraftSurvives ==
    mine = IF ed.search.open
           THEN IF ed.search.walk = 0 THEN ed.search.draft ELSE ed.history_draft
           ELSE IF ed.history_cursor = 0 THEN Current(ed) ELSE ed.history_draft
=============================================================================
