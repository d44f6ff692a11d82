------------------------------ MODULE PatchText ------------------------------
(***************************************************************************)
(* apply_patch on text: where "old" is found in a file and what the file   *)
(* becomes.  Three layers look for it, exactly (with the file's own line   *)
(* ends), without indentation, and with typographic punctuation folded;    *)
(* each wants exactly one place.                                           *)
(*                                                                         *)
(* A text is a sequence of the glyphs the layers tell apart: "sp", "tab",  *)
(* "cr", "nl", "q" for a typographic quote and "'" for the plain one, and  *)
(* letters.                                                                *)
(***************************************************************************)
EXTENDS Integers, Sequences, FiniteSets, SequencesExt

CONSTANTS
    TextAlphabets,    \* the pieces texts are made of: one set of glyph sequences for each file
    MaxFile, MaxOld,  \* bounds: pieces of a file, and of what is looked for
    NewTexts          \* replacements

ASSUME PatchAssumption == MaxFile \in Nat /\ MaxOld \in Nat

VARIABLES
    pieces,     \* the alphabet of this file
    contents,   \* the file
    old,        \* what is to be replaced
    size        \* how many pieces each has, file first

patchVars == <<pieces, contents, old, size>>

Missing == << >>
Found(x) == <<x>>

-----------------------------------------------------------------------------
(* Helpers on texts *)

Slice(s, a, b) == SubSeq(s, a, b - 1)      \* from a up to, not including, b
HasGlyph(s, g) == \E k \in DOMAIN s : s[k] = g
Crlf(s) == \E k \in 1 .. Len(s) - 1 : s[k] = "cr" /\ s[k + 1] = "nl"

(* Every line end as the two glyphs. *)
to_crlf(s) ==
    LET lone(k) == s[k] = "nl" /\ ~(k > 1 /\ s[k - 1] = "cr")
    IN  FlattenSeq([k \in DOMAIN s |-> IF lone(k) THEN <<"cr", "nl">> ELSE <<s[k]>>])

(* Every place, overlapping ones too, where the needle occurs. *)
overlapping_matches(hay, needle) ==
    IF needle = << >> THEN {}
    ELSE {k \in 1 .. Len(hay) - Len(needle) + 1 : SubSeq(hay, k, k + Len(needle) - 1) = needle}

Disjoint_matches(hay, needle) ==
    LET all == overlapping_matches(hay, needle)
    IN  {k \in all : \A j \in all : j >= k \/ j + Len(needle) <= k}

The(S) == CHOOSE k \in S : TRUE

LineStart(s, k) == LET S == {j \in 1 .. k - 1 : s[j] = "nl"} IN IF S = {} THEN 1 ELSE 1 + CHOOSE j \in S : \A i \in S : i <= j

Indent == {"sp", "tab"}

(* The indentation the first line of a text opens with. *)
leading_indent(s) == LET S == {k \in DOMAIN s : s[k] \notin Indent}
                     IN  IF S = {} THEN s ELSE SubSeq(s, 1, (CHOOSE k \in S : \A j \in S : k <= j) - 1)

(* The start of the line, if only indentation lies before it. *)
expand_to_line_start(s, k) ==
    IF \A j \in LineStart(s, k) .. k - 1 : s[j] \in Indent THEN LineStart(s, k) ELSE k

(* A match inside the indentation is pulled back when old and new are indented differently. *)
realign_partial_indent(s, k, o, n) ==
    IF leading_indent(o) = << >> \/ leading_indent(o) = leading_indent(n) THEN k ELSE expand_to_line_start(s, k)

(* The glyphs that are left without the indentation of each line, by their places. *)
strip_leading_ws_with_map(s) ==
    LET kept(k) == \E j \in LineStart(s, k) .. k : s[j] \notin Indent
    IN  SelectSeq([k \in DOMAIN s |-> k], kept)

normalize_punct_char(g) == IF g = "q" THEN "'" ELSE g
normalize_punct_with_map(s) == [k \in DOMAIN s |-> normalize_punct_char(s[k])]

At_(s, map) == [i \in DOMAIN map |-> s[map[i]]]

Mutunique_range(s, hay, map, needle) ==
    LET upto(e) == IF e \in DOMAIN map THEN map[e] ELSE Len(s) + 1
        placed(m) == CASE m = {} -> Missing
                       [] Cardinality(m) > 1 -> Found("ambiguous")
                       [] OTHER -> Found(<<map[The(m)], upto(The(m) + Len(needle))>>)
    IN  placed(overlapping_matches(hay, needle))

(* The one range of the original that a normalised needle stands for: it ends  *)
(* one past the last glyph the match consumed, not where the next one starts.  *)
unique_range(s, hay, map, needle) ==
    LET placed(m) == CASE m = {} -> Missing
                       [] Cardinality(m) > 1 -> Found("ambiguous")
                       [] OTHER -> Found(<<map[The(m)], map[The(m) + Len(needle) - 1] + 1>>)
    IN  placed(overlapping_matches(hay, needle))

(* The lines of a text, without their ends. *)
LinesOf(s) ==
    LET ends == {k \in DOMAIN s : s[k] = "nl"}
        nth(i) == CHOOSE k \in ends : Cardinality({j \in ends : j <= k}) = i
        n == Cardinality(ends)
    IN  [i \in 1 .. n + 1 |-> SubSeq(s, IF i = 1 THEN 1 ELSE nth(i - 1) + 1, IF i > n THEN Len(s) ELSE nth(i) - 1)]

JoinLines(ls) == FlattenSeq([i \in DOMAIN ls |-> IF i = 1 THEN ls[i] ELSE <<"nl">> \o ls[i]])

(* new moves from its own base indentation to that of the file. *)
reindent_to_file(n, base) ==
    LET blank(l) == \A k \in DOMAIN l : l[k] \in Indent \cup {"cr"}
        moved(l, own) == IF blank(l) \/ ~IsPrefix(own, l) THEN l ELSE base \o SubSeq(l, Len(own) + 1, Len(l))
        all(ls, own) == IF own = base THEN n ELSE JoinLines([i \in DOMAIN ls |-> moved(ls[i], own)])
    IN  all(LinesOf(n), leading_indent(n))

-----------------------------------------------------------------------------
Located(start, end, kind, new) == Found([start |-> start, end |-> end, kind |-> kind, new |-> new])
NonUnique(kind) == Found([start |-> 0, end |-> 0, kind |-> kind, new |-> << >>])
IsPlace(l) == l # Missing /\ l[1].start > 0

MutExact(s, needle, n) ==
    LET placed(m) == CASE m = {} -> Missing
                       [] Cardinality(m) > 1 -> NonUnique("exact")
                       [] OTHER -> Located(realign_partial_indent(s, The(m), needle, n), The(m) + Len(needle), "exact", n)
    IN  placed(Disjoint_matches(s, needle))

(* One exact layer: the needle as it is, or with the file's line ends. *)
Exact(s, needle, n) ==
    LET placed(m) == CASE m = {} -> Missing
                       [] Cardinality(m) > 1 -> NonUnique("exact")
                       [] OTHER -> Located(realign_partial_indent(s, The(m), needle, n), The(m) + Len(needle), "exact", n)
    IN  placed(overlapping_matches(s, needle))

Indented(s, o, n) ==
    LET located(start, end) ==
            Located(start, end, "indent", reindent_to_file(n, leading_indent(Slice(s, start, end))))
        placed(r) == CASE r = Missing -> Missing
                       [] r = Found("ambiguous") -> NonUnique("indent")
                       [] OTHER -> located(expand_to_line_start(s, r[1][1]), r[1][2])
        under(map) == placed(unique_range(s, At_(s, map), map, At_(o, strip_leading_ws_with_map(o))))
    IN  under(strip_leading_ws_with_map(s))

Folded(s, o, n) ==
    LET placed(r) == CASE r = Missing -> Missing
                       [] r = Found("ambiguous") -> NonUnique("punct")
                       [] OTHER -> Located(r[1][1], r[1][2], "punct", n)
    IN  placed(unique_range(s, normalize_punct_with_map(s), [k \in DOMAIN s |-> k], normalize_punct_with_map(o)))

locate_match(s, o, n) ==
    LET as_crlf == Crlf(s) /\ ~HasGlyph(o, "cr") /\ HasGlyph(o, "nl")
        found(layers) == SelectSeq(layers, LAMBDA l : l # Missing)
        first(ls) == IF ls = << >> THEN Missing ELSE Head(ls)
    IN  first(found(<<Exact(s, o, n), IF as_crlf THEN Exact(s, to_crlf(o), n) ELSE Missing,
                      Indented(s, o, n), Folded(s, o, n)>>))

(* What goes into the file, in its own line ends. *)
Replacement(s, n) == IF Crlf(s) /\ ~HasGlyph(n, "cr") THEN to_crlf(n) ELSE n

(* patch_sync: the file afterwards, or Missing if it is left alone. *)
patch_sync(s, o, n) ==
    LET replaced(l) ==
            IF o = << >> \/ o = n \/ ~IsPlace(l) THEN Missing
            ELSE Found(Slice(s, 1, l[1].start) \o Replacement(s, l[1].new) \o Slice(s, l[1].end, Len(s) + 1))
    IN  replaced(locate_match(s, o, n))

-----------------------------------------------------------------------------
PatchInit == pieces = {} /\ contents = << >> /\ old = << >> /\ size = <<0, 0>>

Open(a) == pieces = {} /\ pieces' = a /\ UNCHANGED <<contents, old, size>>

WriteMore(p) ==
    /\ size[1] < MaxFile /\ size[2] = 0
    /\ contents' = contents \o p /\ size' = <<size[1] + 1, 0>> /\ UNCHANGED <<pieces, old>>

AskMore(p) ==
    /\ size[2] < MaxOld
    /\ old' = old \o p /\ size' = <<size[1], size[2] + 1>> /\ UNCHANGED <<pieces, contents>>

PatchNext == \/ \E a \in TextAlphabets : Open(a)
             \/ \E p \in pieces : WriteMore(p) \/ AskMore(p)

-----------------------------------------------------------------------------
(* Properties *)

(* The text without what a layer is blind to. *)
Seen(kind, s) == CASE kind = "exact" -> s
                   [] kind = "indent" -> At_(s, strip_leading_ws_with_map(s))
                   [] kind = "punct" -> normalize_punct_with_map(s)

(* What a patch replaces is what it was asked for and nothing more: to the    *)
(* layer that found it the region reads as old does, apart from indentation   *)
(* at the start of its first line, and no other place of the file does.       *)
PatchHitsOld ==
    \A l \in UNION {ToSet(locate_match(contents, old, n)) : n \in NewTexts} :
       IsPlace(<<l>>) =>
          \E o \in (IF Crlf(contents) THEN {old, to_crlf(old)} ELSE {old}) :
             \A asked \in {Seen(l.kind, o)}, region \in {Seen(l.kind, Slice(contents, l.start, l.end))} :
                /\ IsSuffix(asked, region)
                /\ \A k \in 1 .. Len(region) - Len(asked) : region[k] \in Indent
                /\ Cardinality(overlapping_matches(Seen(l.kind, contents), asked)) = 1

(* No line the patch does not name loses or gains anything: the text before    *)
(* the line the region starts in is still the beginning of the file, and the   *)
(* text after as many line ends as old has is still its end, the indentation   *)
(* of the next line included.                                                  *)
OtherLinesKept ==
    \A n \in NewTexts :
       \A r \in ToSet(patch_sync(contents, old, n)), l \in ToSet(locate_match(contents, old, n)) :
          LET ends(s) == {k \in DOMAIN s : s[k] = "nl"}
              before == {k \in ends(contents) : k < l.start}
              whole == old # << >> /\ Last(old) = "nl"
              named == Cardinality(before) + Cardinality(ends(old)) + (IF whole THEN 0 ELSE 1)
              after == {k \in DOMAIN contents : Cardinality({j \in ends(contents) : j < k}) >= named}
          IN  /\ IsPrefix(SubSeq(contents, 1, LineStart(contents, l.start) - 1), r)
              /\ IsSuffix(SubSeq(contents, Len(contents) - Cardinality(after) + 1, Len(contents)), r)
=============================================================================
