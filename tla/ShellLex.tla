------------------------------ MODULE ShellLex ------------------------------
(***************************************************************************)
(* The three readers of a command line.  "segments" cuts it blindly, for   *)
(* the rules; parse_unattended reads the subset that runs as argv without  *)
(* a shell; sh_commands reads what sh would run, for the irreversible      *)
(* floor.  They are separate scans of the same text, and the gate is right *)
(* only as far as they agree.                                              *)
(*                                                                         *)
(* A line is a sequence of glyphs: the characters the scans tell apart,    *)
(* "w" for any other, "nb" for white space other than blank, tab and       *)
(* newline, and a glyph for each reserved word that matters.               *)
(***************************************************************************)
EXTENDS Integers, FiniteSets, Sequences, SequencesExt

None == << >>
Some(x) == <<x>>
OrElse(o, x) == IF o = None THEN x ELSE o[1]

(* The glyph at i, or the end of the line. *)
At(s, i) == IF i \in DOMAIN s THEN s[i] ELSE "end"

(* The first place from i on that holds a glyph of G, past the end if none does. *)
Find(s, i, G) == LET S == {k \in i .. Len(s) : s[k] \in G}
                 IN  IF S = {} THEN Len(s) + 1 ELSE CHOOSE k \in S : \A j \in S : k <= j

-----------------------------------------------------------------------------
(* segments *)

Separators == {"nl", ";", "|", "&"}

Blank == {"sp", "nl", "nb"}

MutTrim(s) == SelectSeq(s, LAMBDA c : c \notin Blank)

(* str::trim takes every kind of white space off both ends. *)
Trim(s) == LET in == {k \in DOMAIN s : s[k] \notin Blank}
           IN  IF in = {} THEN << >>
               ELSE SubSeq(s, CHOOSE k \in in : \A j \in in : k <= j, CHOOSE k \in in : \A j \in in : k >= j)

segments(s) ==
    LET cuts == {k \in 0 .. Len(s) + 1 : k \in {0, Len(s) + 1} \/ s[k] \in Separators}
        piece(k) == SubSeq(s, k + 1, (CHOOSE j \in cuts : j > k /\ \A m \in cuts : m > k => j <= m) - 1)
    IN  {Trim(piece(k)) : k \in cuts \ {Len(s) + 1}} \ {<< >>}

-----------------------------------------------------------------------------
(* parse_unattended, under the sh grammar *)

Indirection == {">", "<", "bt", "$", "{", "}", "(", ")", "*"}

(* The scan: where it is, whether it gave up, the word, the words and the    *)
(* commands it has, and whether the next command waits for the last one.     *)
ScanStart == [i |-> 1, ok |-> TRUE, word |-> None, argv |-> << >>, cmds |-> << >>, gate |-> FALSE]

Grow(o, s) == Some(OrElse(o, << >>) \o s)

TakeWord(p) == [p EXCEPT !.word = None, !.argv = IF p.word = None THEN @ ELSE Append(@, p.word[1])]

TakeCommand(p, gate) ==
    [p EXCEPT !.argv = << >>, !.cmds = Append(@, [argv |-> p.argv, gated |-> p.gate]), !.gate = gate]

MutDoubleQuoted(s, i) ==
    LET F[k \in i .. Len(s) + 1] ==
            IF At(s, k) = "end" THEN [ok |-> FALSE, i |-> k, s |-> << >>]
            ELSE IF At(s, k) = "dq" THEN [ok |-> TRUE, i |-> k + 1, s |-> << >>]
            ELSE LET r == F[k + 1] IN [r EXCEPT !.s = <<s[k]>> \o @]
    IN  F[i]

(* The text of a double-quoted run that starts at i. *)
DoubleQuoted(s, i) ==
    LET F[k \in i .. Len(s) + 2] ==
            IF At(s, k) = "end" THEN [ok |-> FALSE, i |-> k, s |-> << >>]
            ELSE IF At(s, k) = "dq" THEN [ok |-> TRUE, i |-> k + 1, s |-> << >>]
            ELSE IF At(s, k) = "bs" /\ At(s, k + 1) = "end" THEN [ok |-> FALSE, i |-> k, s |-> << >>]
            ELSE IF At(s, k) = "bs" /\ At(s, k + 1) = "nl" THEN F[k + 2]
            ELSE IF At(s, k) = "bs" THEN LET r == F[k + 2] IN
                         [r EXCEPT !.s = (IF s[k + 1] \in {"dq", "bs"} THEN <<s[k + 1]>>
                                          ELSE <<"bs", s[k + 1]>>) \o @]
            ELSE LET r == F[k + 1] IN [r EXCEPT !.s = <<s[k]>> \o @]
    IN  F[i]

Fail(p) == [p EXCEPT !.ok = FALSE]

(* One round of the loop. *)
ScanStep(s, p) ==
    LET c == At(s, p.i)
        on(q, n) == [q EXCEPT !.i = p.i + n]
        t == TakeWord(p)
    IN  IF c = "end" \/ ~p.ok THEN p
        ELSE IF c = "bs" THEN IF At(s, p.i + 1) = "end" THEN Fail(p)
                              ELSE IF At(s, p.i + 1) = "nl" THEN on(p, 2)
                              ELSE on([p EXCEPT !.word = Grow(@, <<s[p.i + 1]>>)], 2)
        ELSE IF c = "sq" THEN LET e == Find(s, p.i + 1, {"sq"}) IN
                              IF e > Len(s) THEN Fail(p)
                              ELSE [p EXCEPT !.word = Grow(@, SubSeq(s, p.i + 1, e - 1)), !.i = e + 1]
        ELSE IF c = "dq" THEN LET q == DoubleQuoted(s, p.i + 1) IN
                              IF ~q.ok THEN Fail(p) ELSE [p EXCEPT !.word = Grow(@, q.s), !.i = q.i]
        ELSE IF c = "sp" THEN on(t, 1)
        ELSE IF c \in {"nl", ";"} THEN IF t.argv # << >> THEN on(TakeCommand(t, FALSE), 1)
                                       ELSE IF c = ";" THEN Fail(p)
                                       ELSE on(t, 1)
        ELSE IF c = "&" THEN IF At(s, p.i + 1) # "&" \/ t.argv = << >> THEN Fail(p)
                             ELSE on(TakeCommand(t, TRUE), 2)
        ELSE IF c = "|" THEN Fail(p)
        ELSE IF c = "#" /\ p.word = None THEN [p EXCEPT !.i = Find(s, p.i, {"nl"})]
        ELSE on([p EXCEPT !.word = Grow(@, <<c>>)], 1)

(* A word as a whole: no program word that is empty or holds "=", no word    *)
(* that starts with "~".                                                     *)
RunnableWords(cmds) ==
    \A k \in DOMAIN cmds :
       /\ cmds[k].argv[1] # << >> /\ "=" \notin ToSet(cmds[k].argv[1])
       /\ \A j \in DOMAIN cmds[k].argv : At(cmds[k].argv[j], 1) # "~"

(* The argv of each command and whether it waits for the one before it to   *)
(* succeed, or None.                                                         *)
parse_unattended(s) ==
    LET F[n \in 0 .. Len(s)] == IF n = 0 THEN ScanStart ELSE ScanStep(s, F[n - 1])
        parsed(p, q) == IF \/ ToSet(s) \cap Indirection # {} \/ ~p.ok \/ q.cmds = << >>
                           \/ (p.argv = << >> /\ p.gate) \/ ~RunnableWords(q.cmds)
                        THEN None ELSE Some(q.cmds)
        whole(p) == parsed(p, IF p.argv = << >> THEN p ELSE TakeCommand(p, FALSE))
    IN  whole(TakeWord(F[Len(s)]))

(* The words of a line that is one command. *)
executed_words(s) == LET one(p) == IF p = None \/ Len(OrElse(p, << >>)) # 1 THEN None ELSE Some(p[1][1].argv)
                     IN  one(parse_unattended(s))

-----------------------------------------------------------------------------
(* sh_commands: the lexer's frames *)

Leads == {<<"!">>, <<"{">>, <<"if">>, <<"while">>, <<"do">>}
Closes == {<<"}">>, <<"fi">>, <<"esac">>, <<"done">>}

CommandFrame(closer, arithmetic, discard) ==
    [quote |-> FALSE, closer |-> closer, arithmetic |-> arithmetic, discard |-> discard,
     holds |-> FALSE, undecided |-> FALSE, cases |-> 0, position |-> TRUE, function |-> None,
     argv |-> << >>, word |-> None, quoted |-> FALSE]

QuoteFrame == [CommandFrame("none", FALSE, FALSE) EXCEPT !.quote = TRUE]

ShLexer(bodies) ==
    [i |-> 1, ok |-> TRUE, bodies |-> bodies, frames |-> <<CommandFrame("none", FALSE, FALSE)>>,
     cmds |-> << >>, skipped |-> FALSE, heres |-> << >>, pending |-> << >>, redirect |-> FALSE,
     pipe |-> FALSE, here |-> 0, start |-> 1, compounds |-> << >>, background |-> FALSE,
     fence |-> None, held |-> << >>]

(* The innermost frame that collects words. *)
Inner(L) == LET S == {k \in DOMAIN L.frames : ~L.frames[k].quote} IN CHOOSE k \in S : \A j \in S : j <= k
Frame(L) == L.frames[Inner(L)]
WithFrame(L, f) == [L EXCEPT !.frames[Inner(L)] = f]

Push(L, s) == WithFrame([L EXCEPT !.redirect = FALSE, !.pipe = FALSE],
                        [Frame(L) EXCEPT !.word = Grow(@, s)])
TouchWord(L) == WithFrame([L EXCEPT !.pipe = FALSE], [Frame(L) EXCEPT !.word = Grow(@, << >>)])
QuoteWord(L) == LET T == TouchWord(L) IN WithFrame(T, [Frame(T) EXCEPT !.quoted = TRUE])

LeastOf(a, b) == CASE a = None -> b [] b = None -> a [] OTHER -> Some(IF a[1] <= b[1] THEN a[1] ELSE b[1])

(* A reserved word at the top level opens a compound or closes the last one. *)
CompoundWord(L, w) ==
    LET open(closer, loop) ==
            LET piped == Len(L.cmds) >= L.start
                own == IF loop \/ piped THEN Some(L.start) ELSE None
                around == IF L.compounds = << >> THEN None ELSE Last(L.compounds).cap
            IN  [L EXCEPT !.compounds =
                    Append(@, [closer |-> closer, start |-> L.start, cap |-> LeastOf(own, around)])]
    IN  IF w = <<"{">> THEN open(<<"}">>, FALSE)
        ELSE IF w = <<"if">> THEN open(<<"fi">>, FALSE)
        ELSE IF w = <<"case">> THEN open(<<"esac">>, FALSE)
        ELSE IF w = <<"while">> THEN open(<<"done">>, TRUE)
        ELSE IF w \in Closes /\ L.compounds # << >> /\ Last(L.compounds).closer = w THEN
             [L EXCEPT !.start = Last(L.compounds).start, !.compounds = Front(@)]
        ELSE L

(* The word is complete; whether it was a reserved one decides what may follow. *)
EndWord(L) ==
    LET body(f, w) == w = <<"{">> /\ f.function # None /\ f.function[1] + 2 = Len(f.argv)
        with(f, w, reserved) ==
            [f EXCEPT !.word = None, !.quoted = FALSE, !.argv = Append(@, w),
                !.function = IF reserved /\ w = <<"function">> THEN Some(Len(f.argv)) ELSE @,
                !.position = reserved /\ w \in Leads \cup Closes,
                !.cases = IF reserved /\ w = <<"case">> THEN @ + 1
                          ELSE IF reserved /\ w = <<"esac">> /\ @ > 0 THEN @ - 1
                          ELSE @]
        fed(w) == IF L.here = Len(L.frames) THEN [L EXCEPT !.here = 0, !.heres = Append(@, w)] ELSE L
        plain(M) == [M EXCEPT !.redirect = FALSE]
        compound(M, w, top) == IF top THEN CompoundWord(M, w) ELSE M
        take(f, w, reserved) ==
            compound(WithFrame(plain(fed(w)), with(f, w, reserved)), w, reserved /\ f.closer = "none")
        ended(f) == IF f.word = None THEN plain(L)
                    ELSE take(f, f.word[1], ~f.quoted /\ (f.position \/ body(f, f.word[1])))
    IN  ended(Frame(L))

ClearWords(f) == [f EXCEPT !.argv = << >>, !.position = TRUE, !.function = None]

Cleared(M) == WithFrame(M, ClearWords(Frame(M)))

MutRecord(f, N) ==
    IF f.argv = << >> \/ f.position \/ f.discard \/ f.closer # "none" THEN N
    ELSE [N EXCEPT !.cmds = Append(@, f.argv)]

(* The words of frame f are a command; one that a $(( may yet turn into      *)
(* arithmetic is held.                                                       *)
Record(f, N) ==
    IF f.argv = << >> \/ f.position \/ f.discard THEN N
    ELSE IF f.holds /\ N.held # << >> THEN [N EXCEPT !.held[Len(N.held)].cmds = Append(@, f.argv)]
    ELSE [N EXCEPT !.cmds = Append(@, f.argv)]

(* The command is complete. *)
EndCommand(L) == LET over(M) == Record(Frame(M), Cleared(M)) IN over(EndWord(L))

DropWords(L) == Cleared(EndWord(L))

Background(L) == IF Frame(L).holds /\ L.held # << >> THEN [L EXCEPT !.held[Len(L.held)].background = TRUE]
                 ELSE [L EXCEPT !.background = TRUE]

EndPipeline(L) == LET next(M) == IF Frame(M).closer = "none" THEN [M EXCEPT !.start = Len(M.cmds) + 1] ELSE M
                  IN  next(EndCommand(L))

(* Text is fed to this pipeline: the commands before it were over by then,   *)
(* unless something runs beside them or they may run again.                  *)
MarkFed(L) ==
    LET cap == IF L.compounds = << >> THEN None ELSE Last(L.compounds).cap
    IN  IF L.fence # None THEN L
        ELSE [L EXCEPT !.fence = IF L.background THEN Some(1) ELSE LeastOf(cap, Some(L.start))]

Open(L, closer, arithmetic, discard) ==
    [L EXCEPT !.pipe = FALSE, !.frames = Append(@, CommandFrame(closer, arithmetic, discard))]

OpenGroup(L, arithmetic) ==
    LET f == Frame(L)
        M == Open(L, ")", arithmetic \/ f.arithmetic, f.discard)
    IN  WithFrame(M, [Frame(M) EXCEPT !.holds = f.holds])

(* After "$((": arithmetic or a subshell, which only its end tells. *)
OpenUndecided(L) ==
    LET M == Open(L, ")", TRUE, FALSE)
    IN  WithFrame([M EXCEPT !.held = Append(@, [cmds |-> << >>, background |-> FALSE])],
                  [Frame(M) EXCEPT !.holds = TRUE, !.undecided = TRUE])

Close(L, double) ==
    LET resume(N, f, h) == IF ~f.undecided \/ double THEN N
                           ELSE IF h.background THEN Background([N EXCEPT !.cmds = @ \o h.cmds])
                           ELSE [N EXCEPT !.cmds = @ \o h.cmds]
        leave(M, f) == resume([M EXCEPT !.frames = Front(@), !.held = IF f.undecided THEN Front(@) ELSE @], f, Last(M.held))
        closed(M) == leave(M, Last(M.frames))
    IN  closed(EndPipeline(L))

-----------------------------------------------------------------------------
(* sh_commands: its steps *)

Move(L, i) == [L EXCEPT !.i = i]

DollarParen(L, s, i) ==
    IF At(s, i + 2) = "(" THEN Move(OpenUndecided(Open(L, ")", FALSE, FALSE)), i + 3)
    ELSE Move(Open(L, ")", FALSE, FALSE), i + 2)

(* Inside double quotes: escapes of four glyphs, and the substitutions sh still runs. *)
StepQuoted(s, L) ==
    LET i == L.i
        n == At(s, i + 1)
    IN  IF s[i] = "dq" THEN Move([L EXCEPT !.frames = Front(@)], i + 1)
        ELSE IF s[i] = "bs" THEN IF n = "end" THEN Move(L, i + 1)
                                 ELSE IF n = "nl" THEN Move(L, i + 2)
                                 ELSE IF n \in {"dq", "bs", "$", "bt"} THEN Move(Push(L, <<n>>), i + 2)
                                 ELSE Move(Push(L, <<"bs", n>>), i + 2)
        ELSE IF s[i] = "$" /\ n = "(" THEN DollarParen(L, s, i)
        ELSE IF s[i] = "bt" THEN Move(Open(L, "bt", FALSE, FALSE), i + 1)
        ELSE Move(Push(L, <<s[i]>>), i + 1)

Delimiters == {"sp", "nl", ";", "&", "|", "<", ">", "(", ")"}

(* "<<" and its delimiter, whose body starts after the next newline. *)
HereDoc(s, L, start) ==
    LET F[k \in start .. Len(s) + 2] ==
            IF At(s, k) \in Delimiters \cup {"end"} THEN [ok |-> TRUE, i |-> k, d |-> << >>]
            ELSE IF s[k] \in {"sq", "dq"} THEN
                 LET e == Find(s, k + 1, {s[k]}) IN
                 IF e > Len(s) THEN [ok |-> FALSE, i |-> k, d |-> << >>]
                 ELSE [F[e + 1] EXCEPT !.d = SubSeq(s, k + 1, e - 1) \o @]
            ELSE IF s[k] = "bs" THEN IF At(s, k + 1) = "end" THEN [ok |-> FALSE, i |-> k, d |-> << >>]
                                     ELSE [F[k + 2] EXCEPT !.d = <<s[k + 1]>> \o @]
            ELSE [F[k + 1] EXCEPT !.d = <<s[k]>> \o @]
        first == LET S == {k \in start .. Len(s) + 1 : At(s, k) # "sp"}
                 IN  CHOOSE k \in S : \A j \in S : k <= j
        r == F[first]
    IN  IF ~r.ok \/ r.d = << >> THEN Fail(L)
        ELSE Move([MarkFed(EndWord(L)) EXCEPT !.pending = Append(@, r.d)], r.i)

(* The bodies that are due are stepped over, line by line, or read. *)
AfterNewline(s, L, start) ==
    LET skip[k \in 1 .. Len(L.pending) + 1, i \in start .. Len(s) + 2] ==
            IF k > Len(L.pending) \/ i > Len(s) THEN i
            ELSE LET e == Find(s, i, {"nl"})
                 IN  IF SubSeq(s, i, e - 1) = L.pending[k] THEN skip[k + 1, e + 1] ELSE skip[k, e + 1]
        M == [L EXCEPT !.pending = << >>]
    IN  IF L.pending = << >> THEN Move(L, start)
        ELSE IF L.bodies = "read" THEN Move(M, start)
        ELSE Move([M EXCEPT !.skipped = TRUE],
                  LET e == skip[1, start] IN IF e > Len(s) THEN Len(s) + 1 ELSE e)

EmptyParens(s, i) ==
    LET e == Find(s, i + 1, {")"}) IN e <= Len(s) /\ \A k \in i + 1 .. e - 1 : s[k] = "sp"

(* '...' is literal. *)
QuotedRun(s, L, i) ==
    LET e == Find(s, i + 1, {"sq"})
    IN  IF e > Len(s) THEN Fail(L)
        ELSE IF e = i + 1 THEN Move(QuoteWord(L), e + 1)
        ELSE Move(Push(QuoteWord(L), SubSeq(s, i + 1, e - 1)), e + 1)

(* Where a word, a group or a substitution may begin or end. *)
StepGroup(s, L) ==
    LET i == L.i
        f == Last(L.frames)
    IN  IF s[i] = "bt" /\ f.closer = "bt" THEN Move(Close(L, FALSE), i + 1)
        ELSE IF s[i] = "bt" THEN Move(Open(TouchWord(L), "bt", FALSE, FALSE), i + 1)
        ELSE IF s[i] = "(" /\ At(s, i - 1) = "(" THEN Move(OpenGroup(L, TRUE), i + 1)
        ELSE IF s[i] = "(" /\ ~f.arithmetic /\ f.word # None /\ Last(<<"">> \o f.word[1]) = "=" THEN
             Move(Open(L, ")", FALSE, TRUE), i + 1)
        ELSE IF s[i] = "(" /\ ~f.arithmetic /\ EmptyParens(s, i) THEN
             Move(DropWords(L), Find(s, i + 1, {")"}) + 1)
        ELSE IF s[i] = "(" THEN Move(OpenGroup(EndCommand(L), FALSE), i + 1)
        ELSE LET after(M) == IF f.closer = ")" /\ Frame(M).cases = 0 THEN Close(M, At(s, i + 1) = ")")
                             ELSE EndPipeline(IF Frame(M).cases > 0 THEN DropWords(M) ELSE M)
             IN  Move(after(EndWord(L)), i + 1)

(* One step of the lexer. *)
Step(s, L) ==
    LET i == L.i
        n == At(s, i + 1)
        f == Last(L.frames)
    IN  IF ~L.ok \/ i > Len(s) THEN L
        ELSE IF f.quote THEN StepQuoted(s, L)
        ELSE IF s[i] = "bs" THEN IF n = "end" \/ (n = "bt" /\ f.closer = "bt") THEN Fail(L)
                                 ELSE IF n = "nl" THEN Move(L, i + 2)
                                 ELSE Move(Push(QuoteWord(L), <<n>>), i + 2)
        ELSE IF s[i] = "sq" THEN QuotedRun(s, L, i)
        ELSE IF s[i] = "dq" THEN Move([QuoteWord(L) EXCEPT !.redirect = FALSE, !.frames = Append(@, QuoteFrame)], i + 1)
        ELSE IF s[i] = "$" THEN IF n = "(" THEN DollarParen(TouchWord(L), s, i)
                                ELSE IF n = "sq" THEN LET e == Find(s, i + 2, {"sq"})
                                                          odd == {k \in i + 2 .. e - 1 : \A j \in k .. e - 1 : s[j] = "bs"}
                                                      IN  IF Cardinality(odd) % 2 = 1 THEN Fail(L)
                                                          ELSE QuotedRun(s, L, i + 1)
                                ELSE IF n = "dq" THEN Move(L, i + 1)
                                ELSE Move(Push(L, <<"$">>), i + 1)
        ELSE IF s[i] \in {"bt", "(", ")"} THEN StepGroup(s, L)
        ELSE IF s[i] = "#" /\ f.word = None THEN Move(L, Find(s, i, {"nl"}))
        ELSE IF s[i] = "sp" THEN Move(EndWord(L), i + 1)
        ELSE IF s[i] = "nl" THEN AfterNewline(s, IF L.pipe THEN L ELSE EndPipeline(L), i + 1)
        ELSE IF s[i] \in {"&", "|"} /\ L.redirect THEN Move(Push(L, <<s[i]>>), i + 1)
        ELSE IF s[i] = "|" /\ n # "|" THEN
             Move([EndCommand(L) EXCEPT !.pipe = TRUE], IF n = "&" THEN i + 2 ELSE i + 1)
        ELSE IF s[i] \in {"&", "|"} /\ n = s[i] THEN Move(EndPipeline(L), i + 2)
        ELSE IF s[i] = ";" THEN Move(EndPipeline(L), i + 1)
        ELSE IF s[i] = "&" THEN Move(EndPipeline(IF n = ">" THEN L ELSE Background(L)), i + 1)
        ELSE IF s[i] = "<" /\ n = "<" /\ At(s, i + 2) = "<" THEN
             Move([MarkFed(EndWord(L)) EXCEPT !.here = Len(L.frames)], i + 3)
        ELSE IF s[i] = "<" /\ n = "<" /\ ~f.arithmetic THEN HereDoc(s, L, i + 2)
        ELSE IF s[i] \in {"<", ">"} THEN Move([Push(L, <<s[i]>>) EXCEPT !.redirect = TRUE], i + 1)
        ELSE Move(Push(L, <<s[i]>>), i + 1)

(* The commands of the line as sh splits them, or None for what is not modelled. *)
sh_commands(s, bodies) ==
    LET F[n \in 0 .. Len(s)] == IF n = 0 THEN ShLexer(bodies) ELSE Step(s, F[n - 1])
        read(E) == [commands |-> E.cmds, skipped_heredoc |-> E.skipped, here_strings |-> E.heres,
                    finished_before_heredoc |-> OrElse(E.fence, 1) - 1]
        whole(L) == IF ~L.ok \/ Len(L.frames) # 1 THEN None ELSE Some(read(EndPipeline(L)))
    IN  whole(F[Len(s)])
=============================================================================
