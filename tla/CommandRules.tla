---------------------------- MODULE CommandRules ----------------------------
(***************************************************************************)
(* What the gate decides from the text of a command line alone: the deny   *)
(* floor, the floor of irreversible outward commands, the trust rules and  *)
(* the identity a session consent is recorded under.                       *)
(*                                                                         *)
(* A word is a sequence of the glyphs of ShellLex.  A glyph may be a whole *)
(* word here ("git", "--force", ".."), so a line is read by the same scans *)
(* as in ShellLex, and a quoted script is a word with blanks in it.        *)
(***************************************************************************)
EXTENDS ShellLex

CONSTANTS
    SCRIPT_NESTING,       \* how deep scripts inside scripts are read
    MAX_BRACE_WORDS,      \* how many words one braced word may expand to
    TrustedRules,         \* trusted_shell_prefixes, each a sequence of words
    AllowIrreversible     \* allow_irreversible, each a sequence of words

ASSUME RulesAssumption == SCRIPT_NESTING \in Nat /\ MAX_BRACE_WORDS \in Nat \ {0}

Has(w, G) == ToSet(w) \cap G # {}
Without(w, G) == SelectSeq(w, LAMBDA c : c \notin G)
Word(c) == <<c>>
WordAt(ws, k) == IF k \in DOMAIN ws THEN ws[k] ELSE << >>

(* The pieces of s between the glyphs of G. *)
Pieces(s, G) ==
    LET F[k \in 1 .. Len(s) + 1] ==
            IF k > Len(s) THEN <<<< >>>>
            ELSE IF s[k] \in G THEN <<<< >>>> \o F[k + 1]
            ELSE LET r == F[k + 1] IN <<<<s[k]>> \o Head(r)>> \o Tail(r)
    IN  F[1]

Nonempty(ss) == SelectSeq(ss, LAMBDA w : w # << >>)

-----------------------------------------------------------------------------
(* Words *)

Dashed == {"--", "-r", "-f", "-rf", "-c", "-o", "-C", "-x", "-exec", "--force", "--mirror", "--delete",
           "--dry-run", "-m", "--output", "--config", "--logfile"}
Flag(w) == w # << >> /\ w[1] \in Dashed

PREFIX_WORDS == {"if", "then", "else", "while", "do", "case", "!", "env", "time", "xargs", "timeout"}
SHELLS == {"sh", "bash"}
INTERPRETERS == SHELLS \cup {"eval", "source", "python", "perl"}

clean_token(w) == Without(w, {"sq", "dq", "bs"})

(* The last component of a path. *)
basename_lower(w) == Last(Pieces(clean_token(w), {"/"}))

is_env_assignment(w) == Len(w) >= 2 /\ w[1] \in {"w", "X"} /\ w[2] = "="

(* The program word, past assignments and words that run what follows, and  *)
(* its arguments.                                                            *)
words_of(tokens) ==
    LET bare(w) == LET in == {k \in DOMAIN w : w[k] \notin {"(", "{"}}
                       from == IF in = {} THEN Len(w) + 1 ELSE CHOOSE k \in in : \A j \in in : k <= j
                       to == {k \in DOMAIN w : w[k] # ")"}
                   IN  IF to = {} THEN << >> ELSE SubSeq(w, from, CHOOSE k \in to : \A j \in to : k >= j)
        program(k) == basename_lower(bare(tokens[k]))
        passed(k) == \/ is_env_assignment(tokens[k]) \/ bare(tokens[k]) = << >>
                     \/ program(k) \in {Word(p) : p \in PREFIX_WORDS}
        S == {k \in DOMAIN tokens : ~passed(k)}
        at == CHOOSE k \in S : \A j \in S : k <= j
    IN  IF S = {} THEN None
        ELSE Some([program |-> program(at), args |-> SubSeq(tokens, at + 1, Len(tokens))])

segment_words(seg) ==
    LET cleaned(ts) == [k \in DOMAIN ts |-> clean_token(ts[k])] IN words_of(cleaned(Nonempty(Pieces(seg, Blank))))

escapes_cwd_by_spelling(w) == w # << >> /\ (w[1] \in {"/", "~"} \/ Has(w, {".."}))

(* A flag leaves the directory by the value after its "=" or glued to it. *)
operand_leaves_cwd(w) ==
    IF ~Flag(w) THEN escapes_cwd_by_spelling(w)
    ELSE LET e == Find(w, 1, {"="})
             name == SubSeq(w, 1, e - 1)
         IN  IF e <= Len(w) /\ ~Has(name, {"/", "~"}) THEN escapes_cwd_by_spelling(SubSeq(w, e + 1, Len(w)))
             ELSE w[1] \in {"-c", "-o", "-C", "-x", "-f"} /\ (Has(w, {"/", "~"}) \/ Last(w) = "..")

(* A "\"-newline joins two lines; an escaped backslash before it does not. *)
joined_continuations(s) ==
    LET F[k \in 1 .. Len(s) + 2] ==
            IF k > Len(s) THEN << >>
            ELSE IF s[k] # "bs" THEN <<s[k]>> \o F[k + 1]
            ELSE IF At(s, k + 1) = "nl" THEN F[k + 2]
            ELSE IF At(s, k + 1) = "end" THEN <<"bs">>
            ELSE <<"bs", s[k + 1]>> \o F[k + 2]
    IN  IF \E k \in 1 .. Len(s) - 1 : s[k] = "bs" /\ s[k + 1] = "nl" THEN Some(F[1]) ELSE None

-----------------------------------------------------------------------------
(* Brace expansion *)

Digit == <<"0", "1", "2", "3">>
IsDigit(c) == c \in ToSet(Digit)
ValueOf(c) == CHOOSE k \in DOMAIN Digit : Digit[k] = c

(* {1..3} counts up or down. *)
range_alternatives(body) ==
    IF Len(body) # 3 \/ At(body, 2) # ".." \/ ~IsDigit(At(body, 1)) \/ ~IsDigit(At(body, 3)) THEN None
    ELSE LET a == ValueOf(body[1])
             b == ValueOf(body[3])
         IN  Some(IF a <= b THEN [k \in 1 .. b - a + 1 |-> Word(Digit[a + k - 1])]
                  ELSE [k \in 1 .. a - b + 1 |-> Word(Digit[a - k + 1])])

(* The stack of open braces, and the group found so far with the leftmost    *)
(* start: one with a comma of its own, or a range.                           *)
BraceScan(w) ==
    LET F[k \in 0 .. Len(w)] ==
            IF k = 0 THEN [stack |-> << >>, best |-> None, quote |-> None]
            ELSE LET st == F[k - 1]
                     f == Last(st.stack)
                     pop == [st EXCEPT !.stack = Front(@)]
                 IN  IF st.quote # None THEN IF w[k] = st.quote[1] THEN [st EXCEPT !.quote = None] ELSE st
                     ELSE IF w[k] \in {"sq", "dq"} THEN [st EXCEPT !.quote = Some(w[k])]
                     ELSE IF w[k] = "{" THEN
                          [st EXCEPT !.stack = [j \in DOMAIN @ |-> IF j = Len(@) THEN [@[j] EXCEPT !.nested = TRUE] ELSE @[j]]
                                               \o <<[open |-> k, commas |-> << >>, nested |-> FALSE]>>]
                     ELSE IF w[k] = "," /\ st.stack # << >> THEN [st EXCEPT !.stack[Len(st.stack)].commas = Append(@, k)]
                     ELSE IF w[k] = "}" /\ st.stack # << >> THEN
                          IF st.best # None /\ OrElse(st.best, [open |-> 0]).open < f.open THEN pop
                          ELSE IF f.commas # << >>
                                  \/ (~f.nested /\ range_alternatives(SubSeq(w, f.open + 1, k - 1)) # None)
                               THEN [pop EXCEPT !.best = Some([open |-> f.open, close |-> k, commas |-> f.commas])]
                               ELSE pop
                     ELSE st
    IN  F[Len(w)].best

build_alternatives(w, g) ==
    LET at == <<g.open>> \o g.commas \o <<g.close>>
    IN  IF g.commas = << >> THEN OrElse(range_alternatives(SubSeq(w, g.open + 1, g.close - 1)), << >>)
        ELSE [k \in 1 .. Len(at) - 1 |-> SubSeq(w, at[k] + 1, at[k + 1] - 1)]

(* The words that replacing one group by each of its alternatives gives. *)
split_first_brace_group(w) ==
    LET around(g, alts) == [k \in DOMAIN alts |-> SubSeq(w, 1, g.open - 1) \o alts[k] \o SubSeq(w, g.close + 1, Len(w))]
        split(b) == IF b = None THEN None ELSE Some(around(b[1], build_alternatives(w, b[1])))
    IN  split(BraceScan(w))

first_expansion(w) ==
    LET first(v, g) == IF g = None THEN v ELSE g[1][1]
        F[n \in 0 .. MAX_BRACE_WORDS] ==
            IF n = 0 THEN w ELSE first(F[n - 1], split_first_brace_group(F[n - 1]))
    IN  F[MAX_BRACE_WORDS]

(* A braced word stands for the words it expands to, or for its first        *)
(* expansion when they are too many.                                         *)
expand_word(w) ==
    LET F[n \in 0 .. MAX_BRACE_WORDS, ws \in Seq(Seq(STRING))] ==
            LET more(k, g) == SubSeq(ws, 1, k - 1) \o g[1] \o SubSeq(ws, k + 1, Len(ws))
                first(S) == CHOOSE k \in S : \A j \in S : k <= j
                next(groups) ==
                    LET S == {k \in DOMAIN ws : groups[k] # None}
                    IN  IF Len(ws) <= MAX_BRACE_WORDS /\ S = {} THEN ws
                        ELSE IF Len(ws) <= MAX_BRACE_WORDS /\ n > 0 THEN F[n - 1, more(first(S), groups[first(S)])]
                        ELSE <<first_expansion(w)>>
            IN  next([k \in DOMAIN ws |-> split_first_brace_group(ws[k])])
    IN  IF Has(w, {"{"}) THEN F[MAX_BRACE_WORDS, <<w>>] ELSE <<w>>

Ends == Blank \cup Separators \cup {"(", ")"}

brace_expanded_line(s) ==
    LET joined(ws) == FoldLeft(LAMBDA acc, v : IF acc = << >> THEN v ELSE acc \o <<"sp">> \o v, << >>, ws)
        F[k \in 1 .. Len(s) + 1] ==
            IF k > Len(s) THEN << >>
            ELSE IF s[k] \in Ends THEN <<s[k]>> \o F[k + 1]
            ELSE LET e == Find(s, k, Ends) IN joined(expand_word(SubSeq(s, k, e - 1))) \o F[e]
    IN  F[1]

(* The line as written, joined, and each of those with its braces expanded. *)
readings_of(s) ==
    LET seeds == {s} \cup ToSet(joined_continuations(s))
    IN  seeds \cup {brace_expanded_line(r) : r \in {r \in seeds : Has(r, {"{"})}}

-----------------------------------------------------------------------------
(* The deny floor *)

Bundles == [r |-> {"-r", "-rf"}, f |-> {"-f", "-rf", "--force"}]
has_flag(args, letter) == \E k \in DOMAIN args : args[k] # << >> /\ args[k][1] \in Bundles[letter]

names_root_or_home(w) == w \in {<<"/">>, <<"/", "*">>, <<"~">>, <<"~", "/">>}

(* One rule for each program: what it is refused for. *)
deny_segment(seg) ==
    \/ Has(seg, {":(){"})
    \/ \E s \in ToSet(segment_words(seg)) :
           LET p == s.program
               args == s.args
               some(G) == \E k \in DOMAIN args : Has(args[k], G)
           IN \/ p \in {<<"sudo">>, <<"mkfs">>, <<"takeown">>}
              \/ p = <<"rm">> /\ has_flag(args, "r")
                   /\ (has_flag(args, "f") \/ \E k \in DOMAIN args : names_root_or_home(args[k]))
              \/ p = <<"dd">> /\ some({"of=/dev"})
              \/ p = <<"chmod">> /\ some({"777"})
              \/ p = <<"reg">> /\ args # << >> /\ args[1] = <<"delete">>

program_of(seg) == LET named(s) == IF s = None THEN << >> ELSE s[1].program IN named(segment_words(seg))

(* In one pipeline, something fetched reaches an interpreter. *)
fetch_piped_into_shell(branch) ==
    LET trimmed(ps) == Nonempty([j \in DOMAIN ps |-> Trim(ps[j])])
        fetches(segs) == segs # << >> /\ program_of(Last(segs)) \in {<<"curl">>, <<"wget">>}
        shell(segs) == segs # << >> /\ program_of(Head(segs)) \in {Word(p) : p \in INTERPRETERS}
        fed(parts) == \E i, j \in DOMAIN parts : i < j /\ fetches(trimmed(Pieces(parts[i], Separators)))
                                               /\ shell(trimmed(Pieces(parts[j], Separators)))
    IN  fed(Pieces(branch, {"|"}))

(* A pipeline ends at "||". *)
deny_pipe_to_shell(s) ==
    LET F[k \in 1 .. Len(s) + 1] ==
            IF k > Len(s) THEN << >>
            ELSE IF s[k] = "|" /\ At(s, k + 1) = "|" THEN <<"or">> \o (IF k + 2 > Len(s) THEN << >> ELSE F[k + 2])
            ELSE <<s[k]>> \o F[k + 1]
    IN  \E branch \in ToSet(Pieces(F[1], {"or"})) : fetch_piped_into_shell(branch)

deny_line(s) == deny_pipe_to_shell(s) \/ \E seg \in segments(s) : deny_segment(seg)

Mutbuiltin_deny(s) == deny_line(s)

builtin_deny(s) == \E r \in readings_of(s) : deny_line(r)

(* A command that edits files in the working directory and nothing else. *)
is_workspace_fs_edit(s) ==
    LET edits(argv, args) ==
            /\ ~Has(argv[1], {"/"})
            /\ basename_lower(argv[1]) \in {<<"mkdir">>, <<"mv">>, <<"rm">>}
            /\ \A j \in DOMAIN args : ~operand_leaves_cwd(args[j])
            /\ basename_lower(argv[1]) = <<"rm">> => ~has_flag(args, "r")
    IN  \E cmds \in ToSet(parse_unattended(s)) : \A k \in DOMAIN cmds : edits(cmds[k].argv, Tail(cmds[k].argv))

-----------------------------------------------------------------------------
(* The floor of irreversible outward commands: how a line is read *)

blind_commands(s) ==
    UNION {ToSet(segment_words(seg)) : seg \in UNION {segments(t) : t \in {s} \cup ToSet(joined_continuations(s))}}

HEREDOC_DATA_SINKS == {<<"cat">>, <<"git">>, <<"echo">>, <<"}">>, <<"fi">>}
RUNS_LATER == {<<"trap">>}

(* Something on the line may run the text it is fed. *)
runs_what_it_is_fed(read) ==
    /\ read.skipped_heredoc \/ read.here_strings # << >>
    /\ \E k \in DOMAIN read.commands :
         LET may(ws) ==
                 /\ k > read.finished_before_heredoc \/ (ws # None /\ OrElse(ws, [program |-> << >>]).program \in RUNS_LATER)
                 /\ IF ws # None THEN ws[1].program \notin HEREDOC_DATA_SINKS
                    ELSE \E j \in DOMAIN read.commands[k] : ~is_env_assignment(read.commands[k][j])
         IN  may(words_of(read.commands[k]))

(* The commands of one line, and the texts that are fed to what may run them. *)
line_commands(s) ==
    LET programs(cmds) == UNION {ToSet(words_of(cmds[k])) : k \in DOMAIN cmds}
        with(r) == [commands |-> programs(r.commands), fed |-> ToSet(r.here_strings)]
        judged(read, reread) ==
            IF read = None THEN [commands |-> blind_commands(s), fed |-> {}]
            ELSE IF ~runs_what_it_is_fed(read[1]) THEN [commands |-> programs(read[1].commands), fed |-> {}]
            ELSE IF ~read[1].skipped_heredoc THEN with(read[1])
            ELSE IF reread # None THEN with(reread[1])
            ELSE [commands |-> programs(read[1].commands) \cup blind_commands(s),
                  fed |-> ToSet(read[1].here_strings)]
        both(r) == judged(r["skip"], r["read"])
    IN  both([bodies \in {"skip", "read"} |-> sh_commands(s, bodies)])

trap_action(args) ==
    LET a == IF args # << >> /\ args[1] = <<"--">> THEN Tail(args) ELSE args
    IN  IF a = << >> \/ (args[1] # <<"--">> /\ Flag(a[1])) THEN {} ELSE {a[1]}

Joined(ws) == FoldLeft(LAMBDA acc, v : IF acc = << >> THEN v ELSE acc \o <<"sp">> \o v, << >>, ws)
Operands(ws) == {ws[k] : k \in {j \in DOMAIN ws : ~Flag(ws[j])}}

Mutscripts_handed_to_a_shell(c) == {}

(* The words of a command that a shell will read as lines: what eval, trap,  *)
(* ssh and "sh -c" are given, the shell itself being an argument or not.     *)
scripts_handed_to_a_shell(c) ==
    LET hands(w) == basename_lower(w) \in {Word(p) : p \in SHELLS \cup {"ssh"}}
        S == {k \in DOMAIN c.args : hands(c.args[k])}
        at == CHOOSE k \in S : \A j \in S : k <= j
        own == hands(c.program)
        shell == IF own THEN c.program ELSE basename_lower(c.args[at])
        rest == IF own THEN c.args ELSE SubSeq(c.args, at + 1, Len(c.args))
        flags == {k \in DOMAIN rest : rest[k] = <<"-c">>}
        flag == CHOOSE k \in flags : \A j \in flags : k <= j
    IN  IF c.program = <<"eval">> THEN {Joined(c.args)}
        ELSE IF c.program = <<"trap">> THEN trap_action(c.args)
        ELSE IF ~own /\ S = {} THEN {}
        ELSE IF shell = <<"ssh">> THEN Operands(rest)
        ELSE IF flags = {} THEN {}
        ELSE Operands(SubSeq(rest, flag + 1, Len(rest)))

(* Every command the line runs, in scripts within scripts to a fixed depth. *)
irreversible_floor_commands(s) ==
    LET F[n \in 0 .. SCRIPT_NESTING, t \in Seq(STRING)] ==
            LET inner(l) == l.fed \cup UNION {scripts_handed_to_a_shell(c) : c \in l.commands}
                all(l) == l.commands \cup IF n = 0 THEN {} ELSE UNION {F[n - 1, u] : u \in inner(l)}
            IN  all(line_commands(t))
    IN  F[SCRIPT_NESTING, s]

-----------------------------------------------------------------------------
(* The floor of irreversible outward commands: what is on it *)

options_taking_a_value(p) == IF p = <<"git">> THEN {<<"-o">>}
                             ELSE IF p \in {<<"npm">>, <<"yarn">>} THEN {<<"-C">>}
                             ELSE {}

(* A --dry-run that is not the value of the option before it. *)
is_dry_run(c) ==
    \E k \in DOMAIN c.args :
       /\ c.args[k] = <<"--dry-run">>
       /\ k = 1 \/ WordAt(c.args, k - 1) \notin options_taking_a_value(c.program)

(* The place of the subcommand, past the options and their values; 0 if none. *)
subcommand_at(c) ==
    LET valued == IF c.program = <<"git">> THEN {<<"-C">>, <<"-c">>} ELSE options_taking_a_value(c.program)
        F[k \in 1 .. Len(c.args) + 2] ==
            IF k > Len(c.args) THEN 0
            ELSE IF c.args[k] = <<"--">> /\ c.program # <<"git">> THEN IF k < Len(c.args) THEN k + 1 ELSE 0
            ELSE IF c.args[k] \in valued THEN F[k + 2]
            ELSE IF Flag(c.args[k]) THEN F[k + 1]
            ELSE k
    IN  F[1]

syncs_into_s3(ws) ==
    LET ops == SelectSeq(ws, LAMBDA w : ~Flag(w))
    IN  Len(ops) < 2 \/ \E k \in 2 .. Len(ops) : Has(ops[k], {"s3://"})

ForcesPush(w) == w \in {<<"--force">>, <<"--mirror">>, <<"--delete">>, <<"-f">>} \/ (Len(w) > 1 /\ w[1] \in {"+", ":"})

Outward == {<<<<"npm">>, <<"publish">>>>, <<<<"yarn">>, <<"publish">>>>, <<<<"cargo">>, <<"publish">>>>,
            <<<<"gh">>, <<"pr">>, <<"merge">>>>, <<<<"gh">>, <<"release">>, <<"create">>>>,
            <<<<"terraform">>, <<"apply">>>>, <<<<"kubectl">>, <<"delete">>>>, <<<<"docker">>, <<"push">>>>,
            <<<<"yarn">>, <<"npm">>, <<"publish">>>>, <<<<"aws">>, <<"s3">>, <<"rm">>>>}

(* The class of irreversible command this is, or None. *)
irreversible_outward_words(c) ==
    LET at == subcommand_at(c)
        rest == SubSeq(c.args, at + 1, Len(c.args))
        forced == {k \in DOMAIN rest : ForcesPush(rest[k])}
        classes == {o \in Outward : IsPrefix(o, <<c.program>> \o SubSeq(c.args, at, Len(c.args)))}
    IN  IF is_dry_run(c) \/ at = 0 THEN None
        ELSE IF c.program = <<"git">> THEN
             IF c.args[at] # <<"push">> \/ forced = {} THEN None
             ELSE Some(<<c.program, <<"push">>, rest[CHOOSE k \in forced : \A j \in forced : k <= j]>>)
        ELSE IF c.program = <<"aws">> /\ c.args[at] = <<"s3">> /\ WordAt(c.args, at + 1) = <<"sync">> THEN
             IF <<"--delete">> \in ToSet(c.args) /\ syncs_into_s3(Tail(rest))
             THEN Some(<<c.program, <<"s3">>, <<"sync">>>>) ELSE None
        ELSE IF classes = {} THEN None ELSE Some(CHOOSE o \in classes : TRUE)

(* The words of "needle" occur in "hay" in this order. *)
words_in_order(needle, hay) ==
    \E f \in [DOMAIN needle -> DOMAIN hay] :
       /\ \A i \in DOMAIN needle : hay[f[i]] = needle[i]
       /\ \A i, j \in DOMAIN needle : i < j => f[i] < f[j]

irreversible_allowed(c, matched) ==
    \E e \in AllowIrreversible :
       e # << >> /\ (words_in_order(e, matched) \/ (e[1] = c.program /\ words_in_order(Tail(e), c.args)))

irreversible_outward(s) ==
    \E c \in irreversible_floor_commands(s) :
       \E m \in ToSet(irreversible_outward_words(c)) : ~irreversible_allowed(c, m)

-----------------------------------------------------------------------------
(* Trust rules and consent identities *)

Depth(program, sub) == IF program \in {<<"git">>, <<"cargo">>} THEN 2
                       ELSE IF program = <<"npm">> THEN IF sub = <<"run">> THEN 3 ELSE 2
                       ELSE IF program \in {<<"gh">>, <<"aws">>} THEN 3
                       ELSE 1

flag_name(w) == SubSeq(clean_token(w), 1, Find(clean_token(w), 1, {"="}) - 1)

redirects_execution(w) == flag_name(w) \in {<<"--output">>, <<"--config">>, <<"-exec">>}
harness_writes_a_path(w) == flag_name(w) = <<"--logfile">>

DashDash(ws) == LET S == {k \in DOMAIN ws : ws[k] = <<"--">>} IN IF S = {} THEN Len(ws) + 1 ELSE CHOOSE k \in S : \A j \in S : k <= j
option_tokens(ws) == ToSet(SubSeq(ws, 1, DashDash(ws) - 1))
trailing_tokens(ws) == ToSet(SubSeq(ws, DashDash(ws) + 1, Len(ws)))

runs_the_rest_of_the_line(p) == p \in {Word(q) : q \in PREFIX_WORDS \cup INTERPRETERS}

(* The words a consent or a rule is about: the program and its subcommands,  *)
(* or all of them when an option decides what runs.                          *)
identity(ws) ==
    LET opts == option_tokens(Tail(ws))
        F[k \in 1 .. Len(ws)] ==
            IF k >= Depth(ws[1], IF k > 1 THEN ws[2] ELSE << >>) \/ k = Len(ws) THEN SubSeq(ws, 1, k)
            ELSE IF Flag(ws[k + 1]) THEN ws
            ELSE F[k + 1]
    IN  IF ws = << >> \/ Flag(ws[1]) THEN << >>
        ELSE IF ws[1] = <<"python">> /\ WordAt(ws, 2) = <<"-m">> /\ Len(ws) > 2 THEN SubSeq(ws, 1, 3)
        ELSE IF \/ runs_the_rest_of_the_line(basename_lower(ws[1]))
                \/ \E w \in opts : redirects_execution(w)
                \/ \E w \in trailing_tokens(Tail(ws)) : harness_writes_a_path(w) THEN ws
        ELSE F[1]

operands_outside_cwd(ws) == {w \in ToSet(Tail(ws)) : operand_leaves_cwd(w)}

Mutrule_covers(rule, s) ==
    LET ws == Nonempty(Pieces(s, Blank)) IN IsPrefix(rule, ws)

rule_covers(rule, s) ==
    LET spelled(w) == flag_name(w) \in {flag_name(v) : v \in ToSet(rule)}
    IN  /\ rule # << >>
        /\ \E ws \in ToSet(executed_words(s)) :
              /\ \A w \in option_tokens(ws) : redirects_execution(w) => spelled(w)
              /\ \A w \in trailing_tokens(ws) : harness_writes_a_path(w) => spelled(w)
              /\ \A w \in operands_outside_cwd(ws) : clean_token(w) \in {clean_token(v) : v \in ToSet(rule)}
              /\ identity(ws) = rule \/ IsPrefix(rule, Nonempty(Pieces(s, Blank)))

(* The identity a session consent is recorded under, or None. *)
session_identity(s) ==
    LET named(ws, id) == IF operands_outside_cwd(ws) # {} \/ id = << >> THEN None ELSE Some(id)
        of(t, e) == IF segments(t) # {t} \/ e = None THEN None ELSE named(e[1], identity(e[1]))
    IN  of(Trim(s), executed_words(Trim(s)))

(* A policy's trust in a whole line: every segment of it is under a rule. *)
trusted(rules, s) ==
    /\ parse_unattended(s) # None
    /\ \A seg \in segments(s) : \E rule \in rules : rule_covers(rule, seg)
=============================================================================
