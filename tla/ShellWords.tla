----------------------------- MODULE ShellWords -----------------------------
(***************************************************************************)
(* Lines typed piece by piece, every prefix of them read by the scans of   *)
(* ShellLex and judged by the rules of CommandRules.                       *)
(***************************************************************************)
EXTENDS CommandRules

CONSTANT
    Alphabets    \* what lines are made of, one of these for each line: the pieces, each a
                 \* sequence of glyphs, the bound on how many make a line, and whether they
                 \* are words

ASSUME LexAssumption == \A a \in Alphabets : a.limit \in Nat /\ a.words \in BOOLEAN

VARIABLES
    alphabet,   \* the alphabet of this line
    line,       \* what was typed so far
    left        \* how many pieces may still be typed

lexVars == <<alphabet, line, left>>

-----------------------------------------------------------------------------
LexInit == alphabet \in Alphabets /\ line = << >> /\ left = alphabet.limit

(* One more piece of the line. *)
Type(p) == left > 0 /\ line' = line \o p /\ left' = left - 1 /\ UNCHANGED alphabet

LexNext == \E p \in alphabet.pieces : Type(p)

LexSpec == LexInit /\ [][LexNext]_lexVars

-----------------------------------------------------------------------------
(* Properties *)

Keywords == {"!", "{", "}", "if", "fi", "while", "do", "done", "case", "esac", "function"}

(* A line that runs unattended as argv is the line sh would have run: the    *)
(* floor's lexer reads the same words of the same commands in it, as long as *)
(* no word of it is a reserved one.                                          *)
LexersAgree ==
    ToSet(line) \cap Keywords = {} =>
       \A p \in ToSet(parse_unattended(line)) :
          \E c \in ToSet(sh_commands(line, "skip")) : c.commands = [k \in DOMAIN p |-> p[k].argv]

(* "The words the gate judged are the words that run": the trust rules judge *)
(* each blind segment by itself, and what runs is the parse of the whole     *)
(* line; when every segment is a command the rules can read, each command    *)
(* that runs is one of those.                                                *)
JudgedIsRun ==
    \A p \in ToSet(parse_unattended(line)), judged \in {{executed_words(s) : s \in segments(line)}} :
       None \notin judged => \A k \in DOMAIN p : Some(p[k].argv) \in judged

(* The line as a substitution or a subshell.  Backquotes do not nest. *)
Wrapped(s) ==
    {<<"$", "(">> \o s \o <<")">>, <<"(">> \o s \o <<")">>, <<"dq", "$", "(">> \o s \o <<")", "dq">>}
    \cup IF "bt" \in ToSet(s) THEN {}
         ELSE {<<"bt">> \o s \o <<"bt">>, <<"w", "sp", "dq", "bt">> \o s \o <<"bt", "dq">>}

(* The parentheses outside double quotes match. *)
Balanced(s) ==
    LET plain(c, k) == {j \in 1 .. k : s[j] = c /\ Cardinality({q \in 1 .. j : s[q] = "dq"}) % 2 = 0}
        depth(k) == Cardinality(plain("(", k)) - Cardinality(plain(")", k))
    IN  depth(Len(s)) = 0 /\ \A k \in DOMAIN s : depth(k) >= 0

(* No command hides from the irreversible floor in a substitution: what the  *)
(* lexer reads in a line whose parentheses match it also reads when the line *)
(* stands in $(...), in backquotes or in parentheses, quoted or not, unless  *)
(* it gives up there and the floor falls back to the blind reading.  A line   *)
(* that starts with a parenthesis would make $(( of it, which is arithmetic. *)
SubstitutionIsRead ==
    Balanced(line) /\ At(line, 1) # "(" =>
       \A c \in ToSet(sh_commands(line, "skip")) : \A s \in Wrapped(line) :
          \A d \in ToSet(sh_commands(s, "skip")) : ToSet(c.commands) \subseteq ToSet(d.commands)

-----------------------------------------------------------------------------
(* Properties of lines made of words *)

Words == alphabet.words

(* What sh runs at the top level of a line and the deny floor refuses by     *)
(* itself, it refuses in the line: assignments, prefixes, quoted words,      *)
(* continued lines, braces and chains do not hide it.                        *)
DenyHolds ==
    Words /\ ~Has(line, {"$", "bt"}) =>
       \A c \in ToSet(sh_commands(line, "skip")) :
          (\E k \in DOMAIN c.commands : deny_segment(Joined(c.commands[k]))) => builtin_deny(line)

Handed(s) == {<<"sh", "sp", "-c", "sp", "sq">> \o s \o <<"sq">>, <<"w", "&", "&", "sp">> \o s,
              <<"X", "=", "w", "sp", "env">> \o s, <<"eval", "sp", "sq">> \o s \o <<"sq">>,
              <<"w", "sp", "dq", "$", "(">> \o s \o <<")", "dq">>,
              <<"sh", "sp", "<", "<", "w", "nl">> \o s \o <<"nl", "w">>}

(* An irreversible command cannot be handed past its floor: a line on it     *)
(* stays on it inside sh -c, eval, a here-document for sh, a substitution, a *)
(* chain or behind an assignment and a prefix.                               *)
OutwardStaysOutward ==
    Words /\ ~Has(line, {"sq", "dq"}) /\ irreversible_outward(line) =>
       \A s \in Handed(line) : irreversible_outward(s)

(* A line the rules trust runs as written and stays where it is: each argv   *)
(* that runs begins with a trusted rule, and no operand of it leaves the     *)
(* working directory.                                                        *)
TrustedIsCovered ==
    Words /\ trusted(TrustedRules, line) =>
       \E p \in ToSet(parse_unattended(line)) : \A k \in DOMAIN p :
          /\ \E rule \in TrustedRules : IsPrefix(rule, p[k].argv)
          /\ operands_outside_cwd(p[k].argv) = {}
          /\ \A w \in option_tokens(p[k].argv) : ~redirects_execution(w)

=============================================================================
