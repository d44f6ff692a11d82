--------------------------- MODULE PromptHistory ---------------------------
(***************************************************************************)
(* The prompts a workspace remembers across restarts: one file of lines    *)
(* that several instances append to, one of which may have died in the     *)
(* middle of a line, and which a launch repairs and trims.                 *)
(* (prompt_history.rs)                                                     *)
(***************************************************************************)
EXTENDS Naturals, Sequences, FiniteSets, SequencesExt

CONSTANTS
    Instance,           \* instances open on one workspace
    Cap,                \* how many prompts are kept
    MaxTyped            \* bound: prompts entered

ASSUME PromptHistoryAssumption == Cap \in Nat \ {0} /\ MaxTyped \in Nat

VARIABLES
    lines,              \* the file: what each write left of a line
    instance,           \* per instance: what its launch read, and where it stands
    typed,              \* prompts entered, numbered in the order of their writes
    settled,            \* history: prompts written whole, on a line of their own, that no launch took back
    aged                \* history: prompts trimmed away for newer ones

historyVars == <<lines, instance, typed, settled, aged>>

Whole(n) == [prompt |-> n, whole |-> TRUE]
Torn(n)  == [prompt |-> n, whole |-> FALSE]     \* without its end of line
Padding  == Torn(0)                             \* what set_len fills with

NotOpen == [pc |-> "closed", raw |-> <<>>, prompts |-> <<>>, upto |-> 0]

HistoryInit ==
    /\ lines = <<>>
    /\ instance = [i \in Instance |-> NotOpen]
    /\ typed = 0 /\ settled = {} /\ aged = {}

(***************************************************************************)
(* Reading.                                                                *)
(***************************************************************************)

(* A line is a record only if one write made it: a record glued to a torn  *)
(* one cannot be parsed.                                                   *)
Parses(f, i) == f[i].whole /\ (i = 1 \/ f[i - 1].whole)

Prompts(f) ==
    LET at == SelectSeq([i \in DOMAIN f |-> i], LAMBDA i : Parses(f, i))
    IN [k \in DOMAIN at |-> f[at[k]].prompt]

MutNewest(f) == Reverse(SubSeq(Reverse(Prompts(f)), 1,
                               IF Len(Prompts(f)) < Cap + 1 THEN Len(Prompts(f)) ELSE Cap + 1))

(* The last Cap prompts, oldest first. *)
Newest(f) ==
    LET all == Prompts(f)
    IN SubSeq(all, IF Len(all) > Cap THEN Len(all) - Cap + 1 ELSE 1, Len(all))

Lines(f) == Cardinality({i \in DOMAIN f : f[i].whole})

MutTornTailStart(f) == Len(f)

(* Where the last complete line ends. *)
torn_tail_start(f) ==
    IF \E i \in DOMAIN f : f[i].whole
    THEN CHOOSE i \in DOMAIN f : f[i].whole /\ \A j \in (i + 1)..Len(f) : ~f[j].whole
    ELSE 0

AfterRead(raw) == IF Lines(raw) > 2 * Cap THEN "trim" ELSE "open"

Becomes(i, s) == instance' = [instance EXCEPT ![i] = s]

load(i) ==
    LET keep == torn_tail_start(lines)
        raw  == SubSeq(lines, 1, keep)
    IN /\ instance[i].pc = "closed"
       /\ Becomes(i, [pc |-> IF keep < Len(lines) THEN "cut" ELSE AfterRead(raw),
                      raw |-> raw, prompts |-> Newest(raw), upto |-> typed])
       /\ UNCHANGED <<lines, typed, settled, aged>>

(***************************************************************************)
(* Writing. What a launch writes back it read before: others may have      *)
(* written meanwhile.                                                      *)
(***************************************************************************)

(* What a launch takes back is what was written since it read.             *)
TakenBack(i) == settled' = {n \in settled : n <= instance[i].upto}

(* How many records a file starts with that were all read before. *)
Common(f, ids) == CHOOSE k \in 0..Len(f) :
                      /\ \A j \in 1..k : f[j].prompt \in ids
                      /\ k < Len(f) => f[k + 1].prompt \notin ids

(* The file cut at the length it had. If it is another file by now, the    *)
(* length falls anywhere past the records both have, or past its end.      *)
CutFiles(raw) ==
    IF Len(lines) >= Len(raw) /\ SubSeq(lines, 1, Len(raw)) = raw THEN {raw}
    ELSE LET both == Common(lines, {raw[k].prompt : k \in DOMAIN raw})
             cut  == {SubSeq(lines, 1, k) : k \in both..Len(lines)}
         IN cut \cup {Append(lines, Padding)}
                \cup {[f EXCEPT ![Len(f)] = Torn(@.prompt)] : f \in {g \in cut : Len(g) > both}}

drop_torn_tail(i) ==
    LET s == instance[i] IN
    /\ s.pc = "cut"
    /\ \/ lines' \in CutFiles(s.raw) /\ TakenBack(i)
       \/ UNCHANGED <<lines, settled>>       \* it could not be opened
    /\ Becomes(i, [s EXCEPT !.pc = AfterRead(s.raw)])
    /\ UNCHANGED <<typed, aged>>

(* rewrite: a file beside it, then a rename. *)
rewrite(i) ==
    LET s == instance[i] IN
    /\ s.pc = "trim"
    /\ \/ /\ lines' = [k \in DOMAIN s.prompts |-> Whole(s.prompts[k])]
          /\ aged' = aged \cup {n \in 1..typed : Len(s.prompts) = Cap /\ n < s.prompts[1]}
          /\ TakenBack(i)
       \/ UNCHANGED <<lines, aged, settled>>
    /\ Becomes(i, [s EXCEPT !.pc = "open"])
    /\ UNCHANGED typed

AtLineStart == lines = <<>> \/ lines[Len(lines)].whole

(* One write, which may fail part of the way. *)
append(i) ==
    /\ instance[i].pc = "open" /\ typed < MaxTyped
    /\ typed' = typed + 1
    /\ \/ /\ lines' = Append(lines, Whole(typed'))
          /\ settled' = IF AtLineStart THEN settled \cup {typed'} ELSE settled
       \/ lines' = Append(lines, Torn(typed')) /\ UNCHANGED settled
       \/ UNCHANGED <<lines, settled>>
    /\ UNCHANGED <<instance, aged>>

(* The instance ends, whatever it is in the middle of. *)
Exits(i) ==
    /\ instance[i].pc # "closed"
    /\ Becomes(i, NotOpen)
    /\ UNCHANGED <<lines, typed, settled, aged>>

HistoryNext ==
    \E i \in Instance : load(i) \/ drop_torn_tail(i) \/ rewrite(i) \/ append(i) \/ Exits(i)

(***************************************************************************)
(* Properties.                                                             *)
(***************************************************************************)

Increasing(s) == \A j, k \in DOMAIN s : j < k => s[j] < s[k]

(* A prompt written whole on a line of its own stays until as many newer   *)
(* ones as are kept have come, whatever the instances do and wherever they *)
(* die, unless it was written between the reading of a launch and that     *)
(* launch's cut or trim; and what a launch recalls is those prompts whole, *)
(* in their order, and no more than are kept. (load, append)               *)
PromptsAreKept ==
    /\ settled \subseteq Range(Prompts(lines)) \cup aged
    /\ Increasing(Prompts(lines))
    /\ \A i \in Instance :
          LET s == instance[i]
          IN /\ Increasing(s.prompts) /\ Len(s.prompts) <= Cap
             /\ \A n \in settled : n \in Range(Prompts(s.raw)) /\ n \notin Range(s.prompts)
                    => Len(s.prompts) = Cap /\ n < s.prompts[1]
=============================================================================
