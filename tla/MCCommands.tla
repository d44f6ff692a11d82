----------------------------- MODULE MCCommands -----------------------------
(***************************************************************************)
(* What a command may do, and what becomes of it, each on its own: every   *)
(* line over a few small alphabets judged by the execution policy, the     *)
(* gate over a set of calls that meets each of its branches, and the       *)
(* commands that run, in the foreground and as jobs.                       *)
(***************************************************************************)
EXTENDS PermissionGate, ShellWords, JobStore

CONSTANTS t1, t2

Tasks == {t1, t2}

(* Lines: all of them up to a length over glyphs, or over words and phrases. *)
Glyphs(G, most) == [pieces |-> {<<g>> : g \in G}, limit |-> most, words |-> FALSE]
Argv == {"w", "sp", "nl", "sq", "dq", "bs", ";", "&", "#"}
Subst == {"w", "sp", "$", "(", ")", "dq", ";", "nl"}
Feed == {"w", "sp", "<", "|", "&", "nl", "bt"}
Reserved == {"w", "sp", ";", "if", "fi", "{", "}"}
Vocabulary(W, P) == [pieces |-> {<<"sp", w>> : w \in W} \cup P, limit |-> 4, words |-> TRUE]
Denied == Vocabulary({"rm", "-rf", "-r", "env", "/"}, {<<";">>, <<"sp", "X", "=", "w">>, <<"sp", "sq", "rm", "sq">>,
                    <<"bs", "nl">>, <<"sp", "{", "-r", ",", "-f", "}">>})
Pipe == Vocabulary({"curl", "sh", "w"}, {<<"|">>, <<"&", "&">>, <<"|", "|">>})
Forced == Vocabulary({"git", "push", "--force", "--dry-run", "-o", "-C"}, {<<";">>, <<"sp", "+", "w">>})
Publishing == Vocabulary({"npm", "publish", "sh", "-c", "eval", "trap", "ssh"}, {<<";">>, <<"sp", "sq", "npm", "sp", "publish", "sq">>})
Trusting == Vocabulary({"git", "diff", "--output", "..", "--", "w"}, {<<";">>, <<"&", "&">>, <<"sp", "-o", "..">>})
MCAlphabets == {Glyphs(Argv, 4), Glyphs(Subst, 4), Glyphs(Feed, 5), Glyphs(Reserved, 4)} \cup {Denied, Pipe, Forced, Publishing, Trusting}
Silent == [pieces |-> {}, limit |-> 0, words |-> FALSE]
MCTrusted == {<<<<"git">>, <<"diff">>>>, <<<<"w">>>>}
MCAllow == {<<<<"cargo">>, <<"publish">>>>}

(* Calls of the gate. *)
C(name) == [name |-> name, command |-> << >>, network |-> FALSE, action |-> "none", role |-> "general",
            allow_commands |-> {}, path |-> "none"]
Shell(s, net) == [C("shell") EXCEPT !.command = s, !.network = net]
Diff == <<"git", "sp", "diff">>
Release == <<"npm", "sp", "publish">>
Rename == <<"mv", "sp", "w">>
RenameMore == <<"mv", "sp", "w", "sp", "X">>
MCShims == {<<"npm">>}
Wipe == <<"rm", "sp", "-rf", "sp", "/">>
MvW == <<<<"mv">>, <<"w">>>>
MCPolicies == {[network |-> n, sandbox_off |-> FALSE, rules |-> MCTrusted] : n \in {"never", "prompt", "always"}}
MCCalls == {C("read_file"), C("write_file"), C("fetch_url"), Shell(Rename, FALSE), Shell(Diff, FALSE), Shell(RenameMore, TRUE),
            Shell(Release, FALSE), Shell(Wipe, FALSE),
            [C("job") EXCEPT !.action = "start", !.command = Release], [C("job") EXCEPT !.action = "cancel"],
            [C("agent") EXCEPT !.network = TRUE], [C("agent") EXCEPT !.role = "implementer", !.allow_commands = {MvW, << >>}],
            [C("request_write_root") EXCEPT !.path = "p"], C("request_write_root")}
MCReplies == {[ends |-> "done", text |-> <<"{", "yes", "}">>], [ends |-> "done", text |-> <<"{", "{", "no", "}", "}", "{", "yes", "}">>],
              [ends |-> "timeout", text |-> <<"{", "yes", "}">>], [ends |-> "done", text |-> <<"{", "no", "}", "{", "yes", "}">>]}

VARIABLE about      \* the part this behaviour is about: "words", "gate", "roots" or "jobs"

(* The requests for a root are asked and answered while links move, the other *)
(* calls while they stand still: neither looks at the other's state.          *)
commandVars == <<gateVars, lexVars, vars, about>>

NoGate == GateOn(CHOOSE p \in Policies : TRUE, [p \in Paths |-> "d"], << >>, {})
NoLine == alphabet = Silent /\ line = <<>> /\ left = 0

CommandsInit ==
    /\ \/ about = "words" /\ LexInit /\ NoGate
       \/ about \in {"gate", "roots"} /\ GateInit /\ NoLine
       \/ about = "jobs" /\ NoGate /\ NoLine
    /\ Init

CommandsNext ==
    \/ about = "words" /\ LexNext /\ UNCHANGED <<gateVars, vars, about>>
    \/ /\ about \in {"gate", "roots"} /\ GateNext /\ UNCHANGED <<lexVars, vars, about>>
       /\ about = "gate" => resolves' = resolves
       /\ call' # None => (is_root_grant(call'[1].name) <=> about = "roots")
    \/ about = "jobs" /\ Next /\ UNCHANGED <<gateVars, lexVars, about>>

CommandsSpec == CommandsInit /\ [][CommandsNext]_commandVars /\ Fairness

-----------------------------------------------------------------------------
(* What the floor judges is what sh runs, and its verdicts stand however the *)
(* line is dressed up: the two lexers agree on argv lines, the trust rules   *)
(* judge the words that run, a substitution hides no command, and the deny   *)
(* list, the irreversible list and the trust rules each hold.                *)
VerdictsHold ==
    about = "words" =>
        /\ LexersAgree /\ JudgedIsRun /\ SubstitutionIsRead
        /\ DenyHolds /\ OutwardStaysOutward /\ TrustedIsCovered

(* Nothing runs past the person: what only a person may allow was answered   *)
(* for this call, a session's consent covers what was seen, and a root is    *)
(* the directory that was shown.                                             *)
ConsentHolds == about \in {"gate", "roots"} => HumanOnlyAsked /\ ConsentCovers /\ GrantedIsShown

(* What was handed on is no wider than it was given: a child's authority is   *)
(* within its dispatch, and the network is open only where it was granted.   *)
DispatchHolds == about \in {"gate", "roots"} => ChildWithinDispatch /\ NetworkIsGranted

(* Every call that waits for the workspace gate gets past it although       *)
(* restores and other spawns come and go, and every foreground run ends by  *)
(* its deadline and still finds its record, although the store is brought   *)
(* back to its cap with every insert. (begin_spawn, evict_finished_jobs)    *)
CallsGetThrough == SpawnServed /\ RunEnds /\ []RunFindsRecord /\ StoreConverges
=============================================================================
