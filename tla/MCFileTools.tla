---------------------------- MODULE MCFileTools ----------------------------
(***************************************************************************)
(* What the agent does to files: the file tools, apply_patch's text, the   *)
(* configuration files, the snapshot of a workspace in a git repository of *)
(* its own, the harness that runs instances and collects their patches, and *)
(* the fence around what shell commands may write.                          *)
(* They share nothing here, so each behaviour is of one of them.           *)
(***************************************************************************)
EXTENDS WorkspaceFiles, PatchText, ConfigLayers, IsolatedGit, EvalBench, Sandbox, TLC

VARIABLE part

D(x) == [kind |-> "dir", to |-> x]
F == [kind |-> "file", to |-> << >>]
L(p) == [kind |-> "link", to |-> p]
Gone == [kind |-> "none", to |-> << >>]
NoNames == [n \in {} |-> F]
MCTree == [d \in {"/", "ws", "sub", "home", "vault", "opt", "fresh"} |->
             CASE d = "/" -> ("ws" :> D("ws")) @@ ("home" :> D("home")) @@ ("opt" :> D("opt"))
               [] d = "ws" -> "d" :> D("sub")
               [] d = "sub" -> "f" :> F
               [] d = "home" -> ("f" :> F) @@ ("vault" :> D("vault"))
               [] d = "vault" -> "f" :> F
               [] OTHER -> NoNames]
Rel(p) == [absolute |-> FALSE, names |-> p]
Abs(p) == [absolute |-> TRUE, names |-> p]
MCRequests == {Rel(<< >>), Rel(<<"d", "f">>), Rel(<<"d">>), Abs(<<"opt", "f">>), Rel(<<"..", "home", "f">>)}
MCGrants == {<<"opt">>, <<"home">>, << >>}
S(d, n, e) == [dir |-> d, name |-> n, entry |-> e]
MCSwaps == {S("ws", "d", L(<<"home">>)), S("ws", "d", D("sub")), S("ws", "d", Gone), S("sub", "f", L(<<"home", "f">>)), S("sub", "f", F),
            S("/", "opt", L(<<"home">>)), S("/", "opt", D("opt"))}
MCPrimary == <<"ws">>
MCHome == <<"home">>
MCSecrets == {<<"home", "vault">>}

MCTexts == {{<<"a">>, <<"sp">>, <<"tab">>, <<"nl">>}, {<<"a">>, <<"cr", "nl">>, <<"nl">>, <<"sp">>}, {<<"a">>, <<"q">>, <<"'">>}}
MCNew == {<<"b">>, <<"sp", "b", "nl", "sp", "sp", "b">>}

MCSettings ==
    {<<"enabled", 0>>, <<"mode", 1>>, <<"turn_steps", 0>>, <<"turn_steps", 1>>, <<"default_mode", 2>>, <<"timeout_secs", Odd>>,
     <<"api_key", 2>>, <<"netwrok", 1>>} \cup {<<"network", v>> : v \in {0, 2, Odd}} \cup {<<"auto_allow", v>> : v \in {1, Blank}}

GitFile == [kind |-> "file", what |-> 1]
GitLink == [kind |-> "link", what |-> 1]
GitRepo == [kind |-> "repo", what |-> 1]
MCCommits == {<<Nothing, Nothing, Nothing>>, <<Nothing, GitFile, GitLink>>, <<GitFile, GitLink, GitFile>>,
              <<Nothing, Nothing, GitRepo>>, <<GitLink, GitLink, GitLink>>}

MCRepoOf == <<1, 1, 2>>
MCIdOf == <<2, 1, 3>>

(* "/" holds the workspace w, a home h and the system's link t to the temp   *)
(* directory in h, where a missing cache h and a cache w behind a link of    *)
(* the user's are too. The workspace's t is where commands run, and a temp   *)
(* root.                                                                     *)
Stood(d) ==
    CASE d = 1 -> ("w" :> DirAt(2)) @@ ("h" :> DirAt(3))
                    @@ ("t" :> [kind |-> "link", owner |-> "root", absolute |-> TRUE, to |-> <<"h", "t">>])
      [] d = 2 -> "t" :> DirAt(5)
      [] d = 3 -> ("t" :> DirAt(4)) @@ ("w" :> [kind |-> "link", owner |-> "user", absolute |-> TRUE, to |-> << >>])
      [] OTHER -> [n \in {} |-> Vacant]
MCLayout == [d \in 1..6 |-> [n \in {"w", "h", "t"} |-> IF n \in DOMAIN Stood(d) THEN Stood(d)[n] ELSE Vacant]]
MCGranted == <<<<"w">>>>
MCCwds == {<<"w", "t">>}
MCCaches == <<[path |-> <<"h", "w">>, at |-> 3, name |-> "w", dir |-> 6],
              [path |-> <<"h", "h">>, at |-> 3, name |-> "h", dir |-> 6]>>
MCTemps == <<<<"t">>, <<"w", "t">>>>
MCPlanted == {[kind |-> "link", owner |-> "user", absolute |-> TRUE, to |-> <<"h">>]}
MCWays == {<<1, <<"w">>>>} \cup {<<1, <<f, n>>>> : f \in {"w", "h"}, n \in {"w", "h", "t"}}
            \cup {<<3, <<n>>>> : n \in {"w", "h", "t"}}
MCPlaces == {<<<< >>, 1, <<"t">>>>, <<<< >>, 1, <<"h", "t">>>>, <<<<"h">>, 3, <<"t">>>>, <<<< >>, 1, <<"w", "t">>>>}
MCMachines == {[system |-> "linux", abi |-> 5, arch |-> TRUE, off |-> FALSE],
               [system |-> "linux", abi |-> 0, arch |-> TRUE, off |-> FALSE],
               [system |-> "linux", abi |-> 1, arch |-> TRUE, off |-> TRUE],
               [system |-> "windows", abi |-> 0, arch |-> TRUE, off |-> FALSE]}

(* The programs that write the configuration are alike, and so are the       *)
(* commands of a session, which go by the same names here.                   *)
Alike == Permutations(Programs)

(* The parts that a behaviour is not about stand still in one state. *)
MCInit ==
    /\ part \in {"files", "patch", "config", "git", "bench", "sandbox"}
    /\ FilesInit /\ PatchInit /\ ConfigInit
    /\ IF part = "git" THEN GitInit
       ELSE GitOn(NoTree, NoTree, NoTree, "diff", "unset")
    /\ BenchInit /\ (part # "bench" => cache = [r \in Repo |-> "whole"] /\ host.sandbox = "off" /\ host.exempt)
    /\ SandboxInit /\ (part # "sandbox" => machine.system = "windows")

MCNext ==
    \/ part = "files" /\ FilesNext /\ UNCHANGED <<part, patchVars, configVars, gitVars, benchVars, sandboxVars>>
    \/ part = "patch" /\ PatchNext /\ UNCHANGED <<part, fileVars, configVars, gitVars, benchVars, sandboxVars>>
    \/ part = "config" /\ ConfigNext /\ UNCHANGED <<part, fileVars, patchVars, gitVars, benchVars, sandboxVars>>
    \/ part = "git" /\ GitNext /\ UNCHANGED <<part, fileVars, patchVars, configVars, benchVars, sandboxVars>>
    \/ part = "bench" /\ BenchNext /\ UNCHANGED <<part, fileVars, patchVars, configVars, gitVars, sandboxVars>>
    \/ part = "sandbox" /\ SandboxNext /\ UNCHANGED <<part, fileVars, patchVars, configVars, gitVars, benchVars>>

MCSpec == MCInit /\ [][MCNext]_<<part, fileVars, patchVars, configVars, gitVars, benchVars, sandboxVars>>

-----------------------------------------------------------------------------
(* The file tools stay inside: what a tool reads or writes is under a root,  *)
(* through every link and swap, and a secret directory is under none.        *)
RootsHold == part = "files" => BoundaryHolds /\ SecretsStayOut

(* An edit changes what it names: a patch replaces the text it quotes and    *)
(* nothing else, and an update of a configuration file keeps the rest of it. *)
EditsKeepTheRest ==
    /\ part = "patch" => PatchHitsOld /\ OtherLinesKept
    /\ part = "config" => UpdatesKeepTheRest

(* What may be written is what the user allows: a checkout's configuration   *)
(* only tightens the user's own, and the fence around shell commands holds   *)
(* against the commands themselves, or the tools say that there is none.     *)
LimitsHold ==
    /\ part = "config" => ProjectOnlyTightens
    /\ part = "sandbox" => FenceHolds /\ FenceIsToldTruly

(* What a run reports is what happened: the change a snapshot shows is the   *)
(* work done since its baseline, and the harness's results are of the        *)
(* instances it ran, in their own checkouts, each of them once.              *)
ResultsAreTrue ==
    /\ part = "git" => ChangesAreTheWork
    /\ part = "bench" => ReportIsHonest
=============================================================================
