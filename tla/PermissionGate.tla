--------------------------- MODULE PermissionGate ---------------------------
(***************************************************************************)
(* Who may let a tool call run.  The registry's policy makes a plan of a   *)
(* call; what the plan leaves open is settled by the config's allow list,  *)
(* by a consent a person gave earlier in the session, by the permission    *)
(* mode (which a person may change between any two steps), by a model that *)
(* judges the call, or by a person asked for this one call.  A sub-agent's *)
(* calls go through the same registry code with a policy of its own and    *)
(* are answered by its dispatch instead of a person.                       *)
(*                                                                         *)
(* One call is under way at a time; what interleaves with it are the       *)
(* person (mode, answers) and the file system under a requested root.      *)
(***************************************************************************)
EXTENDS CommandRules

CONSTANTS
    Policies,            \* the ExecPolicies a session may have been launched with
    Calls,               \* the calls the model makes
    AutoAllow,           \* approval.auto_allow of the config: tool names
    ShimPrograms,        \* programs this platform cannot start as argv (a cmd builtin, a .cmd shim)
    Replies,             \* what the judge's stream may bring
    Paths, Dirs          \* requested paths, and the directories they may resolve to

ASSUME GateAssumption ==
    /\ \A p \in Policies : p.network \in {"never", "prompt", "always"} /\ p.sandbox_off \in BOOLEAN
    /\ AutoAllow \subseteq {c.name : c \in Calls}

VARIABLES
    policy,      \* the session's ExecPolicy
    facts,       \* what the text of each command decides
    trust,       \* the sets of rules that trust a command
    mode,        \* SharedPermissionMode
    session_approved,                  \* tool names a person approved for the session
    session_trusted_shell_prefixes,    \* consent keys: an identity and whether it may use the network
    step,        \* where the call under way is: "idle", "mode", "judge", "parked", "run"
    leave,       \* who let the call run that is about to execute, else "none"
    call,        \* the call under way, or None
    target,      \* PendingToolBatch.root_grant_target: what the person is shown
    child,       \* the dispatch whose child is running, or None
    resolves,    \* where each path leads now
    roots,       \* the granted roots
    ran,         \* the last call that executed, who let it, with what network; or None
    said         \* history: the calls a person approved for the session, the roots they approved

gateVars == <<mode, session_approved, session_trusted_shell_prefixes, step, leave, call, target,
              child, resolves, roots, ran, said, policy, facts, trust>>

-----------------------------------------------------------------------------
(* The policy's plan of a call *)

Kinds == [read_file |-> "ReadOnlyFile", grep_files |-> "Search", write_file |-> "WriteFile", shell |-> "Shell",
          job |-> "Job", fetch_url |-> "Network", agent |-> "SubAgent", request_write_root |-> "RootGrant"]

classify_tool(name) == IF name \in DOMAIN Kinds THEN Kinds[name] ELSE "Unknown"

Rank == [never |-> 0, prompt |-> 1, always |-> 2]

Plan(verdict, human, sandbox, risk, network) ==
    [verdict |-> verdict, human |-> human, requires_sandbox |-> sandbox, risk |-> risk, network |-> network]
Allow(sandbox, network) == Plan("allow", FALSE, sandbox, "low", network)
Ask(risk) == Plan("ask", FALSE, FALSE, risk, FALSE)
Deny == Plan("deny", FALSE, FALSE, "high", FALSE)
network_disabled_plan == Plan("deny", FALSE, FALSE, "medium", FALSE)

requires_approval(plan) == plan.verdict = "ask"
requires_human(plan) == requires_approval(plan) /\ plan.human

network_requested(c) == c.network
shell_command_of(c) == IF \/ classify_tool(c.name) = "Shell"
                          \/ classify_tool(c.name) = "Job" /\ c.action = "start" THEN Some(c.command) ELSE None

(* Blank entries are dropped; a set has no duplicates. *)
normalize_allow_commands(entries) == {e \in entries : e # << >>}
subagent_allow_commands(c) == normalize_allow_commands(c.allow_commands)
dispatch_declares_allow_commands(c) == classify_tool(c.name) = "SubAgent" /\ subagent_allow_commands(c) # {}
(* A role that does not parse counts as one that writes. *)
subagent_role_writes(c) == c.role \notin {"general", "explore"}

program_runs_as_argv(program) == program \notin ShimPrograms

Commands == {c.command : c \in Calls}

(* What the text of a command decides.  Every reader of it is a function of   *)
(* the text, so the session's state holds what they say of each command.      *)
Facts ==
    [s \in Commands |->
       [deny |-> builtin_deny(s), irreversible |-> irreversible_outward(s), fs_edit |-> is_workspace_fs_edit(s),
        identity |-> session_identity(s), parses |-> parse_unattended(s) # None,
        runs_as_argv |-> \A cmds \in ToSet(parse_unattended(s)) :
                            \A k \in DOMAIN cmds : program_runs_as_argv(cmds[k].argv[1])]]
(* The trust in a command under each set of rules a policy may hold. *)
RuleSets == {p.rules : p \in Policies} \cup {p.rules \cup subagent_allow_commands(c) : p \in Policies, c \in Calls}
Trust == {x \in RuleSets \X Commands : trusted(x[1], x[2])}

evaluate_shell_command(p, s, wants) ==
    LET f == facts[s]
        network == p.network = "always" \/ (p.network = "prompt" /\ wants)
        gated(human, risk) == Plan("ask", human, TRUE, risk, network)
    IN  IF f.deny THEN Deny
        ELSE IF wants /\ p.network = "never" THEN network_disabled_plan
        ELSE IF f.irreversible THEN gated(TRUE, "high")
        ELSE IF wants /\ p.network = "prompt" THEN gated(FALSE, IF <<p.rules, s>> \in trust THEN "medium" ELSE "high")
        ELSE IF <<p.rules, s>> \in trust THEN Allow(TRUE, network)
        ELSE gated(FALSE, "high")

evaluate_job(p, c) ==
    IF c.action = "start" THEN evaluate_shell_command(p, c.command, network_requested(c))
    ELSE IF c.action \in {"status", "tail"} THEN Allow(FALSE, FALSE)
    ELSE IF c.action = "cancel" THEN Ask("low")
    ELSE Ask("high")

evaluate_dispatch(p, c) ==
    IF network_requested(c) /\ p.network = "never" THEN network_disabled_plan
    ELSE IF \/ subagent_role_writes(c)
            \/ network_requested(c) /\ p.network = "prompt"
            \/ subagent_allow_commands(c) # {} THEN Ask("medium")
    ELSE Allow(FALSE, FALSE)

policy_evaluate_tool(p, c) ==
    LET kind == classify_tool(c.name)
    IN  IF kind \in {"ReadOnlyFile", "Search"} THEN Allow(FALSE, FALSE)
        ELSE IF kind = "WriteFile" THEN Ask("medium")
        ELSE IF kind = "Network" THEN IF p.network = "never" THEN network_disabled_plan ELSE Ask("medium")
        ELSE IF kind = "Job" THEN evaluate_job(p, c)
        ELSE IF kind = "Shell" THEN evaluate_shell_command(p, c.command, network_requested(c))
        ELSE IF kind = "SubAgent" THEN evaluate_dispatch(p, c)
        ELSE IF kind = "RootGrant" THEN Plan("ask", TRUE, FALSE, "high", FALSE)
        ELSE Ask("high")

-----------------------------------------------------------------------------
(* The registry of the session and of a child *)

writes(d) == d.role = "implementer"

include_workspace_tool(d, name) ==
    IF name = "write_file" THEN writes(d) ELSE name \in {"read_file", "grep_files"}

Registered == IF child = None THEN DOMAIN Kinds
              ELSE {n \in DOMAIN Kinds : \/ include_workspace_tool(child[1], n)
                                         \/ n \in {"shell", "job"}
                                         \/ n = "fetch_url" /\ network_requested(child[1])}

(* The child's policy: network as the dispatch says, and never more than a prompt otherwise. *)
child_policy(d) ==
    [network |-> IF network_requested(d) THEN "always"
                 ELSE IF Rank[policy.network] > Rank["prompt"] THEN "prompt" ELSE policy.network,
     sandbox_off |-> policy.sandbox_off,
     rules |-> policy.rules \cup subagent_allow_commands(d)]

Policy == IF child = None THEN policy ELSE child_policy(child[1])

spec_requires_approval(name) == name \in {"write_file", "request_write_root"}

evaluate_tool(c) ==
    LET plan == policy_evaluate_tool(Policy, c)
    IN  IF plan.verdict = "allow" /\ spec_requires_approval(c.name)
        THEN [plan EXCEPT !.verdict = "ask", !.human = FALSE] ELSE plan

Mutyolo_ambient_network(plan, m) ==
    IF m = "yolo" /\ Policy.network # "never" /\ plan.requires_sandbox THEN [plan EXCEPT !.network = TRUE] ELSE plan

(* In Yolo a sandboxed command gets the network, unless the config says never *)
(* or a child was dispatched without it.                                      *)
yolo_ambient_network(plan, m) ==
    IF /\ m = "yolo" /\ (child = None \/ Policy.network = "always")
       /\ Policy.network # "never" /\ plan.requires_sandbox
    THEN [plan EXCEPT !.network = TRUE] ELSE plan

(* run_tool_call_with_plan once the call may execute: the plan is made anew,   *)
(* under the mode of this moment, the policy denies for good, what it allows   *)
(* outright runs as argv whoever let it, and argv is what a parse yields       *)
(* (steps_for).                                                                *)
Executes(c, by, authority) ==
    LET plan == yolo_ambient_network(evaluate_tool(c), mode)
        held == IF requires_approval(plan) THEN authority ELSE "parse"
        command == shell_command_of(c)
        runs == /\ c.name \in Registered /\ plan.verdict # "deny"
                /\ command # None /\ held = "parse" => facts[c.command].parses
    IN  /\ ran' = IF ~runs THEN None
                  ELSE Some([call |-> c, by |-> by, mode |-> mode, network |-> plan.network, human |-> requires_human(plan),
                             sandboxed |-> plan.requires_sandbox /\ ~Policy.sandbox_off,
                             child |-> child, authority |-> held])
        /\ child' = IF runs /\ classify_tool(c.name) = "SubAgent" THEN Some(c) ELSE child

-----------------------------------------------------------------------------
(* Approval without a person *)

session_allowable(name) == classify_tool(name) \notin {"Shell", "Job", "SubAgent", "RootGrant", "Network"}
is_root_grant(name) == classify_tool(name) = "RootGrant"
is_network_tool(name) == classify_tool(name) = "Network"

shell_consent_identity(c) == IF shell_command_of(c) = None THEN None ELSE facts[c.command].identity
Mutshell_consent_key(c) == IF shell_consent_identity(c) = None THEN None ELSE Some(<<shell_consent_identity(c)[1], FALSE>>)

shell_consent_key(c) ==
    LET id == shell_consent_identity(c) IN IF id = None THEN None ELSE Some(<<id[1], network_requested(c)>>)

command_runnable_unattended(c) == shell_command_of(c) = None \/ facts[c.command].runs_as_argv

accept_edits_approvable(c) ==
    /\ ~network_requested(c)
    /\ IF classify_tool(c.name) = "WriteFile" THEN TRUE
       ELSE IF classify_tool(c.name) = "SubAgent" THEN subagent_role_writes(c) /\ subagent_allow_commands(c) = {}
       ELSE IF shell_command_of(c) # None THEN facts[c.command].fs_edit
       ELSE FALSE

(* AutoApproval::authority *)
authority(by) == IF by \in {"session_shell", "accept_edits"} THEN "parse" ELSE "approved"

MutConsented(c, plan) ==
    IF is_root_grant(c.name) \/ child # None THEN "none"
    ELSE IF c.name \in AutoAllow THEN "config"
    ELSE "mode"
ChildConsented(c, plan) ==
    LET key == shell_consent_key(c)
    IN  IF is_root_grant(c.name) \/ requires_human(plan) THEN "none"
        ELSE IF key # None /\ key[1] \in session_trusted_shell_prefixes THEN "session_shell"
        ELSE IF child # None THEN "none"
        ELSE "mode"

(* auto_approval_granted up to where it lets go of the state lock: who lets   *)
(* the call run, None if only a person may, "mode" if the mode decides.       *)
Consented(c, plan) ==
    LET key == shell_consent_key(c)
    IN  IF is_root_grant(c.name) \/ requires_human(plan) \/ child # None THEN "none"
        ELSE IF c.name \in AutoAllow THEN "config"
        ELSE IF c.name \in session_approved THEN "session_tool"
        ELSE IF key # None /\ key[1] \in session_trusted_shell_prefixes /\ command_runnable_unattended(c) THEN "session_shell"
        ELSE "mode"

(* The mode's say, read after the lock. *)
ModeSays(c, plan) ==
    LET edits == accept_edits_approvable(c) /\ command_runnable_unattended(c)
    IN  IF mode = "default" THEN "none"
        ELSE IF mode = "yolo" THEN "yolo"
        ELSE IF mode = "auto" /\ (network_requested(c) \/ is_network_tool(c.name) \/ dispatch_declares_allow_commands(c)) THEN "none"
        ELSE IF edits THEN "accept_edits"
        ELSE IF mode = "auto" /\ plan.risk # "high" THEN "judge"
        ELSE "none"

(* The judge's answer is the first JSON object with a Boolean "approve"; a    *)
(* reply is a sequence of braces, members and noise.                          *)
json_object_spans(text) ==
    LET F[k \in 1 .. Len(text) + 1, from \in 0 .. Len(text), depth \in 0 .. Len(text)] ==
            IF k > Len(text) THEN << >>
            ELSE IF text[k] = "{" THEN F[k + 1, IF depth = 0 THEN k ELSE from, depth + 1]
            ELSE IF text[k] = "}" /\ depth = 1 THEN <<SubSeq(text, from, k)>> \o F[k + 1, 0, 0]
            ELSE IF text[k] = "}" /\ depth > 1 THEN F[k + 1, from, depth - 1]
            ELSE F[k + 1, from, depth]
    IN  F[1, 0, 0]

parse_approve(text) ==
    LET answers == SelectSeq(json_object_spans(text), LAMBDA o : o \in {<<"{", "yes", "}">>, <<"{", "no", "}">>})
    IN  answers # << >> /\ answers[1][2] = "yes"

(* Only a stream that ends in Done counts; an error, an end without Done and  *)
(* the deadline all mean that the person is asked.                            *)
approves(reply) == reply.ends = "done" /\ parse_approve(reply.text)

-----------------------------------------------------------------------------
(* Where a requested root leads *)

Resolved(c) == IF c.path \in Paths THEN Some(resolves[c.path]) ELSE None
Covered(d) == d \in roots

-----------------------------------------------------------------------------
(* Actions *)

Idle == step' = "idle" /\ leave' = "none" /\ call' = None /\ target' = None
launch == <<policy, facts, trust>>
Sessions == <<session_approved, session_trusted_shell_prefixes>>

(* The call has somebody's leave and goes on to run_tool. *)
RunBy(c, by) ==
    /\ step' = "run" /\ leave' = by /\ call' = Some(c) /\ target' = None
    /\ ran' = None /\ UNCHANGED child

(* The call is parked for a person, with the directory it would grant; a      *)
(* request that resolves to nothing is refused without asking.                *)
Park(c) ==
    LET refused == is_root_grant(c.name) /\ Resolved(c) = None
    IN  /\ step' = IF refused THEN "idle" ELSE "parked"
        /\ call' = IF refused THEN None ELSE Some(c)
        /\ target' = IF is_root_grant(c.name) THEN Resolved(c) ELSE None
        /\ leave' = "none" /\ ran' = None /\ UNCHANGED child

(* subagent_approval_decision: the dispatch answers for the person. *)
ChildMay(c) ==
    LET plan == evaluate_tool(c)
        d == child[1]
        kind == classify_tool(c.name)
    IN  IF plan.verdict = "deny" THEN FALSE
        ELSE IF ~requires_approval(plan) THEN TRUE
        ELSE IF kind = "RootGrant" THEN FALSE
        ELSE IF writes(d) /\ kind = "WriteFile" THEN TRUE
        ELSE IF kind = "Network" THEN network_requested(d)
        ELSE FALSE

(* A call of the batch, up to the point where only the mode can decide. *)
Propose(c) ==
    LET plan == evaluate_tool(c)
        who == Consented(c, plan)
    IN  /\ step = "idle"
        /\ IF c.name \notin Registered \/ plan.verdict = "deny" THEN ran' = None /\ Idle /\ UNCHANGED child
           ELSE IF ~requires_approval(plan) THEN RunBy(c, "policy")
           ELSE IF who = "mode" THEN step' = "mode" /\ call' = Some(c) /\ ran' = None /\ UNCHANGED <<leave, target, child>>
           ELSE IF who # "none" THEN RunBy(c, who)
           ELSE IF child # None THEN IF ChildMay(c) THEN RunBy(c, "dispatch")
                                     ELSE ran' = None /\ Idle /\ UNCHANGED child
           ELSE Park(c)
        /\ UNCHANGED <<launch, mode, Sessions, resolves, roots, said>>

(* The lock is released: the mode as it is now decides. *)
ReadMode ==
    /\ step = "mode"
    /\ LET c == call[1]
           who == ModeSays(c, evaluate_tool(c))
       IN  IF who = "none" THEN Park(c)
           ELSE IF who = "judge" THEN step' = "judge" /\ ran' = None /\ UNCHANGED <<leave, call, target, child>>
           ELSE RunBy(c, who)
    /\ UNCHANGED <<launch, mode, Sessions, resolves, roots, said>>

Judge(reply) ==
    /\ step = "judge"
    /\ IF approves(reply) THEN RunBy(call[1], "judge") ELSE Park(call[1])
    /\ UNCHANGED <<launch, mode, Sessions, resolves, roots, said>>

Mutapply_root_grant(c) ==
    roots' = IF Resolved(c) # None /\ ~Covered(Resolved(c)[1]) THEN roots \cup {Resolved(c)[1]} ELSE roots

(* apply_root_grant: the directory is resolved again and must be the one the  *)
(* person was shown.                                                          *)
apply_root_grant(c) ==
    roots' = IF Resolved(c) # None /\ target = Resolved(c) /\ ~Covered(target[1]) THEN roots \cup {target[1]} ELSE roots

(* handle_approval *)
Answer(decision) ==
    /\ step = "parked"
    /\ LET c == call[1]
           key == shell_consent_key(c)
           session == decision = "approved_for_session" /\ ~requires_human(evaluate_tool(c))
       IN  /\ session_approved' = session_approved \cup IF session /\ session_allowable(c.name) THEN {c.name} ELSE {}
           /\ session_trusted_shell_prefixes' = session_trusted_shell_prefixes
                \cup IF session /\ ~session_allowable(c.name) /\ key # None THEN {key[1], <<key[1][1], FALSE>>} ELSE {}
           /\ said' = said \cup IF \/ session /\ (session_allowable(c.name) \/ key # None)
                                   \/ decision # "denied" /\ is_root_grant(c.name)
                               THEN {[call |-> c, shown |-> target]} ELSE {}
           /\ IF decision = "denied" \/ is_root_grant(c.name) THEN ran' = None /\ Idle /\ UNCHANGED child
              ELSE RunBy(c, "person")
           /\ IF decision # "denied" /\ is_root_grant(c.name) THEN apply_root_grant(c) ELSE UNCHANGED roots
    /\ UNCHANGED <<launch, mode, resolves>>

(* run_tool: the call executes under the mode as it is now, which need not be *)
(* the one that let it through, and the batch goes on.                        *)
Execute ==
    /\ step = "run" /\ Executes(call[1], leave, authority(leave)) /\ Idle
    /\ UNCHANGED <<launch, mode, Sessions, resolves, roots, said>>

(* The child's turn is over and the agent tool returns. *)
ChildReturns ==
    /\ child # None /\ step = "idle" /\ child' = None /\ ran' = None
    /\ UNCHANGED <<launch, mode, Sessions, step, leave, call, target, resolves, roots, said>>

Cycle == [default |-> "accept_edits", accept_edits |-> "auto", auto |-> "yolo", yolo |-> "default"]

(* The person's key: a load and a store, by the one thread that does both. *)
cycle ==
    /\ mode' = Cycle[mode]
    /\ UNCHANGED <<launch, Sessions, step, leave, call, target, child, resolves, roots, ran, said>>

(* A link on the way to a requested directory is changed. *)
Relink(p) ==
    /\ \E d \in Dirs \ {resolves[p]} : resolves' = [resolves EXCEPT ![p] = d]
    /\ UNCHANGED <<launch, mode, Sessions, step, leave, call, target, child, roots, ran, said>>

-----------------------------------------------------------------------------
GateOn(config, links, read, trusts) ==
    /\ policy = config /\ facts = read /\ trust = trusts /\ mode = "default"
    /\ session_approved = {} /\ session_trusted_shell_prefixes = {}
    /\ step = "idle" /\ leave = "none" /\ call = None /\ target = None /\ child = None
    /\ resolves = links /\ roots = {} /\ ran = None /\ said = {}

GateInit == \E config \in Policies, links \in [Paths -> Dirs] : GateOn(config, links, Facts, Trust)

GateNext ==
    \/ \E c \in Calls : Propose(c)
    \/ ReadMode
    \/ \E r \in Replies : Judge(r)
    \/ \E d \in {"denied", "approved", "approved_for_session"} : Answer(d)
    \/ Execute
    \/ ChildReturns
    \/ cycle
    \/ \E p \in Paths : Relink(p)

GateSpec == GateInit /\ [][GateNext]_gateVars

-----------------------------------------------------------------------------
(* Properties *)

Ran == ran # None

(* What only a person may let run, an irreversible outward command or a new  *)
(* root, ran because a person answered for this very call: no consent of     *)
(* the session, mode, judge, allow list or dispatch stands in for it.        *)
HumanOnlyAsked ==
    Ran /\ (ran[1].human \/ (shell_command_of(ran[1].call) # None /\ facts[ran[1].call.command].irreversible)) =>
       ran[1].by = "person" /\ ran[1].child = None

(* A consent for the session covers what the person saw: the same tool, or a  *)
(* command of the same identity with no more network than was approved, run   *)
(* as the argv that was judged.                                               *)
ConsentCovers ==
    LET saw(c) == \E s \in said : s.call = c
    IN  /\ Ran /\ ran[1].by = "session_tool" => \E c \in Calls : saw(c) /\ c.name = ran[1].call.name
        /\ Ran /\ ran[1].by = "session_shell" =>
             /\ ran[1].authority = "parse"
             /\ \E c \in Calls : /\ saw(c) /\ shell_consent_identity(c) = shell_consent_identity(ran[1].call)
                                 /\ network_requested(ran[1].call) => network_requested(c)

(* No command reaches the network on anything less than the config's always,  *)
(* a person's yes to a call that declared it, the allow list, a dispatch that *)
(* was itself let out, or Yolo; under never nothing does.                     *)
NetworkIsGranted ==
    Ran /\ ran[1].network =>
       /\ policy.network # "never"
       /\ ran[1].child # None => network_requested(ran[1].child[1])
       /\ policy.network = "prompt" /\ ran[1].mode # "yolo" /\ ran[1].child = None =>
            network_requested(ran[1].call) /\ ran[1].by \in {"config", "person", "session_shell", "yolo"}

(* A child does no more than its dispatch was approved for: it writes only in *)
(* a role that writes, its commands are under the session's rules or the      *)
(* ones the dispatch declared, it grants no root and dispatches nobody.       *)
ChildWithinDispatch ==
    Ran /\ ran[1].child # None =>
       LET c == ran[1].call
           d == ran[1].child[1]
       IN  /\ classify_tool(c.name) = "WriteFile" => writes(d)
           /\ classify_tool(c.name) = "Network" => network_requested(d)
           /\ shell_command_of(c) # None => <<policy.rules \cup subagent_allow_commands(d), c.command>> \in trust
           /\ classify_tool(c.name) \notin {"SubAgent", "RootGrant"}

(* Every granted root is a directory a person was shown and approved, however *)
(* the path they answered for was redirected meanwhile.                       *)
GrantedIsShown == \A d \in roots : \E s \in said : s.shown = Some(d)

=============================================================================
