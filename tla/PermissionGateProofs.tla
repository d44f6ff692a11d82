------------------------ MODULE PermissionGateProofs ------------------------
(***************************************************************************)
(* Proofs about the permission gate, for every set of calls, policies,     *)
(* allow lists and replies of the judge.  What the text of a command       *)
(* decides stays opaque: the argument is about who may let a call run.     *)
(*                                                                         *)
(* The invariant says what each resting place of a call has already ruled  *)
(* out (a call that waits for the mode or the judge is none that needs a   *)
(* person, one that waits for the judge asks for no network, and one about *)
(* to execute may run under whatever mode it then finds), and that what    *)
(* the session remembers of a person's answers goes back to an answer that *)
(* was given.                                                              *)
(***************************************************************************)
EXTENDS MCCommands, TLAPS

Networks == {"never", "prompt", "always"}

-----------------------------------------------------------------------------
(* Plans *)

(* The kinds of the tools of classify_tool are told apart by name. *)
LEMMA KindOfName ==
    ASSUME NEW n
    PROVE  /\ classify_tool(n) = "Shell" <=> n = "shell"
           /\ classify_tool(n) = "Job" <=> n = "job"
           /\ classify_tool(n) = "WriteFile" <=> n = "write_file"
           /\ classify_tool(n) = "Network" <=> n = "fetch_url"
           /\ classify_tool(n) = "SubAgent" <=> n = "agent"
           /\ classify_tool(n) = "RootGrant" <=> n = "request_write_root"
BY DEF classify_tool, Kinds

(* A plan is a record of its five fields. *)
IsPlan(plan) == plan = Plan(plan.verdict, plan.human, plan.requires_sandbox, plan.risk, plan.network)

LEMMA PlanFields ==
    ASSUME NEW v, NEW h, NEW b, NEW r, NEW n
    PROVE  IsPlan(Plan(v, h, b, r, n))
BY DEF IsPlan, Plan

(* evaluate_shell_command: an irreversible command is denied or left to a     *)
(* person, an allowed one is trusted, and the network is what the config or   *)
(* the call says.                                                             *)
LEMMA ShellPlan ==
    ASSUME NEW p, p.network \in Networks, NEW s, NEW wants
    PROVE  LET plan == evaluate_shell_command(p, s, wants)
           IN  /\ facts[s].irreversible => plan.verdict = "deny" \/ requires_human(plan)
               /\ plan.verdict = "allow" => <<p.rules, s>> \in trust
               /\ plan.network => /\ p.network # "never"
                                  /\ p.network = "prompt" => wants /\ plan.verdict = "ask"
               /\ requires_human(plan) => plan.verdict = "ask"
               /\ IsPlan(plan) /\ plan.verdict \in {"allow", "ask", "deny"}
<1> DEFINE f == facts[s]
           network == p.network = "always" \/ (p.network = "prompt" /\ wants)
           plan == evaluate_shell_command(p, s, wants)
<1> USE DEF requires_human, requires_approval, Plan
<1>1. CASE f.deny
  <2>1. plan = Deny
    BY <1>1 DEF evaluate_shell_command
  <2> QED
    BY <2>1, PlanFields DEF Deny
<1>2. CASE ~f.deny /\ wants /\ p.network = "never"
  <2>1. plan = network_disabled_plan
    BY <1>2 DEF evaluate_shell_command
  <2> QED
    BY <2>1, PlanFields DEF network_disabled_plan
<1>3. CASE ~f.deny /\ ~(wants /\ p.network = "never") /\ f.irreversible
  <2>1. plan = Plan("ask", TRUE, TRUE, "high", network)
    BY <1>3 DEF evaluate_shell_command
  <2>2. plan.verdict = "ask" /\ plan.human = TRUE /\ plan.network = network
    BY <2>1
  <2>3. IsPlan(plan)
    BY <2>1, PlanFields DEF IsPlan
  <2> QED
    BY <2>2, <2>3, <1>3
<1>4. CASE ~f.deny /\ ~f.irreversible /\ wants /\ p.network = "prompt"
  <2>1. \E risk : plan = Plan("ask", FALSE, TRUE, risk, network)
    BY <1>4 DEF evaluate_shell_command
  <2> QED
    BY <2>1, <1>4, PlanFields
<1>5. CASE ~f.deny /\ ~f.irreversible /\ ~(wants /\ p.network # "always") /\ <<p.rules, s>> \in trust
  <2>1. plan = Allow(TRUE, network)
    BY <1>5 DEF evaluate_shell_command
  <2>2. plan.verdict = "allow" /\ plan.network = network
    BY <2>1 DEF Allow
  <2> QED
    BY <2>1, <2>2, <1>5, PlanFields DEF Allow
<1>6. CASE ~f.deny /\ ~f.irreversible /\ ~(wants /\ p.network # "always") /\ <<p.rules, s>> \notin trust
  <2>1. plan = Plan("ask", FALSE, TRUE, "high", network)
    BY <1>6 DEF evaluate_shell_command
  <2>2. plan.verdict = "ask" /\ plan.human = FALSE /\ plan.network = network
    BY <2>1
  <2> QED
    BY <2>1, <2>2, <1>6, PlanFields
<1> QED
  BY <1>1, <1>2, <1>3, <1>4, <1>5, <1>6 DEF Networks

(* What a plan says of a call: commands go by the shell's plan, only a shell  *)
(* command opens the network, and a root is only ever granted by a person.    *)
PlanSays(c) ==
    LET plan == evaluate_tool(c)
    IN  /\ shell_command_of(c) # None /\ facts[c.command].irreversible => plan.verdict = "deny" \/ requires_human(plan)
        /\ shell_command_of(c) # None /\ plan.verdict = "allow" => <<Policy.rules, c.command>> \in trust
        /\ plan.network => /\ shell_command_of(c) # None /\ Policy.network # "never"
                           /\ Policy.network = "prompt" => network_requested(c) /\ plan.verdict = "ask"
        /\ plan.requires_sandbox => shell_command_of(c) # None
        /\ requires_human(plan) => plan.verdict = "ask" /\ (shell_command_of(c) # None \/ is_root_grant(c.name))
        /\ is_root_grant(c.name) => requires_human(plan)
        /\ IsPlan(plan) /\ plan.verdict \in {"allow", "ask", "deny"}

LEMMA PlanOfTool ==
    ASSUME NEW c, Policy.network \in Networks
    PROVE  PlanSays(c)
<1> DEFINE k == classify_tool(c.name)
           plan == policy_evaluate_tool(Policy, c)
<1>1. /\ k = "Shell" <=> c.name = "shell"
      /\ k = "Job" <=> c.name = "job"
      /\ k = "WriteFile" <=> c.name = "write_file"
      /\ k = "RootGrant" <=> c.name = "request_write_root"
  BY KindOfName
<1>2. shell_command_of(c) # None <=> k = "Shell" \/ (k = "Job" /\ c.action = "start")
  BY DEF shell_command_of, None, Some
<1>3. CASE shell_command_of(c) # None
  <2>1. plan = evaluate_shell_command(Policy, c.command, network_requested(c))
    BY <1>2, <1>3 DEF policy_evaluate_tool, evaluate_job
  <2>2. evaluate_tool(c) = plan
    BY <1>1, <1>2, <1>3 DEF evaluate_tool, spec_requires_approval
  <2>3. ~is_root_grant(c.name)
    BY <1>2, <1>3 DEF is_root_grant
  <2> QED
    BY <2>1, <2>2, <2>3, <1>3, ShellPlan DEF PlanSays
<1>4. CASE shell_command_of(c) = None /\ k = "RootGrant"
  <2>1. evaluate_tool(c) = Plan("ask", TRUE, FALSE, "high", FALSE)
    BY <1>4 DEF evaluate_tool, policy_evaluate_tool, Plan
  <2> QED
    BY <2>1, <1>4, PlanFields DEF PlanSays, Plan, requires_human, requires_approval, is_root_grant
<1>5. CASE shell_command_of(c) = None /\ k # "RootGrant"
  <2>1. plan \in {Allow(FALSE, FALSE), Ask("low"), Ask("medium"), Ask("high"), network_disabled_plan}
    BY <1>2, <1>5 DEF policy_evaluate_tool, evaluate_job, evaluate_dispatch
  <2>2. /\ ~evaluate_tool(c).human /\ ~evaluate_tool(c).network /\ ~evaluate_tool(c).requires_sandbox
        /\ evaluate_tool(c).verdict \in {"allow", "ask", "deny"}
    BY <2>1 DEF evaluate_tool, Allow, Ask, network_disabled_plan, Plan
  <2>3. IsPlan(evaluate_tool(c))
    BY <2>1, PlanFields DEF evaluate_tool, Allow, Ask, network_disabled_plan, IsPlan, Plan
  <2> QED
    BY <2>2, <2>3, <1>5 DEF PlanSays, requires_human, is_root_grant
<1> QED
  BY <1>3, <1>4, <1>5

-----------------------------------------------------------------------------
(* Invariant *)

Launched ==
    /\ policy \in Policies /\ facts = Facts
    /\ child # None => (network_requested(child[1]) => policy.network # "never")

(* What has to be ruled out before a call is run by somebody's leave, under  *)
(* whatever mode it is run.                                                  *)
MayRun(c, by) ==
    LET plan == evaluate_tool(c)
    IN  /\ requires_human(plan) => by = "person" /\ child = None
        /\ child # None => ~requires_approval(plan) \/ ChildMay(c)
        /\ plan.network /\ child = None /\ policy.network = "prompt" =>
             by \in {"config", "person", "session_shell", "yolo"}

(* A session's consent is a yes to the like of this call. *)
SaidOf(c, by) ==
    /\ by = "session_tool" => \E x \in Calls : (\E s \in said : s.call = x) /\ x.name = c.name
    /\ by = "session_shell" =>
         \E x \in Calls : /\ \E s \in said : s.call = x
                          /\ shell_consent_identity(x) = shell_consent_identity(c)
                          /\ network_requested(c) => network_requested(x)

(* Where the call under way rests, and what was ruled out on the way there. *)
Resting ==
    /\ step \in {"idle", "mode", "judge", "parked", "run"}
    /\ step # "idle" => call # None /\ call[1] \in Calls
    /\ step \in {"mode", "judge", "parked"} => child = None
    /\ step \in {"mode", "judge"} => ~requires_human(evaluate_tool(call[1]))
    /\ step = "judge" => ~network_requested(call[1])
    /\ step = "run" => MayRun(call[1], leave) /\ SaidOf(call[1], leave)

(* What the session remembers goes back to an answer a person gave. *)
Remembered ==
    /\ \A n \in session_approved :
          /\ session_allowable(n)
          /\ \E s \in said : s.call \in Calls /\ s.call.name = n
    /\ \A k \in session_trusted_shell_prefixes :
          \E s \in said : /\ s.call \in Calls /\ shell_consent_identity(s.call) = Some(k[1])
                          /\ k[2] => network_requested(s.call)

RanWell == HumanOnlyAsked /\ ConsentCovers /\ NetworkIsGranted /\ ChildWithinDispatch

GateInv == Launched /\ Resting /\ Remembered /\ GrantedIsShown /\ RanWell

(* The child's policy is one of the three networks too. *)
LEMMA PolicyNetwork ==
    ASSUME Launched
    PROVE  Policy.network \in Networks
<1>1. policy.network \in Networks
  BY GateAssumption DEF Launched, Networks
<1>2. child_policy(child[1]).network \in Networks
  BY <1>1 DEF child_policy, Networks
<1> QED
  BY <1>1, <1>2 DEF Policy

(* An identity of a command is there or it is not: nothing else stands for it. *)
LEMMA IdentityIsOption ==
    ASSUME facts = Facts, NEW c \in Calls, shell_consent_identity(c) # None
    PROVE  shell_consent_identity(c) = Some(shell_consent_identity(c)[1])
<1>1. c.command \in Commands
  BY DEF Commands
<1>2. facts[c.command].identity = session_identity(c.command)
  BY <1>1 DEF Facts
<1>3. \A s : session_identity(s) # None => \E id : session_identity(s) = Some(id)
  BY DEF session_identity
<1>4. shell_consent_identity(c) = session_identity(c.command)
  BY <1>2 DEF shell_consent_identity
<1> QED
  BY <1>3, <1>4 DEF Some

-----------------------------------------------------------------------------
(* What executing a call leaves behind *)

(* Yolo's ambient network adds to a plan's network and to nothing else. *)
LEMMA Widened ==
    ASSUME NEW q, IsPlan(q)
    PROVE  LET wide == yolo_ambient_network(q, mode)
           IN  /\ wide.verdict = q.verdict /\ wide.human = q.human
               /\ wide.network => \/ q.network
                                  \/ /\ mode = "yolo" /\ q.requires_sandbox /\ Policy.network # "never"
                                     /\ child = None \/ Policy.network = "always"
<1>1. CASE yolo_ambient_network(q, mode) = q
  BY <1>1
<1>2. CASE /\ yolo_ambient_network(q, mode) = [q EXCEPT !.network = TRUE]
           /\ mode = "yolo" /\ q.requires_sandbox /\ Policy.network # "never"
           /\ child = None \/ Policy.network = "always"
  BY <1>2 DEF IsPlan, Plan
<1> QED
  BY <1>1, <1>2 DEF yolo_ambient_network

(* The call ran for this reason, as its plan says; only a dispatch that ran   *)
(* leaves a child.                                                            *)
Outcome(c, by, auth) ==
    LET plan == evaluate_tool(c)
    IN  /\ ran' # None => /\ c.name \in Registered /\ plan.verdict # "deny"
                          /\ ran'[1].call = c /\ ran'[1].by = by /\ ran'[1].child = child /\ ran'[1].mode = mode
                          /\ ran'[1].human => requires_human(plan)
                          /\ ran'[1].network => \/ plan.network
                                                \/ /\ mode = "yolo" /\ plan.requires_sandbox /\ Policy.network # "never"
                                                   /\ child = None \/ Policy.network = "always"
                          /\ auth = "parse" => ran'[1].authority = "parse"
        /\ child' = child \/ (child' = Some(c) /\ ran' # None /\ classify_tool(c.name) = "SubAgent")

LEMMA Executed ==
    ASSUME NEW c, PlanSays(c), NEW by, NEW auth, Executes(c, by, auth)
    PROVE  Outcome(c, by, auth)
<1> DEFINE plan == evaluate_tool(c)
           wide == yolo_ambient_network(plan, mode)
           held == IF requires_approval(wide) THEN auth ELSE "parse"
           r == [call |-> c, by |-> by, mode |-> mode, network |-> wide.network, human |-> requires_human(wide),
                 sandboxed |-> wide.requires_sandbox /\ ~Policy.sandbox_off, child |-> child, authority |-> held]
<1>1. /\ wide.verdict = plan.verdict /\ wide.human = plan.human
      /\ wide.network => \/ plan.network
                         \/ /\ mode = "yolo" /\ plan.requires_sandbox /\ Policy.network # "never"
                            /\ child = None \/ Policy.network = "always"
  BY Widened DEF PlanSays
<1>2. \/ ran' = None /\ child' = child
      \/ /\ c.name \in Registered /\ wide.verdict # "deny" /\ ran' = Some(r)
         /\ child' = child \/ (child' = Some(c) /\ classify_tool(c.name) = "SubAgent")
  BY DEF Executes
<1>3. CASE ran' = Some(r)
  <2>1. ran' # None /\ ran'[1] = r
    BY <1>3 DEF Some, None
  <2>2. /\ ran'[1].call = c /\ ran'[1].by = by /\ ran'[1].child = child /\ ran'[1].mode = mode
        /\ ran'[1].network = wide.network /\ ran'[1].authority = held
    BY <2>1
  <2>3. ran'[1].human = requires_human(wide)
    BY <2>1
  <2>4. requires_human(wide) => requires_human(plan)
    BY <1>1 DEF requires_human, requires_approval
  <2>5. c.name \in Registered /\ wide.verdict # "deny" /\ (child' = child \/ (child' = Some(c) /\ classify_tool(c.name) = "SubAgent"))
    BY <2>1, <1>2
  <2>6. ran'[1].human => requires_human(plan)
    BY <2>3, <2>4
  <2>7. ran'[1].network => wide.network
    BY <2>2
  <2>8. auth = "parse" => ran'[1].authority = "parse"
    BY <2>2
  <2> QED
    BY <2>1, <2>2, <2>5, <2>6, <2>7, <2>8, <1>1 DEF Outcome
<1>4. CASE ran' = None /\ child' = child
  BY <1>4 DEF Outcome
<1> QED
  BY <1>2, <1>3, <1>4

(* Then the call is the person's if it is only a person's to allow, a child   *)
(* stays within its dispatch, and the network is open where it was granted.   *)
LEMMA RunsWell ==
    ASSUME Launched, NEW c, PlanSays(c), NEW by, NEW auth, Outcome(c, by, auth), MayRun(c, by), UNCHANGED launch
    PROVE  HumanOnlyAsked' /\ NetworkIsGranted' /\ ChildWithinDispatch' /\ Launched'
<1> DEFINE plan == evaluate_tool(c)
           d == child[1]
           k == classify_tool(c.name)
<1>1. policy' = policy /\ facts' = facts /\ trust' = trust
  BY DEF launch
<1>2. Policy.network \in Networks /\ policy.network \in Networks
  BY PolicyNetwork, GateAssumption DEF Launched, Networks
<1>3. ASSUME ran' # None, child # None
      PROVE  /\ k = "WriteFile" => writes(d)
             /\ k = "Network" => network_requested(d)
             /\ k \notin {"SubAgent", "RootGrant"}
             /\ shell_command_of(c) # None => /\ plan.verdict = "allow"
                                              /\ <<policy.rules \cup subagent_allow_commands(d), c.command>> \in trust
             /\ Policy.network = "always" => network_requested(d)
  <2>1. c.name \in Registered /\ plan.verdict # "deny"
    BY <1>3 DEF Outcome
  <2>2. c.name \in {"read_file", "grep_files", "shell", "job"} \/ (c.name = "write_file" /\ writes(d)) \/ (c.name = "fetch_url" /\ network_requested(d))
    BY <2>1, <1>3 DEF Registered, include_workspace_tool
  <2>3. /\ k = "WriteFile" => writes(d)
        /\ k = "Network" => network_requested(d)
        /\ k \notin {"SubAgent", "RootGrant"}
    BY <2>2, KindOfName
  <2>4. ASSUME shell_command_of(c) # None PROVE plan.verdict = "allow"
    <3>1. k \in {"Shell", "Job"}
      BY <2>4 DEF shell_command_of
    <3>2. ~ChildMay(c) \/ ~requires_approval(plan)
      BY <3>1 DEF ChildMay
    <3> QED
      BY <3>2, <2>1, <1>3 DEF MayRun, PlanSays, requires_approval
  <2>5. Policy.rules = policy.rules \cup subagent_allow_commands(d) /\ (Policy.network = "always" => network_requested(d))
    BY <1>2, <1>3 DEF Policy, child_policy, Rank, Networks
  <2> QED
    BY <2>3, <2>4, <2>5 DEF PlanSays
<1>4. HumanOnlyAsked'
  <2>1. ASSUME ran' # None
        PROVE  ran'[1].human \/ (shell_command_of(c) # None /\ facts[c.command].irreversible) => by = "person" /\ child = None
    BY <2>1 DEF Outcome, PlanSays, MayRun
  <2> QED
    BY <2>1, <1>1 DEF HumanOnlyAsked, Ran, Outcome
<1>5. NetworkIsGranted'
  <2>1. SUFFICES ASSUME ran' # None, ran'[1].network
                 PROVE  /\ policy.network # "never"
                        /\ child # None => network_requested(d)
                        /\ policy.network = "prompt" /\ mode # "yolo" /\ child = None =>
                             network_requested(c) /\ by \in {"config", "person", "session_shell", "yolo"}
    BY <1>1 DEF NetworkIsGranted, Ran, Outcome
  <2>2. \/ plan.network
        \/ mode = "yolo" /\ plan.requires_sandbox /\ Policy.network # "never" /\ (child = None \/ Policy.network = "always")
    BY <2>1 DEF Outcome
  <2>3. CASE child = None
    <3>1. Policy = policy
      BY <2>3 DEF Policy
    <3> QED
      BY <3>1, <2>2, <2>3 DEF PlanSays, MayRun
  <2>4. CASE child # None
    <3>1. Policy.network = "always"
      BY <2>1, <2>2, <2>4, <1>2, <1>3 DEF PlanSays, Networks
    <3> QED
      BY <3>1, <2>1, <2>4, <1>3 DEF Launched
  <2> QED
    BY <2>3, <2>4
<1>6. ChildWithinDispatch'
  BY <1>1, <1>3 DEF ChildWithinDispatch, Ran, Outcome
<1>7. Launched'
  <2>1. CASE child' = child
    BY <2>1, <1>1 DEF Launched
  <2>2. CASE child' = Some(c) /\ ran' # None /\ k = "SubAgent"
    <3>1. child = None /\ plan.verdict # "deny"
      BY <2>2, <1>3 DEF Outcome
    <3>2. policy_evaluate_tool(policy, c) = evaluate_dispatch(policy, c)
      BY <2>2 DEF policy_evaluate_tool
    <3>3. network_requested(c) => policy.network # "never"
      <4>1. SUFFICES ASSUME network_requested(c), policy.network = "never" PROVE FALSE
        OBVIOUS
      <4>2. evaluate_dispatch(policy, c) = network_disabled_plan
        BY <4>1 DEF evaluate_dispatch
      <4>3. plan = network_disabled_plan
        BY <3>1, <3>2, <4>2 DEF evaluate_tool, Policy, network_disabled_plan, Plan
      <4> QED
        BY <3>1, <4>3 DEF network_disabled_plan, Plan
    <3> QED
      BY <2>2, <3>3, <1>1 DEF Launched, Some, network_requested
  <2> QED
    BY <2>1, <2>2 DEF Outcome
<1> QED
  BY <1>4, <1>5, <1>6, <1>7

-----------------------------------------------------------------------------
(* Steps *)

(* A plan is made of the launch and of the child alone. *)
LEMMA SamePlan ==
    ASSUME UNCHANGED <<launch, child>>, NEW c
    PROVE  (evaluate_tool(c))' = evaluate_tool(c)
<1>1. policy' = policy /\ facts' = facts /\ trust' = trust /\ child' = child
  BY DEF launch
<1>2. Policy' = Policy
  BY <1>1 DEF Policy, child_policy
<1>3. (policy_evaluate_tool(Policy, c))' = policy_evaluate_tool(Policy, c)
  BY <1>1, <1>2 DEF policy_evaluate_tool, evaluate_job, evaluate_shell_command
<1> QED
  BY <1>3 DEF evaluate_tool

(* Nothing ran in this step. *)
LEMMA NothingRan ==
    ASSUME Launched, UNCHANGED launch, ran' = None, child' \in {child, None}
    PROVE  Launched' /\ RanWell'
BY DEF Launched, RanWell, HumanOnlyAsked, ConsentCovers, NetworkIsGranted, ChildWithinDispatch, Ran, launch, None

(* What is remembered stays so while more is said. *)
LEMMA StillRemembered ==
    ASSUME Remembered, GrantedIsShown, UNCHANGED <<launch, Sessions, roots>>, said' = said
    PROVE  Remembered' /\ GrantedIsShown'
BY DEF Remembered, GrantedIsShown, shell_consent_identity, launch, Sessions

(* The call is over, whoever let it run. *)
LEMMA Over ==
    ASSUME Idle
    PROVE  Resting'
BY DEF Idle, Resting

LEMMA Parked ==
    ASSUME Launched, NEW c \in Calls, child = None, Park(c), UNCHANGED launch
    PROVE  Resting' /\ Launched' /\ RanWell'
<1>1. Launched' /\ RanWell'
  BY NothingRan DEF Park
<1>2. Resting'
  BY DEF Park, Resting, Some, None
<1> QED
  BY <1>1, <1>2

(* What was ruled out of a call stays so while the launch and the child do. *)
LEMMA StillAllowed ==
    ASSUME UNCHANGED <<launch, child>>, said \subseteq said', NEW c, NEW by
    PROVE  /\ MayRun(c, by) => MayRun(c, by)'
           /\ SaidOf(c, by) => SaidOf(c, by)'
<1>1. policy' = policy /\ facts' = facts /\ child' = child
  BY DEF launch
<1>2. (evaluate_tool(c))' = evaluate_tool(c)
  BY SamePlan
<1>3. ChildMay(c)' = ChildMay(c)
  BY <1>1, <1>2 DEF ChildMay
<1>4. MayRun(c, by) => MayRun(c, by)'
  BY <1>1, <1>2, <1>3 DEF MayRun
<1>5. \A x : (shell_consent_identity(x))' = shell_consent_identity(x)
  BY <1>1 DEF shell_consent_identity
<1>6. SaidOf(c, by) => SaidOf(c, by)'
  BY <1>5 DEF SaidOf
<1> QED
  BY <1>4, <1>6

(* A call that has somebody's leave waits to execute. *)
LEMMA LeaveGiven ==
    ASSUME Launched, NEW c \in Calls, NEW by, RunBy(c, by), MayRun(c, by), SaidOf(c, by), UNCHANGED launch,
           said \subseteq said'
    PROVE  Resting' /\ Launched' /\ RanWell'
<1>1. step' = "run" /\ leave' = by /\ call' = Some(c) /\ ran' = None /\ child' = child
  BY DEF RunBy
<1>2. Launched' /\ RanWell'
  BY <1>1, NothingRan
<1>3. MayRun(c, by)' /\ SaidOf(c, by)'
  BY <1>1, StillAllowed
<1>4. call'[1] = c /\ call' # None
  BY <1>1 DEF Some, None
<1>5. MayRun(call[1], leave)' /\ SaidOf(call[1], leave)'
  BY <1>1, <1>3, <1>4 DEF MayRun, SaidOf
<1>6. Resting'
  BY <1>1, <1>4, <1>5 DEF Resting
<1> QED
  BY <1>2, <1>6

(* A call let out by a session's consent: a person has said yes to its like. *)
LEMMA LeaveByConsent ==
    ASSUME Launched, Remembered, NEW c \in Calls, NEW by \in {"session_tool", "session_shell"},
           Consented(c, evaluate_tool(c)) = by
    PROVE  MayRun(c, by) /\ SaidOf(c, by)
<1> DEFINE plan == evaluate_tool(c)
           key == shell_consent_key(c)
<1>1. PlanSays(c)
  BY PolicyNetwork, PlanOfTool
<1>2. /\ ~requires_human(plan) /\ child = None
      /\ by = "session_tool" => c.name \in session_approved
      /\ by = "session_shell" => key # None /\ key[1] \in session_trusted_shell_prefixes
  BY DEF Consented
<1>3. by = "session_tool" => shell_command_of(c) = None
  BY <1>2 DEF Remembered, session_allowable, shell_command_of
<1>4. MayRun(c, by)
  BY <1>1, <1>2, <1>3 DEF MayRun, PlanSays
<1>5. ASSUME by = "session_tool" PROVE SaidOf(c, by)
  <2>1. \E x \in Calls : (\E s \in said : s.call = x) /\ x.name = c.name
    BY <1>2, <1>5 DEF Remembered
  <2> QED
    BY <2>1, <1>5 DEF SaidOf
<1>6. ASSUME by = "session_shell" PROVE SaidOf(c, by)
  <2>1. /\ shell_consent_identity(c) # None
        /\ key[1] = <<shell_consent_identity(c)[1], network_requested(c)>>
    BY <1>2, <1>6 DEF shell_consent_key, Some, None
  <2>2. shell_consent_identity(c) = Some(shell_consent_identity(c)[1])
    BY <2>1, IdentityIsOption DEF Launched
  <2>3. PICK s \in said : /\ s.call \in Calls /\ shell_consent_identity(s.call) = Some(key[1][1])
                          /\ key[1][2] => network_requested(s.call)
    BY <1>2, <1>6 DEF Remembered
  <2>4. /\ shell_consent_identity(s.call) = shell_consent_identity(c)
        /\ network_requested(c) => network_requested(s.call)
    BY <2>1, <2>2, <2>3
  <2> QED
    BY <2>3, <2>4, <1>6 DEF SaidOf
<1> QED
  BY <1>4, <1>5, <1>6

LEMMA ProposeKeeps ==
    ASSUME GateInv, NEW c \in Calls, Propose(c)
    PROVE  GateInv'
<1> DEFINE plan == evaluate_tool(c)
           who == Consented(c, plan)
<1>1. Launched /\ Remembered /\ GrantedIsShown /\ UNCHANGED launch /\ said' = said /\ UNCHANGED <<Sessions, roots>>
  BY DEF GateInv, Propose, launch, Sessions
<1>2. Remembered' /\ GrantedIsShown'
  BY <1>1, StillRemembered
<1>3. PlanSays(c)
  BY <1>1, PolicyNetwork, PlanOfTool
<1>4. who \in {"none", "config", "session_tool", "session_shell", "mode"} /\ (who # "none" => child = None /\ ~requires_human(plan))
  BY DEF Consented
<1>5. Resting' /\ Launched' /\ RanWell'
  <2>1. CASE ran' = None /\ Idle /\ UNCHANGED child
    BY <2>1, <1>1, NothingRan, Over
  <2>2. CASE ~requires_approval(plan) /\ RunBy(c, "policy")
    <3>1. MayRun(c, "policy") /\ SaidOf(c, "policy")
      BY <2>2, <1>3 DEF MayRun, SaidOf, PlanSays, requires_human, requires_approval, Policy
    <3> QED
      BY <3>1, <2>2, <1>1, LeaveGiven
  <2>3. CASE who = "mode" /\ step' = "mode" /\ call' = Some(c) /\ ran' = None /\ UNCHANGED <<leave, target, child>>
    <3>1. child = None /\ ~requires_human(plan)
      BY <2>3, <1>4
    <3>2. (evaluate_tool(c))' = plan
      BY <2>3, <1>1, SamePlan
    <3>3. call'[1] = c /\ call' # None /\ child' = None /\ step' = "mode"
      BY <2>3, <3>1 DEF Some, None
    <3>4. Resting'
      BY <3>1, <3>2, <3>3 DEF Resting
    <3> QED
      BY <2>3, <3>4, <1>1, NothingRan
  <2>4. CASE who = "config" /\ RunBy(c, "config")
    <3>1. MayRun(c, "config") /\ SaidOf(c, "config")
      BY <2>4, <1>4 DEF MayRun, SaidOf
    <3> QED
      BY <3>1, <2>4, <1>1, LeaveGiven
  <2>5. CASE who \in {"session_tool", "session_shell"} /\ RunBy(c, who)
    <3>1. MayRun(c, who) /\ SaidOf(c, who)
      BY <2>5, <1>1, LeaveByConsent
    <3> QED
      BY <3>1, <2>5, <1>1, LeaveGiven
  <2>6. CASE child # None /\ ChildMay(c) /\ RunBy(c, "dispatch")
    <3>1. classify_tool(c.name) \in {"WriteFile", "Network"} \/ ~requires_approval(plan)
      BY <2>6 DEF ChildMay
    <3>2. ~requires_human(plan)
      BY <3>1, <1>3, KindOfName DEF PlanSays, shell_command_of, is_root_grant, requires_human
    <3>3. MayRun(c, "dispatch") /\ SaidOf(c, "dispatch")
      BY <3>2, <2>6 DEF MayRun, SaidOf
    <3> QED
      BY <3>3, <2>6, <1>1, LeaveGiven
  <2>7. CASE child = None /\ Park(c)
    BY <2>7, <1>1, Parked
  <2> QED
    BY <2>1, <2>2, <2>3, <2>4, <2>5, <2>6, <2>7, <1>4 DEF Propose
<1> QED
  BY <1>2, <1>5 DEF GateInv

LEMMA ReadModeKeeps ==
    ASSUME GateInv, ReadMode
    PROVE  GateInv'
<1> DEFINE c == call[1]
           plan == evaluate_tool(c)
           who == ModeSays(c, plan)
<1>1. Launched /\ Remembered /\ GrantedIsShown /\ UNCHANGED launch /\ said' = said /\ UNCHANGED <<Sessions, roots>>
  BY DEF GateInv, ReadMode, launch, Sessions
<1>2. Remembered' /\ GrantedIsShown'
  BY <1>1, StillRemembered
<1>3. c \in Calls /\ call # None /\ child = None /\ ~requires_human(plan)
  BY DEF GateInv, Resting, ReadMode
<1>4. PlanSays(c) /\ Policy = policy
  BY <1>1, <1>3, PolicyNetwork, PlanOfTool DEF Policy
<1>5. /\ who \in {"none", "yolo", "accept_edits", "judge"}
      /\ who \in {"accept_edits", "judge"} => ~network_requested(c)
  BY DEF ModeSays, accept_edits_approvable
<1>6. Resting' /\ Launched' /\ RanWell'
  <2>1. CASE who = "none"
    BY <2>1, <1>1, <1>3, Parked DEF ReadMode
  <2>2. CASE who = "judge"
    <3>1. step' = "judge" /\ ran' = None /\ call' = call /\ child' = child
      BY <2>2 DEF ReadMode
    <3>2. (evaluate_tool(c))' = plan
      BY <3>1, <1>1, SamePlan
    <3>3. Resting'
      BY <3>1, <3>2, <2>2, <1>3, <1>5 DEF Resting
    <3> QED
      BY <3>1, <3>3, <1>1, NothingRan
  <2>3. CASE who \in {"yolo", "accept_edits"}
    <3>1. RunBy(c, who)
      BY <2>3 DEF ReadMode
    <3>2. MayRun(c, who) /\ SaidOf(c, who)
      BY <2>3, <1>3, <1>4, <1>5 DEF MayRun, SaidOf, PlanSays
    <3> QED
      BY <3>1, <3>2, <1>1, <1>3, LeaveGiven
  <2> QED
    BY <2>1, <2>2, <2>3, <1>5
<1> QED
  BY <1>2, <1>6 DEF GateInv

LEMMA JudgeKeeps ==
    ASSUME GateInv, NEW r \in Replies, Judge(r)
    PROVE  GateInv'
<1> DEFINE c == call[1]
<1>1. Launched /\ Remembered /\ GrantedIsShown /\ UNCHANGED launch /\ said' = said /\ UNCHANGED <<Sessions, roots>>
  BY DEF GateInv, Judge, launch, Sessions
<1>2. Remembered' /\ GrantedIsShown'
  BY <1>1, StillRemembered
<1>3. c \in Calls /\ child = None /\ ~requires_human(evaluate_tool(c)) /\ ~network_requested(c)
  BY DEF GateInv, Resting, Judge
<1>4. PlanSays(c) /\ Policy = policy
  BY <1>1, <1>3, PolicyNetwork, PlanOfTool DEF Policy
<1>5. MayRun(c, "judge") /\ SaidOf(c, "judge")
  BY <1>3, <1>4 DEF MayRun, SaidOf, PlanSays
<1>6. CASE approves(r)
  <2>1. RunBy(c, "judge")
    BY <1>6 DEF Judge
  <2> QED
    BY <2>1, <1>1, <1>2, <1>3, <1>5, LeaveGiven DEF GateInv
<1>7. CASE ~approves(r)
  BY <1>1, <1>2, <1>3, <1>7, Parked DEF Judge, GateInv
<1> QED
  BY <1>6, <1>7

LEMMA AnswerKeeps ==
    ASSUME GateInv, NEW decision \in {"denied", "approved", "approved_for_session"}, Answer(decision)
    PROVE  GateInv'
<1> DEFINE c == call[1]
           key == shell_consent_key(c)
           id == shell_consent_identity(c)
           session == decision = "approved_for_session" /\ ~requires_human(evaluate_tool(c))
           heard == [call |-> c, shown |-> target]
<1>1. Launched /\ Remembered /\ GrantedIsShown /\ UNCHANGED launch
  BY DEF GateInv, Answer, launch
<1>2. c \in Calls /\ child = None /\ facts' = facts /\ facts = Facts
  BY <1>1 DEF GateInv, Resting, Answer, launch, Launched
<1>3. said \subseteq said' /\ heard.call = c /\ heard.shown = target
  BY DEF Answer
<1>4. Resting' /\ Launched' /\ RanWell'
  <2>1. CASE ran' = None /\ Idle /\ UNCHANGED child
    BY <2>1, <1>1, NothingRan, Over
  <2>2. CASE RunBy(c, "person")
    <3>1. MayRun(c, "person") /\ SaidOf(c, "person")
      BY <1>2 DEF MayRun, SaidOf
    <3> QED
      BY <3>1, <2>2, <1>1, <1>2, <1>3, LeaveGiven
  <2> QED
    BY <2>1, <2>2 DEF Answer
<1>5. ASSUME NEW n \in session_approved'
      PROVE  session_allowable(n) /\ \E s \in said' : s.call \in Calls /\ s.call.name = n
  <2>1. CASE n \in session_approved
    BY <2>1, <1>1, <1>3 DEF Remembered
  <2>2. CASE n \notin session_approved
    <3>1. n = c.name /\ session_allowable(n) /\ heard \in said'
      BY <2>2, <1>5 DEF Answer
    <3> QED
      BY <3>1, <1>2, <1>3
  <2> QED
    BY <2>1, <2>2
<1>6. ASSUME NEW k \in session_trusted_shell_prefixes'
      PROVE  \E s \in said' : /\ s.call \in Calls /\ shell_consent_identity(s.call) = Some(k[1])
                              /\ k[2] => network_requested(s.call)
  <2>1. CASE k \in session_trusted_shell_prefixes
    BY <2>1, <1>1, <1>3 DEF Remembered
  <2>2. CASE k \notin session_trusted_shell_prefixes
    <3>1. key # None /\ k \in {key[1], <<key[1][1], FALSE>>} /\ heard \in said'
      BY <2>2, <1>6 DEF Answer
    <3>2. id # None /\ key[1] = <<id[1], network_requested(c)>>
      BY <3>1 DEF shell_consent_key, Some, None
    <3>3. id = Some(id[1])
      BY <3>2, <1>2, IdentityIsOption
    <3>4. k[1] = id[1] /\ (k[2] => network_requested(c))
      <4>1. CASE k = key[1]
        <5>1. k[1] = id[1] /\ k[2] = network_requested(c)
          BY <4>1, <3>2
        <5> QED
          BY <5>1
      <4>2. CASE k = <<key[1][1], FALSE>>
        <5>1. k[1] = id[1] /\ k[2] = FALSE
          BY <4>2, <3>2
        <5> QED
          BY <5>1
      <4> QED
        BY <3>1, <4>1, <4>2
    <3> QED
      BY <3>1, <3>3, <3>4, <1>2, <1>3
  <2> QED
    BY <2>1, <2>2
<1>7. \A x : (shell_consent_identity(x))' = shell_consent_identity(x)
  BY <1>2 DEF shell_consent_identity
<1>8. Remembered'
  BY <1>5, <1>6, <1>7 DEF Remembered
<1>9. GrantedIsShown'
  <2>1. CASE roots' = roots
    BY <2>1, <1>1, <1>3 DEF GrantedIsShown
  <2>2. CASE roots' # roots
    <3>1. /\ decision # "denied" /\ is_root_grant(c.name) /\ Resolved(c) # None /\ target = Resolved(c)
          /\ roots' = roots \cup {target[1]}
      BY <2>2 DEF Answer, apply_root_grant
    <3>2. heard \in said'
      BY <3>1 DEF Answer
    <3>3. target = Some(target[1])
      BY <3>1 DEF Resolved, Some
    <3> QED
      BY <3>1, <3>2, <3>3, <1>1, <1>3 DEF GrantedIsShown
  <2> QED
    BY <2>1, <2>2
<1> QED
  BY <1>4, <1>8, <1>9 DEF GateInv

(* The call that had leave executes: its plan is made anew. *)
LEMMA ExecuteKeeps ==
    ASSUME GateInv, Execute
    PROVE  GateInv'
<1> DEFINE c == call[1]
           auth == authority(leave)
<1>1. Launched /\ Remembered /\ GrantedIsShown /\ UNCHANGED launch /\ said' = said /\ UNCHANGED <<Sessions, roots>> /\ Idle
  BY DEF GateInv, Execute, launch, Sessions
<1>2. Remembered' /\ GrantedIsShown'
  BY <1>1, StillRemembered
<1>3. c \in Calls /\ MayRun(c, leave) /\ SaidOf(c, leave)
  BY DEF GateInv, Resting, Execute
<1>4. PlanSays(c)
  BY <1>1, PolicyNetwork, PlanOfTool
<1>5. Outcome(c, leave, auth)
  BY <1>4, Executed DEF Execute
<1>6. HumanOnlyAsked' /\ NetworkIsGranted' /\ ChildWithinDispatch' /\ Launched'
  BY <1>1, <1>3, <1>4, <1>5, RunsWell
<1>7. facts' = facts
  BY <1>1 DEF launch
<1>8. \A x : (shell_consent_identity(x))' = shell_consent_identity(x)
  BY <1>7 DEF shell_consent_identity
<1>9. ran' # None => /\ ran'[1].by = leave /\ ran'[1].call = c
                     /\ leave = "session_shell" => ran'[1].authority = "parse"
  BY <1>5 DEF Outcome, authority
<1>10. ConsentCovers'
  BY <1>1, <1>3, <1>8, <1>9 DEF ConsentCovers, SaidOf, Ran
<1> QED
  BY <1>1, <1>2, <1>6, <1>10, Over DEF RanWell, GateInv

(* The steps in which no call moves. *)
LEMMA OthersKeep ==
    ASSUME GateInv, ChildReturns \/ cycle \/ (\E q \in Paths : Relink(q)) \/ UNCHANGED gateVars
    PROVE  GateInv'
<1>1. Launched /\ Resting /\ Remembered /\ GrantedIsShown /\ RanWell
  BY DEF GateInv
<1>2. /\ UNCHANGED <<launch, Sessions, roots>> /\ said' = said /\ UNCHANGED <<step, leave, call>>
      /\ (child' = child /\ ran' = ran) \/ (step = "idle" /\ child' = None /\ ran' = None)
  BY DEF ChildReturns, cycle, Relink, gateVars, launch, Sessions
<1>3. Remembered' /\ GrantedIsShown'
  BY <1>1, <1>2, StillRemembered
<1>4. CASE child' = child /\ ran' = ran
  <2>1. \A x : (evaluate_tool(x))' = evaluate_tool(x)
    BY <1>2, <1>4, SamePlan
  <2>2. Resting'
    <3>1. MayRun(call[1], leave) => MayRun(call[1], leave)'
      BY <1>2, <1>4, StillAllowed DEF MayRun
    <3>2. SaidOf(call[1], leave) => SaidOf(call[1], leave)'
      BY <1>2, <1>4, StillAllowed DEF SaidOf
    <3> QED
      BY <3>1, <3>2, <2>1, <1>1, <1>2, <1>4 DEF Resting
  <2>3. policy' = policy /\ facts' = facts /\ trust' = trust /\ said' = said
    BY <1>2 DEF launch
  <2>4. Launched' /\ RanWell'
    BY <2>3, <1>1, <1>4 DEF Launched, RanWell, HumanOnlyAsked, ConsentCovers, NetworkIsGranted, ChildWithinDispatch, Ran,
          shell_consent_identity
  <2> QED
    BY <2>2, <2>4, <1>3 DEF GateInv
<1>5. CASE step = "idle" /\ child' = None /\ ran' = None
  <2>1. Launched' /\ RanWell'
    BY <1>1, <1>2, <1>5, NothingRan
  <2>2. Resting'
    BY <1>2, <1>5 DEF Resting
  <2> QED
    BY <2>1, <2>2, <1>3 DEF GateInv
<1> QED
  BY <1>2, <1>4, <1>5

LEMMA GateStart ==
    ASSUME GateInit
    PROVE  GateInv
BY DEF GateInit, GateOn, GateInv, Launched, Resting, Remembered, GrantedIsShown, RanWell, HumanOnlyAsked, ConsentCovers,
       NetworkIsGranted, ChildWithinDispatch, Ran, None

LEMMA GateStep ==
    ASSUME GateInv, [GateNext]_gateVars
    PROVE  GateInv'
BY ProposeKeeps, ReadModeKeeps, JudgeKeeps, AnswerKeeps, ExecuteKeeps, OthersKeep DEF GateNext

-----------------------------------------------------------------------------
(* Theorems *)

CommandsInv == about \in {"gate", "roots"} => GateInv

LEMMA CommandsInvariant == CommandsSpec => []CommandsInv
<1>1. CommandsInit => CommandsInv
  BY GateStart DEF CommandsInit, CommandsInv
<1>2. CommandsInv /\ [CommandsNext]_commandVars => CommandsInv'
  <2> SUFFICES ASSUME CommandsInv, [CommandsNext]_commandVars PROVE CommandsInv'
    OBVIOUS
  <2>1. about' = about
    BY DEF CommandsNext, commandVars
  <2>2. about \in {"gate", "roots"} => [GateNext]_gateVars
    BY DEF CommandsInv, CommandsNext, commandVars
  <2> QED
    BY <2>1, <2>2, GateStep DEF CommandsInv
<1> QED
  BY <1>1, <1>2, PTL DEF CommandsSpec

(* Nothing runs past the person, whatever the calls, the policies, the allow  *)
(* list, the judge's replies and the changes of mode: what only a person may  *)
(* allow was answered for this very call, what a session's consent lets run   *)
(* is the like of a call a person saw and approved, and every granted root is *)
(* the directory that was shown.                                              *)
THEOREM ConsentIsGiven == CommandsSpec => []ConsentHolds
<1>1. CommandsInv => ConsentHolds
  BY DEF CommandsInv, ConsentHolds, GateInv, RanWell
<1> QED
  BY <1>1, CommandsInvariant, PTL

(* Authority handed on is never wider than it was: a child stays within the   *)
(* role, network and commands of the dispatch that a person or the policy     *)
(* approved, and the network is open only where the config or an approval     *)
(* opened it.                                                                 *)
THEOREM DispatchIsBounded == CommandsSpec => []DispatchHolds
<1>1. CommandsInv => DispatchHolds
  BY DEF CommandsInv, DispatchHolds, GateInv, RanWell
<1> QED
  BY <1>1, CommandsInvariant, PTL
=============================================================================
