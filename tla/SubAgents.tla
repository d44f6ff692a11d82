------------------------------ MODULE SubAgents ------------------------------
(***************************************************************************)
(* Sub-agents: the agent tool, which runs a child runtime to completion    *)
(* inside one tool call of the parent, and the ledger of children it       *)
(* shares with the other dispatches of the session.                        *)
(*                                                                         *)
(* The parent is here only as far as its dispatches need it: turns that    *)
(* follow each other, each with a cancel token, and one loop per turn,     *)
(* whose calls run one at a time unless the policy allows them outright.   *)
(* A superseded loop may still be inside a dispatch when the next turn     *)
(* makes its own.  The child's turn is a loop of its own that sends events *)
(* to the runner; its inside is TurnRuntime's business.                    *)
(***************************************************************************)
EXTENDS Integers, FiniteSets, Sequences

CONSTANTS
    MaxDispatch,         \* bound: dispatches ever made, numbered in the order they start
    MaxTurns,            \* bound: turns of the parent
    ConfiguredMax,       \* the max_concurrent the manager is made with
    HardMaxConcurrent,   \* HARD_MAX_CONCURRENT
    MaxRetainedAgents,   \* MAX_RETAINED_AGENTS
    MaxAgentSteps             \* DEFAULT_MAX_STEPS

ASSUME SubAgentAssumption ==
    /\ MaxDispatch \in Nat /\ MaxTurns \in Nat \ {0}
    /\ ConfiguredMax \in Nat /\ HardMaxConcurrent \in Nat \ {0}
    /\ MaxRetainedAgents \in Nat /\ MaxAgentSteps \in Nat \ {0}

VARIABLES
    turn,        \* the parent's current turn
    cancelled,   \* the parent's turns whose token is cancelled
    shutdown,    \* SubAgentServices.parent_cancel
    issued,      \* dispatches made so far
    agents,      \* SubAgentManager.agents: the dispatches it holds a record of
    record,      \* their records, by dispatch
    call,        \* where each dispatch of the agent tool is
    child        \* the child turn of each dispatch

subVars == <<turn, cancelled, shutdown, issued, agents, record, call, child>>

-----------------------------------------------------------------------------
(* Types *)

Dispatch == 1 .. MaxDispatch
Turn == 1 .. MaxTurns

Role == {"general", "implementer"}

Status == {"running", "completed", "failed", "cancelled"}

(* How a child's turn ends: with a report or without one, cancelled, failed, *)
(* or with its channel closed and no word of it.                             *)
Ending == {"finished", "silent", "cancelled", "error", "closed"}

(* What a dispatch comes to: the tool tells apart a report, the word         *)
(* "cancelled", and every other message.                                     *)
Reason == {"none", "report", "failed", "cancelled"}

Record == [role : Role, status : Status]

DispatchCall == [pc : {"idle", "check", "insert", "running", "grace", "settle", "drop", "returned"},
         turn : Turn, role : Role, steps : 0 .. MaxAgentSteps, why : Reason]

(* A child's turn: its loop, its cancel token, and whether the runner still  *)
(* has to answer an approval of it.                                          *)
Child == [loop : {"none", "live", "over"}, token : BOOLEAN, asks : BOOLEAN]

NoRecord == [role |-> "general", status |-> "running"]

NoCall == [pc |-> "idle", turn |-> 1, role |-> "general", steps |-> 0, why |-> "none"]

NoChild == [loop |-> "none", token |-> FALSE, asks |-> FALSE]

(* The state is well typed. *)
SubTypeOK ==
    /\ turn \in Turn /\ cancelled \subseteq Turn /\ shutdown \in BOOLEAN
    /\ issued \in 0 .. MaxDispatch
    /\ agents \subseteq Dispatch
    /\ record \in [Dispatch -> Record]
    /\ call \in [Dispatch -> DispatchCall]
    /\ child \in [Dispatch -> Child]

SubInit ==
    /\ turn = 1 /\ cancelled = {} /\ shutdown = FALSE /\ issued = 0
    /\ agents = {}
    /\ record = [d \in Dispatch |-> NoRecord]
    /\ call = [d \in Dispatch |-> NoCall]
    /\ child = [d \in Dispatch |-> NoChild]

-----------------------------------------------------------------------------
(* Roles and the ledger *)

allows_writes(role) == role = "implementer"

is_terminal(status) == status # "running"

MaxConcurrent == IF ConfiguredMax < 1 THEN 1
                 ELSE IF ConfiguredMax > HardMaxConcurrent THEN HardMaxConcurrent ELSE ConfiguredMax

Running == {d \in agents : record[d].status = "running"}

running_writers == {d \in Running : allows_writes(record[d].role)}

Mutevict_finished(A) ==
    {d \in A : Cardinality({e \in A : e < d}) + MaxRetainedAgents < Cardinality(A)}

(* The oldest finished records beyond the cap; a running one is never old    *)
(* enough to go.                                                             *)
evict_finished(A) ==
    LET old == {d \in A : is_terminal(record[d].status)} IN
    {d \in old : Cardinality({e \in old : e < d}) + MaxRetainedAgents < Cardinality(A)}

Finish(d, status) == record' = [record EXCEPT ![d].status = status]

-----------------------------------------------------------------------------
(* The parent *)

Go(d, c) == call' = [call EXCEPT ![d] = c]

(* The token of the tool call: its turn's, and the session's.                *)
Stopped(d) == call[d].turn \in cancelled \/ shutdown

Busy(t) == {d \in Dispatch : call[d].turn = t /\ call[d].pc \notin {"idle", "returned"}}

Mutis_parallel_safe(c) == TRUE

(* Only dispatches that the policy allows outright share a batch, never one  *)
(* of a writing role.  (One with network or a list of commands runs alone    *)
(* too; here it may also share.)                                             *)
is_parallel_safe(c) == ~allows_writes(c.role)

(* The loop of the current turn runs one more agent call: alone, or beside   *)
(* others that need no approval.                                             *)
Issue(role) ==
    LET c == [NoCall EXCEPT !.pc = "check", !.turn = turn, !.role = role]
        d == issued + 1
    IN  /\ issued < MaxDispatch /\ turn \notin cancelled
        /\ Busy(turn) = {} \/ \A e \in Busy(turn) : is_parallel_safe(call[e]) /\ is_parallel_safe(c)
        /\ issued' = d
        /\ Go(d, c)
        /\ UNCHANGED <<turn, cancelled, shutdown, agents, record, child>>

(* cancel_turn of the parent. *)
CancelParent ==
    /\ turn \notin cancelled
    /\ cancelled' = cancelled \cup {turn}
    /\ UNCHANGED <<turn, shutdown, issued, agents, record, call, child>>

(* begin_turn of the parent: the turn before it is superseded. *)
NextTurn ==
    /\ turn < MaxTurns
    /\ turn' = turn + 1
    /\ cancelled' = cancelled \cup {turn}
    /\ UNCHANGED <<shutdown, issued, agents, record, call, child>>

(* cancel_all_running: the session ends. *)
CancelAllRunning ==
    /\ ~shutdown
    /\ shutdown' = TRUE
    /\ record' = [d \in Dispatch |-> IF d \in Running THEN [record[d] EXCEPT !.status = "cancelled"]
                                     ELSE record[d]]
    /\ UNCHANGED <<turn, cancelled, issued, agents, call, child>>

-----------------------------------------------------------------------------
(* The agent tool *)

(* Writing children are serialized, by a look at the ledger... *)
Check(d) ==
    /\ call[d].pc = "check"
    /\ Go(d, [call[d] EXCEPT !.pc = IF allows_writes(call[d].role) /\ running_writers # {}
                                    THEN "returned" ELSE "insert"])
    /\ UNCHANGED <<turn, cancelled, shutdown, issued, agents, record, child>>

(* ...that it enters under another lock, unless it is full. *)
InsertAgent(d) ==
    /\ call[d].pc = "insert"
    /\ \/ /\ Cardinality(Running) >= MaxConcurrent
          /\ Go(d, [call[d] EXCEPT !.pc = "returned"])
          /\ UNCHANGED <<agents, record>>
       \/ /\ Cardinality(Running) < MaxConcurrent
          /\ record' = [record EXCEPT ![d] = [NoRecord EXCEPT !.role = call[d].role]]
          /\ agents' = (agents \cup {d}) \ evict_finished(agents \cup {d})
          /\ Go(d, [call[d] EXCEPT !.pc = "running"])
    /\ UNCHANGED <<turn, cancelled, shutdown, issued, child>>

(* The run future is polled for the first time: begin_turn of the child.     *)
StartChild(d) ==
    /\ call[d].pc \in {"running", "grace"} /\ child[d].loop = "none"
    /\ child' = [child EXCEPT ![d].loop = "live"]
    /\ UNCHANGED <<turn, cancelled, shutdown, issued, agents, record, call>>

(* cancel_turn of the child: nothing to cancel before its turn began. *)
CancelChild(d) == [child[d] EXCEPT !.token = @ \/ child[d].loop # "none"]

(* The other arm of the select: the wall clock, the parent's token or the    *)
(* end of the session.                                                       *)
Interrupt(d) ==
    /\ call[d].pc = "running"
    /\ \E why \in {"failed"} \cup (IF Stopped(d) THEN {"cancelled"} ELSE {}) :
          Go(d, [call[d] EXCEPT !.pc = "grace", !.why = why])
    /\ child' = [child EXCEPT ![d] = CancelChild(d)]
    /\ UNCHANGED <<turn, cancelled, shutdown, issued, agents, record>>

(* What the runner returned, seen by the tool: once it was interrupted, only *)
(* a report outweighs the reason for that.                                   *)
Outcome(d, why) == IF call[d].pc = "grace" /\ why # "report" THEN call[d].why ELSE why

Returns(d, why) == Go(d, [call[d] EXCEPT !.pc = "settle", !.why = Outcome(d, why), !.steps = 0])

Reads(d) == call[d].pc \in {"running", "grace"} /\ child[d].loop # "none"

MutLastStep(d) == call[d].steps > MaxAgentSteps

LastStep(d) == call[d].steps + 1 >= MaxAgentSteps

(* run_subagent, one event of the child's at a time: a call of the child is  *)
(* over, and the budget may be.  Leaving before the turn's last event drops  *)
(* the handle, which cancels the turn it owns.                               *)
ChildTool(d) ==
    /\ Reads(d) /\ child[d].loop = "live" /\ (child[d].asks => child[d].token)
    /\ \/ /\ ~LastStep(d)
          /\ Go(d, [call[d] EXCEPT !.steps = @ + 1])
          /\ UNCHANGED child
       \/ /\ LastStep(d)
          /\ Returns(d, "failed")
          /\ child' = [child EXCEPT ![d] = CancelChild(d)]
    /\ UNCHANGED <<turn, cancelled, shutdown, issued, agents, record>>

(* The child parks on an approval, which a cancelled turn does not... *)
ChildAsks(d) ==
    /\ Reads(d) /\ child[d].loop = "live" /\ ~child[d].asks /\ ~child[d].token
    /\ child' = [child EXCEPT ![d].asks = TRUE]
    /\ UNCHANGED <<turn, cancelled, shutdown, issued, agents, record, call>>

(* ...and the runner answers at once, by policy: too late if the turn was    *)
(* cancelled, which took the question away.                                  *)
Answer(d) ==
    /\ Reads(d) /\ child[d].asks
    /\ child' = [child EXCEPT ![d].asks = FALSE]
    /\ \/ ~child[d].token /\ UNCHANGED call
       \/ child[d].token /\ Returns(d, "failed")
    /\ UNCHANGED <<turn, cancelled, shutdown, issued, agents, record>>

(* The child's turn ends; a runner that still listens returns what it was.   *)
ChildEnds(d) ==
    /\ child[d].loop = "live" /\ (child[d].asks => child[d].token)
    /\ child' = [child EXCEPT ![d].loop = "over", ![d].asks = FALSE]
    /\ \/ /\ Reads(d)
          /\ \E e \in {f \in Ending : f = "cancelled" => child[d].token} :
                Returns(d, CASE e = "finished" -> "report" [] e = "cancelled" -> e [] OTHER -> "failed")
       \/ ~Reads(d) /\ UNCHANGED call
    /\ UNCHANGED <<turn, cancelled, shutdown, issued, agents, record>>

(* The run future panics: caught, its handle dropped on the way. *)
RunnerPanics(d) ==
    /\ Reads(d)
    /\ Returns(d, "failed")
    /\ child' = [child EXCEPT ![d].token = TRUE]
    /\ UNCHANGED <<turn, cancelled, shutdown, issued, agents, record>>

MutGraceExpires(d) ==
    /\ call[d].pc = "grace" /\ child[d].loop = "over"
    /\ Go(d, [call[d] EXCEPT !.pc = "settle", !.steps = 0])
    /\ UNCHANGED <<turn, cancelled, shutdown, issued, agents, record, child>>

(* CANCEL_GRACE is over and the child has not answered its cancellation.     *)
GraceExpires(d) ==
    /\ call[d].pc = "grace"
    /\ Go(d, [call[d] EXCEPT !.pc = "settle", !.steps = 0])
    /\ UNCHANGED <<turn, cancelled, shutdown, issued, agents, record, child>>

(* After the child's jobs are shut down and its spend is reported:           *)
(* finalize_success, mark_cancelled or finalize_failure.  A record that was  *)
(* evicted meanwhile is not found.                                           *)
Finalize(d) ==
    /\ call[d].pc = "settle"
    /\ CASE d \notin agents -> UNCHANGED record
         [] d \in agents /\ call[d].why = "report" -> Finish(d, "completed")
         [] d \in agents /\ call[d].why = "cancelled" ->
              IF is_terminal(record[d].status) THEN UNCHANGED record ELSE Finish(d, "cancelled")
         [] OTHER -> Finish(d, "failed")
    /\ Go(d, [call[d] EXCEPT !.pc = "drop"])
    /\ UNCHANGED <<turn, cancelled, shutdown, issued, agents, child>>

MutDropRun(d) == child[d]

(* The run future that was never finished goes with the call, and with it    *)
(* the handle that owns the child's turn.                                    *)
DropRun(d) == [child[d] EXCEPT !.token = TRUE, !.asks = FALSE]

Return(d) ==
    /\ call[d].pc = "drop"
    /\ child' = [child EXCEPT ![d] = DropRun(d)]
    /\ Go(d, [call[d] EXCEPT !.pc = "returned", !.why = "none"])
    /\ UNCHANGED <<turn, cancelled, shutdown, issued, agents, record>>

-----------------------------------------------------------------------------
SubNext ==
    \/ \E role \in Role : Issue(role)
    \/ CancelParent \/ NextTurn \/ CancelAllRunning
    \/ \E d \in Dispatch :
          \/ Check(d) \/ InsertAgent(d) \/ StartChild(d) \/ Interrupt(d)
          \/ ChildTool(d) \/ ChildAsks(d) \/ Answer(d) \/ ChildEnds(d)
          \/ RunnerPanics(d) \/ GraceExpires(d) \/ Finalize(d) \/ Return(d)

SubSpec == SubInit /\ [][SubNext]_subVars

(* The tool's own code runs on, and its two timers fire; nothing is asked of *)
(* the child.                                                                *)
SubFairness ==
    \A d \in Dispatch :
        /\ WF_subVars(Check(d)) /\ WF_subVars(InsertAgent(d))
        /\ WF_subVars(Interrupt(d)) /\ WF_subVars(GraceExpires(d))
        /\ WF_subVars(Finalize(d)) /\ WF_subVars(Return(d))

SubFairSpec == SubSpec /\ SubFairness

-----------------------------------------------------------------------------
(* Properties *)

UnderWay(d) == call[d].pc \in {"running", "grace", "settle"}

(* While the session lasts, the ledger lists every dispatch that is under    *)
(* way as running, whatever other dispatches finished, were evicted or were  *)
(* abandoned beside it, and no more of them than the cap.                    *)
RunningIsListed ==
    ~shutdown => /\ \A d \in Dispatch : UnderWay(d) => d \in agents /\ record[d].status = "running"
                 /\ Cardinality({d \in Dispatch : UnderWay(d)}) <= MaxConcurrent

(* Two writing children never run for the sake of calls that are both still  *)
(* wanted: the check and the insert are two locks apart, but no two writing  *)
(* dispatches of one turn overlap and a superseded turn's is cancelled.      *)
WritersSerialized ==
    \A d, e \in Dispatch :
       /\ d # e /\ UnderWay(d) /\ UnderWay(e)
       /\ allows_writes(call[d].role) /\ allows_writes(call[e].role)
       => Stopped(d) \/ Stopped(e)

(* No child outlives its call uncancelled: whichever way the dispatch ended  *)
(* (a report, the step limit, a panic, an interruption before the child's    *)
(* turn had even begun, a grace period that ran out), the child's loop is    *)
(* over or its token is cancelled when the call returns.                     *)
ReturnedIsStopped ==
    \A d \in Dispatch :
       call[d].pc = "returned" => child[d].loop # "live" \/ child[d].token

(* The ledger lists every dispatch that is under way, no two writers run     *)
(* for calls that are both still wanted although the check and the insert    *)
(* are two locks apart, and no child outlives its call uncancelled.          *)
(* (AgentTool::run, SubAgentManager)                                         *)
ChildrenHold == RunningIsListed /\ WritersSerialized /\ ReturnedIsStopped

(* Every dispatch returns, whatever its child does or fails to do. *)
DispatchReturns == \A d \in Dispatch : call[d].pc = "check" ~> call[d].pc = "returned"
=============================================================================
