-------------------------- MODULE TurnRuntimeCalls --------------------------
(***************************************************************************)
(* The tool calls of a turn, for every set of turns and every bound: a     *)
(* call runs once, only with the consent it was asked for, and never after *)
(* the transcript says it was cancelled.                                   *)
(*                                                                         *)
(* The argument is one about order.  A turn works through its calls in the *)
(* order of their steps and of their places in a reply, and never goes     *)
(* back, whatever parks, resumes, cancels and supersedes the batch: CallInv *)
(* says of every call that was started, asked about or answered that it    *)
(* lies before the place the turn's task has reached.                      *)
(*                                                                         *)
(* The last section shows that the runtime implements TurnContract, what   *)
(* the holder of a turn's handle may rely on.                              *)
(***************************************************************************)
EXTENDS TurnRuntimeSafety

-----------------------------------------------------------------------------
(* The inductive invariant *)

(* The pcs between spend_step and push_assistant. *)
Replying == Paid \cup {"stream", "push"}

(* The pcs of a batch and of what is left of it. *)
Batching == {"batch", "run", "exec", "gate", "park", "parked", "channel", "answer",
             "record", "resume", "drop"}

(* A call is put to the user: parked, or answered and not yet decided.      *)
Asking(c) == c.pc \in {"parked", "channel", "answer"} \/ (c.pc = "run" /\ c.auth \in {"human", "denied"})

(* Call k of step s lies before place lim of what task c does next, for a   *)
(* budget that stands at b.                                                 *)
Before(t, c, b, s, k, lim) ==
    /\ b.turn = t => s <= b.steps
    /\ c.pc \in Replying => s < c.step
    /\ c.pc \in Batching => (s < c.step \/ (s = c.step /\ k < lim))

(* Calls before this one may have been started... *)
StartedTo(c) == IF c.pc \in {"run", "exec", "record"} THEN c.at ELSE c.k

(* ...and before this one asked about. *)
AskedTo(c) ==
    IF \/ Asking(c) \/ c.pc = "drop"
       \/ c.pc \in {"exec", "record"} /\ c.auth \in {"human", "denied"}
    THEN c.k + 1 ELSE c.k

(* The group of calls a task works on. *)
Group(c) ==
    /\ c.pc \in {"gate", "park", "parked", "channel", "answer"} => c.at = c.k /\ c.hi = c.k
    /\ c.pc = "run" => c.k <= c.at /\ c.at <= c.hi
    /\ c.pc \in {"run", "exec", "record"} /\ c.auth # "none" => c.hi = c.k
    /\ c.pc = "exec" => c.k < c.at
    /\ c.pc \in {"exec", "record"} => c.k <= c.hi /\ c.at <= c.hi + 1
    /\ c.auth # "none" => c.pc \in {"channel", "answer", "run", "exec", "record"}
    /\ c.pc \in {"channel", "answer"} => c.auth \in {"human", "denied"}

Groups ==
    \A t \in Turn : Group(task[t]) /\ (turn_budget.turn = t => task[t].step <= turn_budget.steps)

(* A turn that is not driven yet has no calls. *)
NoCallsYet ==
    \A t \in Turn : boot[t].pc # "done" =>
        /\ ran[t] = <<>> /\ task[t].step = 0
        /\ \A a \in raised : a.turn # t
        /\ \A i \in 1..Len(entries) : entries[i].turn = t => entries[i].res = <<>>

RanBefore ==
    \A t \in Turn : \A i \in 1..Len(ran[t]) :
        Before(t, task[t], turn_budget, ran[t][i].step, ran[t][i].k, StartedTo(task[t]))

AnsweredBefore ==
    \A t \in Turn : \A i \in 1..Len(entries) : entries[i].turn = t =>
        \A k \in DOMAIN entries[i].res : entries[i].res[k] # "pending" =>
            Before(t, task[t], turn_budget, entries[i].n, k, task[t].k)

RaisedBefore ==
    \A t \in Turn : \A a \in raised : a.turn = t =>
        Before(t, task[t], turn_budget, a.step, a.k, AskedTo(task[t]))

RequestOf(t) == [turn |-> t, ask |-> task[t].ask, step |-> task[t].step, k |-> task[t].k]

(* The request a task waits on is the only one about its call, and its id   *)
(* is its own.                                                              *)
RequestIsOwn ==
    /\ \A a \in raised : /\ a.ask <= asks[a.turn]
                         /\ task[a.turn].pc = "park" => a.ask < task[a.turn].ask
    /\ \A t \in Turn :
        /\ task[t].pc = "park" => task[t].ask <= asks[t]
        /\ pending.turn = t => pending.ask = task[t].ask
        /\ Asking(task[t]) =>
             /\ RequestOf(t) \in raised
             /\ \A a \in raised : a.turn = t /\ a.step = task[t].step /\ a.k = task[t].k
                                   => a = RequestOf(t)
    /\ \A a, b \in raised : a.turn = b.turn /\ a.ask = b.ask => a = b

AnswersTo(xs, t, ask) == {x \in xs : x.turn = t /\ x.ask = ask}

Yes(t, ask) == [turn |-> t, ask |-> ask, decision |-> "approved"]

(* A request waits for its only answer, and a call approved by a human is   *)
(* one whose request was answered so.                                       *)
AnswersAreOwn ==
    /\ \A x \in answered : \E a \in raised : a.turn = x.turn /\ a.ask = x.ask
    /\ \A t \in Turn :
        /\ task[t].pc = "parked" => AnswersTo(answered, t, task[t].ask) = {}
        /\ Asking(task[t]) /\ task[t].auth = "human" =>
             AnswersTo(answered, t, task[t].ask) = {Yes(t, task[t].ask)}

CallInv ==
    /\ Inv /\ Groups /\ NoCallsYet /\ RanBefore /\ AnsweredBefore /\ RaisedBefore
    /\ RequestIsOwn /\ AnswersAreOwn
    /\ CallsRunOnce /\ HumanConsent /\ CancelledCallNeverRan

-----------------------------------------------------------------------------
(* A task never goes back *)

Budget == [turn : Turn \cup {NoTurn}, steps : Nat, wrap_up_sent : BOOLEAN, overflow_rescued : BOOLEAN]

(* What lay before c, for a budget b, lies before d, for a budget e. *)
Passes(t, c, d, b, e) ==
    \A s, k \in Nat :
        /\ Before(t, c, b, s, k, StartedTo(c)) => Before(t, d, e, s, k, StartedTo(d))
        /\ Before(t, c, b, s, k, c.k) => Before(t, d, e, s, k, d.k)
        /\ Before(t, c, b, s, k, AskedTo(c)) => Before(t, d, e, s, k, AskedTo(d))

Advances(t, c, d, b, e) ==
    /\ Passes(t, c, d, b, e) /\ Group(d)
    /\ e.turn = t => d.step <= e.steps

(* The budget stays with its turn and is only ever counted up. *)
Counts(b, e) == e.turn = b.turn /\ e.steps >= b.steps

LEMMA NumberFields ==
    ASSUME NEW c \in Task
    PROVE  /\ c.k \in Nat /\ c.hi \in Nat /\ c.at \in Nat /\ c.step \in Nat /\ c.ask \in Nat
           /\ c.auth \in Authority /\ c.pc \in TaskPc
           /\ AskedTo(c) \in Nat /\ StartedTo(c) \in Nat
  BY DEF Task, AskedTo, StartedTo

(* Out of the batch, or out of the reply. *)
LEMMA AdvanceOut ==
    ASSUME NEW t \in Turn, NEW c \in Task, NEW d \in Task, NEW b \in Budget, NEW e \in Budget,
           Counts(b, e), b.turn = t => c.step <= b.steps,
           d.pc \notin Replying \cup Batching, d.auth = "none", d.step \in {0, c.step}
    PROVE  Advances(t, c, d, b, e)
<1> b.steps \in Nat /\ e.steps \in Nat
  BY DEF Budget
<1>1. Passes(t, c, d, b, e)
  BY DEF Passes, Before, Counts
<1>2. Group(d)
  BY DEF Group, Batching
<1>3. e.turn = t => d.step <= e.steps
  BY NumberFields DEF Counts
<1> QED
  BY <1>1, <1>2, <1>3 DEF Advances

(* On within a reply, or from spend_step to its first check. *)
LEMMA AdvanceReply ==
    ASSUME NEW t \in Turn, NEW c \in Task, NEW d \in Task, NEW b \in Budget, NEW e \in Budget,
           Counts(b, e), b.turn = t => c.step <= b.steps,
           d.pc \in Replying \cup {"batch"}, d.auth = "none",
           \/ c.pc \in Replying /\ d.step = c.step
           \/ d.pc = "check" /\ b.turn = t /\ d.step = b.steps + 1 /\ e.steps = b.steps + 1
    PROVE  Advances(t, c, d, b, e)
<1> b.steps \in Nat /\ e.steps \in Nat
  BY DEF Budget
<1>1. Passes(t, c, d, b, e)
  BY NumberFields DEF Passes, Before, Counts, Replying, Paid, Batching
<1>2. Group(d)
  BY DEF Group, Replying, Paid
<1>3. e.turn = t => d.step <= e.steps
  BY NumberFields DEF Counts
<1> QED
  BY <1>1, <1>2, <1>3 DEF Advances

(* On within a batch. *)
LEMMA AdvanceBatch ==
    ASSUME NEW t \in Turn, NEW c \in Task, NEW d \in Task, NEW b \in Budget, NEW e \in Budget,
           Counts(b, e), b.turn = t => c.step <= b.steps,
           c.pc \in Batching, d.pc \in Batching, d.step = c.step, d.k >= c.k,
           StartedTo(d) >= StartedTo(c), AskedTo(d) >= AskedTo(c), Group(d)
    PROVE  Advances(t, c, d, b, e)
<1> b.steps \in Nat /\ e.steps \in Nat
  BY DEF Budget
<1>0. c.pc \notin Replying /\ d.pc \notin Replying
  BY DEF Replying, Paid, Batching
<1>1. Passes(t, c, d, b, e)
  BY <1>0, NumberFields DEF Passes, Before, Counts
<1>3. e.turn = t => d.step <= e.steps
  BY NumberFields DEF Counts
<1> QED
  BY <1>1, <1>3 DEF Advances

-----------------------------------------------------------------------------
(* What the edits of a task leave of it *)

(* d is c at another pc. *)
Keeps(d, c) ==
    /\ d.k = c.k /\ d.hi = c.hi /\ d.at = c.at /\ d.step = c.step
    /\ d.auth = c.auth /\ d.ask = c.ask

LEMMA TaskEdits ==
    ASSUME TypeOK, NEW t \in Turn
    PROVE  /\ \A d : Become(t, d) => task'[t] = d /\ \A u \in Turn \ {t} : task'[u] = task[u]
           /\ \A pc : Goto(t, pc) => task'[t].pc = pc /\ Keeps(task'[t], task[t])
           /\ \A pc : Leave(t, pc) => task'[t].pc = pc /\ task'[t].auth = "none" /\ task'[t].step = 0
           /\ End(t) => task'[t].pc = "done" /\ task'[t].auth = "none" /\ task'[t].step = 0
           /\ Become(t, Dropping(task[t])) =>
                /\ task'[t].pc = "drop" /\ task'[t].auth = "none"
                /\ task'[t].step = task[t].step /\ task'[t].k = task[t].k
<1>0. task[t] \in Task /\ task \in [Turn -> Task]
  BY DEF TypeOK, TasksType
<1>1. \A d : Become(t, d) => task'[t] = d /\ \A u \in Turn \ {t} : task'[u] = task[u]
  BY <1>0 DEF Become
<1>2. \A pc : Goto(t, pc) => task'[t].pc = pc /\ Keeps(task'[t], task[t])
  BY <1>0, <1>1 DEF Goto, Keeps, Task
<1>3. \A pc : Leave(t, pc) => task'[t].pc = pc /\ task'[t].auth = "none" /\ task'[t].step = 0
  BY <1>1 DEF Leave, Fresh
<1>4. End(t) => task'[t].pc = "done" /\ task'[t].auth = "none" /\ task'[t].step = 0
  BY <1>1 DEF End, Fresh
<1>5. Become(t, Dropping(task[t])) =>
        /\ task'[t].pc = "drop" /\ task'[t].auth = "none"
        /\ task'[t].step = task[t].step /\ task'[t].k = task[t].k
  <2>1. /\ Dropping(task[t]).pc = "drop" /\ Dropping(task[t]).auth = "none"
        /\ Dropping(task[t]).step = task[t].step /\ Dropping(task[t]).k = task[t].k
    BY DEF Dropping, Fresh
  <2> QED
    BY <1>1, <2>1
<1> QED
  BY <1>1, <1>2, <1>3, <1>4, <1>5

-----------------------------------------------------------------------------
(* Every step of a task moves it forward *)

(* The budget before and after a step of a task. *)
LEMMA BudgetCounts ==
    ASSUME TypeOK, TypeOK', NEW t \in Turn, TaskStep(t)
    PROVE  turn_budget \in Budget /\ turn_budget' \in Budget /\ Counts(turn_budget, turn_budget')
<1>1. turn_budget \in Budget /\ turn_budget' \in Budget
  BY DEF TypeOK, StateType, Budget
<1>2. turn_budget' = turn_budget \/ SpendStep(t) \/ Check(t) \/ Open(t)
  BY DEF TaskStep, LoopStep, BatchStep, Enter, Check0, SteerNotice, DrainSteering, ReadAnchor,
         RescueFold, Stream, Push, RecordPartial, Batch, RunTool, ToolReturns, Gate, Park,
         ResolveChannel, HandleApproval, RecordResult, Resume, DropCalls, Breaker, Finish,
         EmitTerminal, ownVars, stateVars
<1>3. CASE turn_budget' = turn_budget
  BY <1>1, <1>3 DEF Counts, Budget
<1>4. CASE SpendStep(t)
  BY <1>1, <1>4 DEF SpendStep, Counts, Budget
<1>5. CASE Check(t)
  BY <1>1, <1>5 DEF Check, Counts, Budget
<1>6. CASE Open(t)
  BY <1>1, <1>6 DEF Open, Counts, Budget
<1> QED
  BY <1>1, <1>2, <1>3, <1>4, <1>5, <1>6

(* A step from c to d puts no call to the user, and changes none that is. *)
AskKept(c, d) ==
    /\ Asking(d) => /\ Asking(c) /\ d.ask = c.ask /\ d.step = c.step
                    /\ d.k = c.k /\ d.auth = c.auth
    /\ d.pc = "park" => c.pc = "park" /\ d.ask = c.ask
    /\ d.pc = "parked" => c.pc = "parked"

Onward(t) == Advances(t, task[t], task'[t], turn_budget, turn_budget')

(* The steps of the loop. *)
LEMMA LoopAdvances ==
    ASSUME TypeOK, TypeOK', Groups, NEW t \in Turn, LoopStep(t)
    PROVE  Onward(t) /\ AskKept(task[t], task'[t])
<1>0. /\ task[t] \in Task /\ task'[t] \in Task
      /\ turn_budget \in Budget /\ turn_budget' \in Budget /\ Counts(turn_budget, turn_budget')
      /\ turn_budget.turn = t => task[t].step <= turn_budget.steps
      /\ Group(task[t])
  BY BudgetCounts DEF TypeOK, TasksType, TaskStep, Groups
<1>o. ASSUME task'[t].pc \notin Replying \cup Batching, task'[t].auth = "none", task'[t].step \in {0, task[t].step}
      PROVE  Onward(t) /\ AskKept(task[t], task'[t])
  BY <1>0, <1>o, AdvanceOut DEF Onward, AskKept, Asking, Batching
<1>r. ASSUME task'[t].pc \in Replying \cup {"batch"}, task'[t].auth = "none",
             task[t].pc \in Replying /\ task'[t].step = task[t].step
      PROVE  Onward(t) /\ AskKept(task[t], task'[t])
  BY <1>0, <1>r, AdvanceReply DEF Onward, AskKept, Asking, Replying, Paid
<1>b. \A d : Become(t, d) => task'[t] = d
  BY TaskEdits
<1>n. ASSUME task[t].pc \in Replying
      PROVE  task[t].auth = "none"
  BY <1>0, <1>n DEF Group, Replying, Paid
<1>1. CASE Enter(t)
  <2>1. \/ task[t].pc = "entry" /\ task'[t].pc = "check0" /\ Keeps(task'[t], task[t])
        \/ task'[t].pc = "done" /\ task'[t].auth = "none" /\ task'[t].step = 0
    BY <1>0, <1>1, TaskEdits DEF Enter
  <2> QED
    BY <1>0, <1>n, <1>o, <1>r, <2>1 DEF Keeps, Group, Replying, Paid, Batching
<1>2. CASE Check0(t)
  <2>1. task'[t].pc \in {"finC", "spend"} /\ task'[t].auth = "none" /\ task'[t].step = 0
    BY <1>0, <1>2, TaskEdits DEF Check0
  <2> QED
    BY <1>0, <1>n, <1>o, <1>r, <2>1 DEF Replying, Paid, Batching
<1>3. CASE SpendStep(t)
  <2>1. \A st, re, du : Become(t, [task[t] EXCEPT !.pc = "check", !.step = st, !.rescued = re, !.due = du])
          => task'[t].pc = "check" /\ task'[t].step = st /\ task'[t].auth = task[t].auth
    BY <1>0, <1>b DEF Task
  <2>2. \/ task'[t].pc \in {"done", "abort"} /\ task'[t].auth = "none" /\ task'[t].step = 0
        \/ /\ turn_budget.turn = t /\ turn_budget'.steps = turn_budget.steps + 1
           /\ task'[t].pc = "check" /\ task'[t].step = turn_budget.steps + 1
           /\ task[t].pc = "spend" /\ task'[t].auth = task[t].auth
    BY <1>0, <1>3, <2>1, TaskEdits DEF SpendStep, Budget
  <2>3. CASE task'[t].pc \in {"done", "abort"} /\ task'[t].auth = "none" /\ task'[t].step = 0
    BY <1>o, <2>3 DEF Replying, Paid, Batching
  <2>4. CASE /\ turn_budget.turn = t /\ turn_budget'.steps = turn_budget.steps + 1
             /\ task'[t].pc = "check" /\ task'[t].step = turn_budget.steps + 1
             /\ task[t].pc = "spend" /\ task'[t].auth = task[t].auth
    <3>1. task'[t].auth = "none" /\ task'[t].pc \in Replying \cup {"batch"}
      BY <1>0, <2>4 DEF Group, Replying, Paid
    <3> QED
      BY <1>0, <2>4, <3>1, AdvanceReply DEF Onward, AskKept, Asking
  <2> QED
    BY <2>2, <2>3, <2>4
<1>4. CASE Check(t)
  <2>1. \A pc : Become(t, [task[t] EXCEPT !.pc = pc, !.due = FALSE])
          => task'[t].pc = pc /\ task'[t].step = task[t].step /\ task'[t].auth = task[t].auth
    BY <1>0, <1>b DEF Task
  <2>2. \/ task'[t].pc = "finC" /\ task'[t].auth = "none" /\ task'[t].step = 0
        \/ task[t].pc \in {"check"} /\ task'[t].pc \in {"notice", "drain"} /\ task'[t].step = task[t].step /\ task'[t].auth = task[t].auth
    BY <1>0, <1>4, <2>1, TaskEdits DEF Check, Keeps
  <2> QED
    BY <1>0, <1>n, <1>o, <1>r, <2>2 DEF Replying, Paid, Batching
<1>5. CASE SteerNotice(t)
  <2>1. task[t].pc \in {"notice"} /\ task'[t].pc \in {"drain"} /\ task'[t].step = task[t].step /\ task'[t].auth = task[t].auth
    BY <1>5, TaskEdits DEF SteerNotice, Keeps
  <2> QED
    BY <1>n, <1>r, <2>1 DEF Replying, Paid
<1>6. CASE DrainSteering(t)
  <2>1. task[t].pc \in {"drain"} /\ task'[t].pc \in {"anchor"} /\ task'[t].step = task[t].step /\ task'[t].auth = task[t].auth
    BY <1>6, TaskEdits DEF DrainSteering, Keeps
  <2> QED
    BY <1>n, <1>r, <2>1 DEF Replying, Paid
<1>7. CASE ReadAnchor(t)
  <2>1. \A x : Become(t, [task[t] EXCEPT !.pc = "open", !.anchor = x])
          => task'[t].pc = "open" /\ task'[t].step = task[t].step /\ task'[t].auth = task[t].auth
    BY <1>0, <1>b DEF Task
  <2>2. task[t].pc \in {"anchor"} /\ task'[t].pc \in {"open"} /\ task'[t].step = task[t].step /\ task'[t].auth = task[t].auth
    BY <1>0, <1>7, <2>1, TaskEdits DEF ReadAnchor, Keeps
  <2> QED
    BY <1>0, <1>n, <1>o, <1>r, <2>2 DEF Replying, Paid, Batching
<1>8. CASE Open(t)
  <2>1. Become(t, [task[t] EXCEPT !.pc = "stream", !.rescued = FALSE])
          => task'[t].pc = "stream" /\ task'[t].step = task[t].step /\ task'[t].auth = task[t].auth
    BY <1>0, <1>b DEF Task
  <2>2. \/ task'[t].pc \in {"finC", "rescue", "abort"} /\ task'[t].auth = "none" /\ task'[t].step = 0
        \/ task[t].pc \in {"open"} /\ task'[t].pc \in {"stream"} /\ task'[t].step = task[t].step /\ task'[t].auth = task[t].auth
    BY <1>0, <1>8, <2>1, TaskEdits DEF Open, Keeps
  <2> QED
    BY <1>0, <1>n, <1>o, <1>r, <2>2 DEF Replying, Paid, Batching
<1>9. CASE RescueFold(t)
  <2>1. task'[t].pc \in {"finC", "spend", "abort"} /\ task'[t].auth = "none" /\ task'[t].step = 0
    BY <1>9, TaskEdits DEF RescueFold
  <2> QED
    BY <1>o, <2>1 DEF Replying, Paid, Batching
<1>10. CASE Stream(t)
  <2>1. \A n : Become(t, [task[t] EXCEPT !.pc = "push", !.n = n])
          => task'[t].pc = "push" /\ task'[t].step = task[t].step /\ task'[t].auth = task[t].auth
    BY <1>0, <1>b DEF Task
  <2>2. \/ task'[t].pc = "abort" /\ task'[t].auth = "none" /\ task'[t].step = 0
        \/ task[t].pc \in {"stream"} /\ task'[t].pc \in {"push", "partialC", "partialE"} /\ task'[t].step = task[t].step /\ task'[t].auth = task[t].auth
    BY <1>0, <1>10, <2>1, TaskEdits DEF Stream, Keeps
  <2> QED
    BY <1>0, <1>n, <1>o, <1>r, <2>2 DEF Replying, Paid, Batching
<1>11. CASE Push(t)
  <2>1. Become(t, [task[t] EXCEPT !.pc = "batch", !.anchor = NoEntry])
          => task'[t].pc = "batch" /\ task'[t].step = task[t].step /\ task'[t].auth = task[t].auth
    BY <1>0, <1>b DEF Task
  <2>2. \/ task'[t].pc = "finF" /\ task'[t].auth = "none" /\ task'[t].step = 0
        \/ task[t].pc \in {"push"} /\ task'[t].pc \in {"batch", "partialC"} /\ task'[t].step = task[t].step /\ task'[t].auth = task[t].auth
    BY <1>0, <1>11, <2>1, TaskEdits DEF Push, Keeps
  <2> QED
    BY <1>0, <1>n, <1>o, <1>r, <2>2 DEF Replying, Paid, Batching
<1>12. CASE RecordPartial(t)
  <2>1. task'[t].pc \in {"finC", "abort"} /\ task'[t].auth = "none" /\ task'[t].step = 0
    BY <1>12, TaskEdits DEF RecordPartial
  <2> QED
    BY <1>o, <2>1 DEF Replying, Paid, Batching
<1> QED
  BY <1>1, <1>2, <1>3, <1>4, <1>5, <1>6, <1>7, <1>8, <1>9, <1>10, <1>11, <1>12 DEF LoopStep

(* The steps of a batch. *)
LEMMA BatchAdvances ==
    ASSUME TypeOK, TypeOK', Groups, NEW t \in Turn, BatchStep(t)
    PROVE  /\ Onward(t)
           /\ ~Park(t) /\ task'[t].pc # "park" => AskKept(task[t], task'[t])
           /\ task'[t].pc = "park" => Gate(t)
<1> DEFINE c == task[t]
           d == task'[t]
<1>0. /\ c \in Task /\ d \in Task
      /\ turn_budget \in Budget /\ turn_budget' \in Budget /\ Counts(turn_budget, turn_budget')
      /\ turn_budget.turn = t => c.step <= turn_budget.steps
      /\ Group(c)
  BY BudgetCounts DEF TypeOK, TasksType, TaskStep, Groups
<1>i. /\ c.k \in Nat /\ c.hi \in Nat /\ c.at \in Nat /\ c.step \in Nat
      /\ \A pc : Goto(t, pc) => d.pc = pc /\ Keeps(d, c)
      /\ \A pc : Leave(t, pc) => d.pc = pc /\ d.auth = "none" /\ d.step = 0
      /\ End(t) => d.pc = "done" /\ d.auth = "none" /\ d.step = 0
      /\ Become(t, Dropping(c)) => d.pc = "drop" /\ d.auth = "none" /\ d.step = c.step /\ d.k = c.k
  BY <1>0, NumberFields, TaskEdits
<1>b. \A x : Become(t, x) => d = x
  BY TaskEdits
<1> HIDE DEF c, d
<1>o. ASSUME d.pc \notin Replying \cup Batching, d.auth = "none", d.step \in {0, c.step}
      PROVE  Onward(t) /\ AskKept(c, d) /\ d.pc # "park"
  BY <1>0, <1>o, AdvanceOut DEF Onward, AskKept, Asking, Batching, c, d
<1>s. ASSUME c.pc \in Batching, d.pc \in Batching, d.step = c.step, d.k >= c.k,
             StartedTo(d) >= StartedTo(c), AskedTo(d) >= AskedTo(c), Group(d)
      PROVE  Onward(t)
  BY <1>0, <1>s, AdvanceBatch DEF Onward, c, d
<1>d. ASSUME c.pc \in Batching \ {"exec", "record"}, c.pc = "run" => c.at = c.k,
             d.pc = "drop", d.auth = "none", d.step = c.step, d.k = c.k
      PROVE  Onward(t) /\ AskKept(c, d) /\ d.pc # "park"
  BY <1>d, <1>i, <1>s DEF StartedTo, AskedTo, Asking, Group, AskKept, Batching
<1> USE <1>i
<1>1. CASE Batch(t)
  <2>1. \A hi, at : Become(t, [c EXCEPT !.pc = "run", !.hi = hi, !.at = at])
          => /\ d.pc = "run" /\ d.hi = hi /\ d.at = at /\ d.k = c.k /\ d.step = c.step
             /\ d.auth = c.auth
    BY <1>0, <1>b DEF Task
  <2>2. /\ c.pc = "batch"
        /\ \/ d.pc = "breaker" /\ Keeps(d, c)
           \/ d.pc = "drop" /\ d.auth = "none" /\ d.step = c.step /\ d.k = c.k
           \/ /\ d.pc = "run" /\ d.hi >= c.k /\ d.at = c.k /\ d.k = c.k /\ d.step = c.step
              /\ d.auth = c.auth
    <3>1. /\ c.pc = "batch"
          /\ \/ Goto(t, "breaker") \/ Become(t, Dropping(c))
             \/ \E hi \in c.k..c.n : Become(t, [c EXCEPT !.pc = "run", !.hi = hi, !.at = c.k])
      BY <1>1 DEF Batch, c
    <3>2. c.n \in Nat
      BY <1>0 DEF Task
    <3>3. CASE \E hi \in c.k..c.n : Become(t, [c EXCEPT !.pc = "run", !.hi = hi, !.at = c.k])
      <4>1. PICK hi \in c.k..c.n : Become(t, [c EXCEPT !.pc = "run", !.hi = hi, !.at = c.k])
        BY <3>3
      <4>2. /\ d.pc = "run" /\ d.hi = hi /\ d.at = c.k /\ d.k = c.k /\ d.step = c.step
            /\ d.auth = c.auth
        BY <2>1, <4>1
      <4>3. hi >= c.k
        BY <3>2
      <4> QED
        BY <3>1, <4>2, <4>3
    <3> QED
      BY <3>1, <3>3
  <2>3. c.auth = "none"
    BY <1>0, <2>2 DEF Group
  <2>4. CASE d.pc = "breaker" /\ Keeps(d, c)
    BY <1>o, <2>3, <2>4 DEF Keeps, Replying, Paid, Batching, c, d
  <2>5. CASE d.pc = "drop" /\ d.auth = "none" /\ d.step = c.step /\ d.k = c.k
    BY <1>d, <2>2, <2>5 DEF Batching, c, d
  <2>6. CASE d.pc = "run" /\ d.hi >= c.k /\ d.at = c.k /\ d.k = c.k /\ d.step = c.step /\ d.auth = c.auth
    <3>1. AskKept(c, d) /\ d.pc # "park" /\ Group(d)
      BY <2>3, <2>6, <1>0, NumberFields DEF AskKept, Asking, Group
    <3>2. Onward(t)
      BY <1>s, <2>2, <2>3, <2>6, <3>1 DEF Batching, StartedTo, AskedTo, Asking
    <3> QED
      BY <3>1, <3>2 DEF c, d
  <2> QED
    BY <2>2, <2>4, <2>5, <2>6
<1>2. CASE RunTool(t)
  <2>1. \A at, got : Become(t, [c EXCEPT !.pc = "record", !.at = at, !.got = got])
          => d.pc = "record" /\ d.at = at /\ d.hi = c.hi /\ d.k = c.k /\ d.step = c.step /\ d.auth = c.auth
    BY <1>0, <1>b DEF Task
  <2>2. \A at, pc : Become(t, [c EXCEPT !.at = at, !.pc = pc])
          => /\ d.pc = pc /\ d.at = at /\ d.hi = c.hi /\ d.k = c.k /\ d.step = c.step
             /\ d.auth = c.auth /\ d.ask = c.ask
    BY <1>0, <1>b DEF Task
  <2>3. /\ c.pc = "run" /\ d.k = c.k /\ d.hi = c.hi /\ d.step = c.step /\ d.auth = c.auth
        /\ \/ d.pc = "record" /\ d.at = c.at
           \/ d.pc = "exec" /\ d.at = c.at /\ c.at # c.k
           \/ d.pc = "record" /\ d.at = c.at + 1
           \/ d.pc = "gate" /\ d.at = c.at /\ c.hi = c.k /\ c.auth = "none"
           \/ d.pc = "exec" /\ d.at = c.at + 1 /\ c.at = c.hi
           \/ d.pc = "run" /\ d.at = c.at + 1 /\ c.at # c.hi /\ d.ask = c.ask
    BY <1>0, <1>2, <2>1, <2>2 DEF RunTool, c, Keeps
  <2>4. c.k <= c.at /\ c.at <= c.hi /\ (c.auth # "none" => c.hi = c.k)
    BY <1>0, <2>3 DEF Group
  <2>5. Group(d)
    BY <2>3, <2>4 DEF Group
  <2>6. d.pc # "park" /\ AskKept(c, d)
    BY <2>3 DEF AskKept, Asking
  <2>7. StartedTo(d) >= StartedTo(c) /\ AskedTo(d) >= AskedTo(c)
    BY <2>3, <2>4 DEF StartedTo, AskedTo, Asking
  <2> QED
    BY <1>s, <2>3, <2>5, <2>6, <2>7 DEF Batching, c, d
<1>3. CASE ToolReturns(t)
  <2>1. \A got : Become(t, [c EXCEPT !.pc = "record", !.got = got]) => d.pc = "record" /\ Keeps(d, c)
    BY <1>0, <1>b DEF Task, Keeps
  <2>2. /\ c.pc = "exec"
        /\ \/ d.pc = "record" /\ Keeps(d, c)
           \/ d.pc = "abort" /\ d.auth = "none" /\ d.step = 0
    BY <1>3, <2>1 DEF ToolReturns, c
  <2>3. CASE d.pc = "record" /\ Keeps(d, c)
    <3>1. Group(d) /\ AskKept(c, d) /\ d.pc # "park"
      BY <1>0, <2>2, <2>3 DEF Group, Keeps, AskKept, Asking
    <3>2. StartedTo(d) >= StartedTo(c) /\ AskedTo(d) >= AskedTo(c)
      BY <2>2, <2>3 DEF StartedTo, AskedTo, Asking, Keeps
    <3> QED
      BY <1>s, <2>2, <2>3, <3>1, <3>2 DEF Batching, Keeps, c, d
  <2>4. CASE d.pc = "abort" /\ d.auth = "none" /\ d.step = 0
    BY <1>o, <2>4 DEF Replying, Paid, Batching, c, d
  <2> QED
    BY <2>2, <2>3, <2>4
<1>4. CASE Gate(t)
  <2>1. Become(t, [c EXCEPT !.pc = "run", !.auth = "auto"])
          => d.pc = "run" /\ d.auth = "auto" /\ d.k = c.k /\ d.hi = c.hi /\ d.at = c.at /\ d.step = c.step
    BY <1>0, <1>b DEF Task
  <2>2. \A at : Become(t, [c EXCEPT !.pc = "record", !.at = at, !.got = "done"])
          => d.pc = "record" /\ d.auth = c.auth /\ d.k = c.k /\ d.hi = c.hi /\ d.at = at /\ d.step = c.step
    BY <1>0, <1>b DEF Task
  <2>3. \A ask : Become(t, [c EXCEPT !.pc = "park", !.ask = ask])
          => d.pc = "park" /\ d.auth = c.auth /\ d.k = c.k /\ d.hi = c.hi /\ d.at = c.at /\ d.step = c.step
    BY <1>0, <1>b DEF Task
  <2>4. /\ c.pc = "gate" /\ d.k = c.k /\ d.hi = c.hi /\ d.step = c.step
        /\ \/ d.pc = "run" /\ d.auth = "auto" /\ d.at = c.at
           \/ d.pc = "record" /\ d.auth = c.auth /\ d.at = c.at + 1
           \/ d.pc = "park" /\ d.auth = c.auth /\ d.at = c.at
    BY <1>0, <1>4, <2>1, <2>2, <2>3 DEF Gate, c
  <2>5. c.at = c.k /\ c.hi = c.k /\ c.auth = "none"
    BY <1>0, <2>4 DEF Group
  <2>6. Group(d) /\ (d.pc # "park" => AskKept(c, d))
    BY <2>4, <2>5 DEF Group, AskKept, Asking
  <2>7. StartedTo(d) >= StartedTo(c) /\ AskedTo(d) >= AskedTo(c)
    BY <2>4, <2>5 DEF StartedTo, AskedTo, Asking
  <2> QED
    BY <1>4, <1>s, <2>4, <2>6, <2>7 DEF Batching, c, d
<1>5. CASE Park(t)
  <2>1. /\ c.pc = "park"
        /\ \/ d.pc = "parked" /\ Keeps(d, c)
           \/ d.pc = "drop" /\ d.auth = "none" /\ d.step = c.step /\ d.k = c.k
    BY <1>5 DEF Park, c
  <2>2. CASE d.pc = "parked" /\ Keeps(d, c)
    <3>1. Group(d)
      BY <1>0, <2>1, <2>2 DEF Group, Keeps
    <3>2. StartedTo(d) >= StartedTo(c) /\ AskedTo(d) >= AskedTo(c)
      BY <2>1, <2>2 DEF StartedTo, AskedTo, Asking, Keeps
    <3> QED
      BY <1>5, <1>s, <2>1, <2>2, <3>1, <3>2 DEF Batching, Keeps, c, d
  <2>3. CASE d.pc = "drop" /\ d.auth = "none" /\ d.step = c.step /\ d.k = c.k
    BY <1>d, <2>1, <2>3 DEF Batching, c, d
  <2> QED
    BY <2>1, <2>2, <2>3
<1>6. CASE ResolveChannel(t)
  <2>1. \A tx : Become(t, [c EXCEPT !.pc = "answer", !.tx = tx]) => d.pc = "answer" /\ Keeps(d, c)
    BY <1>0, <1>b DEF Task, Keeps
  <2>2. c.pc = "channel" /\ d.pc = "answer" /\ Keeps(d, c)
    BY <1>6, <2>1 DEF ResolveChannel, c
  <2>3. Group(d) /\ AskKept(c, d) /\ d.pc # "park"
    BY <1>0, <2>2 DEF Group, Keeps, AskKept, Asking
  <2>4. StartedTo(d) >= StartedTo(c) /\ AskedTo(d) >= AskedTo(c)
    BY <2>2 DEF StartedTo, AskedTo, Asking, Keeps
  <2> QED
    BY <1>s, <2>2, <2>3, <2>4 DEF Batching, Keeps, c, d
<1>7. CASE HandleApproval(t)
  <2>1. Become(t, [c EXCEPT !.pc = "run", !.asked = TRUE, !.again = TRUE]) => d.pc = "run" /\ Keeps(d, c)
    BY <1>0, <1>b DEF Task, Keeps
  <2>2. /\ c.pc = "answer"
        /\ \/ d.pc = "run" /\ Keeps(d, c)
           \/ d.pc = "drop" /\ d.auth = "none" /\ d.step = c.step /\ d.k = c.k
    BY <1>7, <2>1 DEF HandleApproval, c
  <2>3. CASE d.pc = "run" /\ Keeps(d, c)
    <3>1. Group(d) /\ AskKept(c, d) /\ d.pc # "park"
      BY <1>0, <2>2, <2>3 DEF Group, Keeps, AskKept, Asking
    <3>2. StartedTo(d) >= StartedTo(c) /\ AskedTo(d) >= AskedTo(c)
      BY <1>0, <2>2, <2>3 DEF StartedTo, AskedTo, Asking, Keeps, Group
    <3> QED
      BY <1>s, <2>2, <2>3, <3>1, <3>2 DEF Batching, Keeps, c, d
  <2>4. CASE d.pc = "drop" /\ d.auth = "none" /\ d.step = c.step /\ d.k = c.k
    BY <1>d, <2>2, <2>4 DEF Batching, c, d
  <2> QED
    BY <2>2, <2>3, <2>4
<1>8. CASE RecordResult(t)
  <2>1. \A k : Become(t, [c EXCEPT !.k = k])
          => /\ d.pc = c.pc /\ d.k = k /\ d.hi = c.hi /\ d.at = c.at /\ d.step = c.step
             /\ d.auth = c.auth /\ d.ask = c.ask
    BY <1>0, <1>b DEF Task
  <2>2. \A pc, tx, n, k, step, again :
          LET x == [Fresh(pc, tx) EXCEPT !.k = k, !.n = n, !.step = step, !.again = again]
          IN  x.pc = pc /\ x.k = k /\ x.step = step /\ x.auth = "none"
    BY DEF Fresh
  <2>3. /\ c.pc = "record" /\ d.k = c.k + 1 /\ d.step = c.step
        /\ \/ d.pc = "record" /\ c.k < c.hi /\ d.hi = c.hi /\ d.at = c.at /\ d.auth = c.auth
           \/ d.pc \in {"batch", "resume"} /\ ~(c.k < c.hi) /\ d.auth = "none"
    <3>1. CASE c.k < c.hi
      BY <1>0, <1>8, <2>1, <3>1 DEF RecordResult, c
    <3>2. CASE ~(c.k < c.hi)
      <4>1. Become(t, [Fresh(IF c.asked THEN "resume" ELSE "batch", c.tx) EXCEPT
                         !.k = c.k + 1, !.n = c.n, !.step = c.step, !.again = c.again])
        BY <1>8, <3>2 DEF RecordResult, RestOf, c
      <4>2. d = [Fresh(IF c.asked THEN "resume" ELSE "batch", c.tx) EXCEPT
                   !.k = c.k + 1, !.n = c.n, !.step = c.step, !.again = c.again]
        BY <1>b, <4>1
      <4>3. d.pc \in {"batch", "resume"} /\ d.k = c.k + 1 /\ d.step = c.step /\ d.auth = "none"
        BY <2>2, <4>2
      <4> QED
        BY <1>8, <3>2, <4>3 DEF RecordResult, c
    <3> QED
      BY <3>1, <3>2
  <2>4. c.k <= c.hi /\ c.at <= c.hi + 1 /\ (c.auth # "none" => c.hi = c.k)
    BY <1>0, <2>3 DEF Group
  <2>5. Group(d) /\ AskKept(c, d) /\ d.pc # "park"
    BY <2>3, <2>4 DEF Group, AskKept, Asking
  <2>6. StartedTo(d) >= StartedTo(c) /\ AskedTo(d) >= AskedTo(c)
    BY <2>3, <2>4 DEF StartedTo, AskedTo, Asking
  <2> QED
    BY <1>s, <2>3, <2>5, <2>6 DEF Batching, c, d
<1>9. CASE Resume(t)
  <2>1. /\ c.pc = "resume"
        /\ \/ d.pc = "batch" /\ Keeps(d, c)
           \/ d.pc = "drop" /\ d.auth = "none" /\ d.step = c.step /\ d.k = c.k
    BY <1>9 DEF Resume, c
  <2>2. CASE d.pc = "batch" /\ Keeps(d, c)
    <3>1. Group(d) /\ AskKept(c, d) /\ d.pc # "park"
      BY <1>0, <2>1, <2>2 DEF Group, Keeps, AskKept, Asking
    <3>2. StartedTo(d) >= StartedTo(c) /\ AskedTo(d) >= AskedTo(c)
      BY <2>1, <2>2 DEF StartedTo, AskedTo, Asking, Keeps
    <3> QED
      BY <1>s, <2>1, <2>2, <3>1, <3>2 DEF Batching, Keeps, c, d
  <2>3. CASE d.pc = "drop" /\ d.auth = "none" /\ d.step = c.step /\ d.k = c.k
    BY <1>d, <2>1, <2>3 DEF Batching, c, d
  <2> QED
    BY <2>1, <2>2, <2>3
<1>10. CASE DropCalls(t)
  <2>1. \A k : Become(t, [c EXCEPT !.k = k]) => d.pc = c.pc /\ d.k = k /\ d.step = c.step /\ d.auth = c.auth
    BY <1>0, <1>b DEF Task
  <2>2. /\ c.pc = "drop"
        /\ \/ d.pc = "drop" /\ d.k = c.k + 1 /\ d.step = c.step /\ d.auth = c.auth
           \/ d.pc = "finC" /\ d.auth = "none" /\ d.step = 0
    BY <1>0, <1>10, <2>1 DEF DropCalls, c
  <2>3. CASE d.pc = "drop" /\ d.k = c.k + 1 /\ d.step = c.step /\ d.auth = c.auth
    <3>1. Group(d) /\ AskKept(c, d) /\ d.pc # "park"
      BY <1>0, <2>2, <2>3 DEF Group, AskKept, Asking
    <3>2. StartedTo(d) >= StartedTo(c) /\ AskedTo(d) >= AskedTo(c)
      BY <2>2, <2>3 DEF StartedTo, AskedTo, Asking
    <3> QED
      BY <1>s, <2>2, <2>3, <3>1, <3>2 DEF Batching, c, d
  <2>4. CASE d.pc = "finC" /\ d.auth = "none" /\ d.step = 0
    BY <1>o, <2>4 DEF Replying, Paid, Batching, c, d
  <2> QED
    BY <2>2, <2>3, <2>4
<1>11. CASE Breaker(t)
  <2>1. d.pc \in {"abort", "entry", "spend"} /\ d.auth = "none" /\ d.step = 0
    BY <1>11 DEF Breaker
  <2> QED
    BY <1>o, <2>1 DEF Replying, Paid, Batching, c, d
<1> QED
  BY <1>1, <1>2, <1>3, <1>4, <1>5, <1>6, <1>7, <1>8, <1>9, <1>10, <1>11 DEF BatchStep

(* The end of a turn. *)
LEMMA EndAdvances ==
    ASSUME TypeOK, TypeOK', Groups, NEW t \in Turn, Finish(t) \/ EmitTerminal(t)
    PROVE  Onward(t) /\ AskKept(task[t], task'[t])
<1>0. /\ task[t] \in Task /\ task'[t] \in Task
      /\ turn_budget \in Budget /\ turn_budget' \in Budget /\ Counts(turn_budget, turn_budget')
      /\ turn_budget.turn = t => task[t].step <= turn_budget.steps
      /\ Group(task[t])
  BY BudgetCounts DEF TypeOK, TasksType, TaskStep, Groups
<1>1. /\ task[t].pc \in {"finC", "finF", "abort", "emitC", "emitF"}
      /\ task'[t].pc \in {"done", "emitC", "emitF"}
      /\ \/ task'[t].auth = "none" /\ task'[t].step = 0
         \/ Keeps(task'[t], task[t])
  BY TaskEdits DEF Finish, EmitTerminal
<1>2. task'[t].auth = "none" /\ task'[t].step \in {0, task[t].step}
  BY <1>0, <1>1 DEF Keeps, Group
<1>3. task'[t].pc \notin Replying \cup Batching
  BY <1>1 DEF Replying, Paid, Batching
<1> QED
  BY <1>0, <1>2, <1>3, AdvanceOut DEF Onward, AskKept, Asking, Batching

(* A step of one task leaves the other tasks where they are. *)
LEMMA OthersStay ==
    ASSUME TypeOK, NEW t \in Turn, TaskStep(t)
    PROVE  \A u \in Turn \ {t} : task'[u] = task[u]
<1>1. CASE ~Park(t) /\ ~Finish(t)
  BY <1>1, TaskEffect DEF Effect, Moves, Moved
<1>2. CASE Park(t)
  BY <1>2, TaskEdits DEF Park, Goto
<1>3. CASE Finish(t)
  BY <1>3, TaskEdits DEF Finish, Goto, End
<1> QED
  BY <1>1, <1>2, <1>3

LEMMA PassesStill ==
    ASSUME NEW t \in Turn, NEW c \in Task, NEW b \in Budget, NEW e \in Budget, Counts(b, e)
    PROVE  Passes(t, c, c, b, e)
<1> b.steps \in Nat /\ e.steps \in Nat
  BY DEF Budget
<1> QED
  BY DEF Passes, Before, Counts

LEMMA TaskAdvances ==
    ASSUME TypeOK, TypeOK', Groups, NEW t \in Turn, TaskStep(t)
    PROVE  /\ \A u \in Turn : Passes(u, task[u], task'[u], turn_budget, turn_budget')
           /\ Groups'
           /\ ~Park(t) /\ task'[t].pc # "park" => \A u \in Turn : AskKept(task[u], task'[u])
           /\ task'[t].pc = "park" => Gate(t)
<1>1. /\ Onward(t)
      /\ ~Park(t) /\ task'[t].pc # "park" => AskKept(task[t], task'[t])
      /\ task'[t].pc = "park" => Gate(t)
  <2>1. CASE LoopStep(t)
    BY <2>1, LoopAdvances DEF AskKept, LoopStep, Enter, Check0, SpendStep, Check, SteerNotice,
       DrainSteering, ReadAnchor, Open, RescueFold, Stream, Push, RecordPartial
  <2>2. CASE BatchStep(t)
    BY <2>2, BatchAdvances
  <2>3. CASE Finish(t) \/ EmitTerminal(t)
    BY <2>3, EndAdvances DEF AskKept, Finish, EmitTerminal
  <2> QED
    BY <2>1, <2>2, <2>3 DEF TaskStep
<1>2. \A u \in Turn \ {t} : task'[u] = task[u]
  BY OthersStay
<1>3. /\ turn_budget \in Budget /\ turn_budget' \in Budget /\ Counts(turn_budget, turn_budget')
      /\ \A u \in Turn : task[u] \in Task
  BY BudgetCounts DEF TypeOK, TasksType
<1>4. \A u \in Turn : Passes(u, task[u], task'[u], turn_budget, turn_budget')
  BY <1>1, <1>2, <1>3, PassesStill DEF Onward, Advances
<1>5. Groups'
  <2> SUFFICES ASSUME NEW u \in Turn
               PROVE  Group(task'[u]) /\ (turn_budget'.turn = u => task'[u].step <= turn_budget'.steps)
    BY DEF Groups
  <2>1. CASE u = t
    BY <1>1, <2>1 DEF Onward, Advances
  <2>2. CASE u # t
    <3>1. task'[u] = task[u] /\ task[u].step \in Nat
      BY <1>2, <1>3, <2>2, NumberFields
    <3>2. turn_budget.steps \in Nat /\ turn_budget'.steps \in Nat
      BY <1>3 DEF Budget
    <3> QED
      BY <1>3, <3>1, <3>2 DEF Groups, Counts
  <2> QED
    BY <2>1, <2>2
<1>6. \A u \in Turn \ {t} : AskKept(task[u], task'[u])
  BY <1>2 DEF AskKept
<1> QED
  BY <1>1, <1>4, <1>5, <1>6

-----------------------------------------------------------------------------
(* What a step adds to the transcript *)

(* An entry that brings no answer: it has no calls, or is turn t's own new  *)
(* reply with every call pending.                                           *)
BringsNone(e, t) ==
    e.res = <<>> \/ (e.turn = t /\ \A m \in DOMAIN e.res : e.res[m] = "pending")

(* e is the entry o, with v as the answer to call k of step s of turn t. *)
AnswersOne(e, o, t, s, k, v) ==
    /\ e.turn = o.turn /\ e.n = o.n /\ DOMAIN e.res = DOMAIN o.res
    /\ \A m \in DOMAIN e.res : e.res[m] = o.res[m] \/ (e.turn = t /\ e.n = s /\ m = k /\ e.res[m] = v)

(* The transcript fs is es with at most that one answer more. *)
Derives(es, fs, t, s, k, v) ==
    \A i \in 1..Len(fs) :
        BringsNone(fs[i], t) \/ \E j \in 1..Len(es) : AnswersOne(fs[i], es[j], t, s, k, v)

LEMMA DerivesSame ==
    ASSUME NEW es, NEW t, NEW s, NEW k, NEW v
    PROVE  Derives(es, es, t, s, k, v)
  BY DEF Derives, AnswersOne

(* The entries of es and those that bring no answer. *)
OldOrNone(es, t) == {e \in Entry : BringsNone(e, t) \/ \E j \in 1..Len(es) : e = es[j]}

LEMMA DerivesAdded ==
    ASSUME NEW es \in Seq(Entry), NEW t, NEW fs \in Seq(OldOrNone(es, t)), NEW s, NEW k, NEW v
    PROVE  Derives(es, fs, t, s, k, v)
<1> SUFFICES ASSUME NEW i \in 1..Len(fs)
             PROVE  BringsNone(fs[i], t) \/ \E j \in 1..Len(es) : AnswersOne(fs[i], es[j], t, s, k, v)
  BY DEF Derives
<1>1. fs[i] \in OldOrNone(es, t)
  OBVIOUS
<1>2. BringsNone(fs[i], t) \/ \E j \in 1..Len(es) : fs[i] = es[j]
  BY <1>1 DEF OldOrNone
<1> QED
  BY <1>2 DEF AnswersOne

LEMMA OldAreOld ==
    ASSUME NEW es \in Seq(Entry), NEW t
    PROVE  es \in Seq(OldOrNone(es, t))
<1>1. \A i \in 1..Len(es) : es[i] \in OldOrNone(es, t)
  BY DEF OldOrNone
<1> QED
  BY <1>1

LEMMA DerivesRecorded ==
    ASSUME NEW es \in Seq(Entry), NEW t, NEW s, NEW k, NEW v
    PROVE  Derives(es, Recorded(es, t, s, k, v), t, s, k, v)
<1> DEFINE hit(i) == /\ IsNewest(es, i, {"assistant", "partial"})
                     /\ es[i].turn = t /\ es[i].n = s
                     /\ k \in DOMAIN es[i].res /\ es[i].res[k] = "pending"
           r(i) == IF hit(i) THEN [es[i] EXCEPT !.res[k] = v] ELSE es[i]
<1>1. ASSUME NEW i \in 1..Len(es)
      PROVE  AnswersOne(r(i), es[i], t, s, k, v)
  <2>0. es[i] \in Entry
    OBVIOUS
  <2>1. CASE hit(i)
    <3>1. r(i) = [es[i] EXCEPT !.res = [es[i].res EXCEPT ![k] = v]]
      BY <2>1
    <3> HIDE DEF r
    <3>2. r(i).turn = es[i].turn /\ r(i).n = es[i].n /\ r(i).res = [es[i].res EXCEPT ![k] = v]
      BY <2>0, <3>1 DEF Entry
    <3>3. es[i].turn = t /\ es[i].n = s
      BY <2>1
    <3> HIDE DEF hit
    <3>4. es[i].res \in Seq(Result)
      BY <2>0 DEF Entry
    <3> QED
      BY <3>2, <3>3, <3>4 DEF AnswersOne
  <2>2. CASE ~hit(i)
    BY <2>2 DEF AnswersOne
  <2> QED
    BY <2>1, <2>2
<1>2. Recorded(es, t, s, k, v) = [i \in 1..Len(es) |-> r(i)]
  BY DEF Recorded
<1> HIDE DEF r, hit
<1>3. Len(Recorded(es, t, s, k, v)) = Len(es)
  BY <1>2
<1> QED
  BY <1>1, <1>2, <1>3 DEF Derives

(* The steps of a task that answer no call. *)
LEMMA NoAnswer ==
    ASSUME TypeOK, NEW t \in Turn, TaskStep(t), ~RecordResult(t), ~DropCalls(t), NEW s, NEW k
    PROVE  Derives(entries, entries', t, s, k, "pending")
<1>0. entries \in Seq(Entry) /\ steering \in Seq(Steered) /\ task[t] \in Task
  BY DEF TypeOK, StateType, TasksType
<1>1. entries \in Seq(OldOrNone(entries, t))
  BY <1>0, OldAreOld
<1>2. CASE Push(t)
  <2> DEFINE e == AssistantEntry(t, task[t].step, task[t].n)
  <2>1. entries' = Append(entries, e) \/ entries' = entries
    BY <1>2 DEF Push
  <2>2. e \in Entry
    BY <1>0, EntryTypes, TaskFields
  <2>3. BringsNone(e, t)
    BY DEF BringsNone, AssistantEntry
  <2> HIDE DEF e
  <2>4. e \in OldOrNone(entries, t)
    BY <2>2, <2>3 DEF OldOrNone
  <2>5. entries' \in Seq(OldOrNone(entries, t))
    BY <1>1, <2>1, <2>4
  <2> QED
    BY <1>0, <2>5, DerivesAdded
<1>3. CASE DrainSteering(t)
  <2> DEFINE es == [i \in 1..Len(steering) |-> SteeredEntry(t, steering[i])]
  <2>1. entries' = entries \o es \/ entries' = entries
    BY <1>3 DEF DrainSteering
  <2>2. \A i \in 1..Len(steering) : steering[i] \in Steered
    BY <1>0
  <2>3. \A i \in 1..Len(steering) :
          SteeredEntry(t, steering[i]) \in Entry /\ SteeredEntry(t, steering[i]).res = <<>>
    BY <2>2, EntryTypes DEF SteeredEntry
  <2>4. \A i \in 1..Len(steering) : SteeredEntry(t, steering[i]) \in OldOrNone(entries, t)
    BY <2>3 DEF OldOrNone, BringsNone
  <2>5. Len(steering) \in Nat
    BY <1>0
  <2>6. es \in Seq(OldOrNone(entries, t))
    BY <2>4, <2>5
  <2> HIDE DEF es
  <2>7. entries \o es \in Seq(OldOrNone(entries, t))
    BY <1>1, <2>6, ConcatProperties, Zenon
  <2>8. entries' \in Seq(OldOrNone(entries, t))
    BY <1>1, <2>1, <2>7
  <2> QED
    BY <1>0, <2>8, DerivesAdded
<1>4. CASE RecordPartial(t)
  <2> DEFINE e == PartialEntry(t, task[t].step)
  <2>1. entries' \in {entries, InsertAfter(entries, task[t].anchor, e)}
    BY <1>4 DEF RecordPartial
  <2>2. e \in Entry /\ e.res = <<>>
    BY <1>0, EntryTypes, TaskFields DEF PartialEntry
  <2> HIDE DEF e
  <2>3. e \in OldOrNone(entries, t)
    BY <2>2 DEF OldOrNone, BringsNone
  <2>4. InsertAfter(entries, task[t].anchor, e) \in Seq(OldOrNone(entries, t))
    BY <1>1, <2>3, InsertAfterType
  <2>5. entries' \in Seq(OldOrNone(entries, t))
    BY <1>1, <2>1, <2>4
  <2> QED
    BY <1>0, <2>5, DerivesAdded
<1>5. CASE ~Push(t) /\ ~DrainSteering(t) /\ ~RecordPartial(t)
  <2>1. entries' = entries
    BY <1>5 DEF TaskStep, LoopStep, BatchStep, Enter, Check0, SpendStep, Check, SteerNotice,
       ReadAnchor, Open, RescueFold, Stream, Batch, RunTool, ToolReturns, Gate, Park,
       ResolveChannel, HandleApproval, Resume, Breaker, Finish, EmitTerminal, stateVars
  <2> QED
    BY <2>1, DerivesSame
<1> QED
  BY <1>2, <1>3, <1>4, <1>5

-----------------------------------------------------------------------------
(* What a step that moves its tasks forward keeps *)

(* No call of turn t was started as call k of step s. *)
NeverRan(t, s, k) == ~ \E j \in 1..Len(ran[t]) : ran[t][j].step = s /\ ran[t][j].k = k

(* Every task of a driven turn moves forward, the transcript gains at most  *)
(* the answer v to call k of step s of turn t, and nothing is started.      *)
LEMMA OrderKept ==
    ASSUME CallInv, TypeOK', NEW t \in Turn, NEW s \in Nat, NEW k \in Nat, NEW v,
           \A u \in Turn : boot[u].pc = "done" =>
               Passes(u, task[u], task'[u], turn_budget, turn_budget'),
           Derives(entries, entries', t, s, k, v),
           v # "pending" => Before(t, task'[t], turn_budget', s, k, task'[t].k),
           v = "cancelled" => NeverRan(t, s, k),
           ran' = ran
    PROVE  /\ RanBefore' /\ AnsweredBefore' /\ CallsRunOnce' /\ CancelledCallNeverRan'
           /\ raised' = raised => RaisedBefore'
           /\ UNCHANGED <<raised, answered>> => HumanConsent'
<1>0. /\ ran \in [Turn -> Seq(Started)] /\ entries \in Seq(Entry) /\ entries' \in Seq(Entry)
      /\ raised \subseteq [turn : Turn, ask : Nat, step : Nat, k : Nat]
  BY DEF CallInv, Inv, TypeOK, StateType, SeenType
<1>1. RanBefore'
  <2> SUFFICES ASSUME NEW u \in Turn, NEW i \in 1..Len(ran[u])
               PROVE  Before(u, task'[u], turn_budget', ran[u][i].step, ran[u][i].k, StartedTo(task'[u]))
    BY DEF RanBefore
  <2>1. boot[u].pc = "done"
    BY DEF CallInv, NoCallsYet
  <2>2. ran[u] \in Seq(Started)
    BY <1>0
  <2>3. ran[u][i] \in Started
    BY <2>2
  <2>4. ran[u][i].step \in Nat /\ ran[u][i].k \in Nat
    BY <2>3 DEF Started
  <2>5. Before(u, task[u], turn_budget, ran[u][i].step, ran[u][i].k, StartedTo(task[u]))
    BY DEF CallInv, RanBefore
  <2> QED
    BY <2>1, <2>4, <2>5 DEF Passes
<1>2. AnsweredBefore'
  <2> SUFFICES ASSUME NEW u \in Turn, NEW i \in 1..Len(entries'), entries'[i].turn = u,
                      NEW m \in DOMAIN entries'[i].res, entries'[i].res[m] # "pending"
               PROVE  Before(u, task'[u], turn_budget', entries'[i].n, m, task'[u].k)
    BY DEF AnsweredBefore
  <2>0. entries'[i] \in Entry
    BY <1>0
  <2>1. entries'[i].n \in Nat /\ m \in Nat
    BY <2>0 DEF Entry
  <2>2. ~BringsNone(entries'[i], t)
    BY DEF BringsNone
  <2>3. PICK j \in 1..Len(entries) : AnswersOne(entries'[i], entries[j], t, s, k, v)
    BY <2>2 DEF Derives
  <2>4. CASE entries'[i].res[m] = entries[j].res[m]
    <3>1. entries[j].turn = u /\ entries[j].n = entries'[i].n /\ m \in DOMAIN entries[j].res
      BY <2>3 DEF AnswersOne
    <3>2. Before(u, task[u], turn_budget, entries'[i].n, m, task[u].k)
      BY <2>4, <3>1 DEF CallInv, AnsweredBefore
    <3>3. boot[u].pc = "done"
      BY <3>1 DEF CallInv, NoCallsYet
    <3> QED
      BY <2>1, <3>2, <3>3 DEF Passes
  <2>5. CASE entries'[i].res[m] # entries[j].res[m]
    <3>1. u = t /\ entries'[i].n = s /\ m = k /\ v # "pending"
      BY <2>3, <2>5 DEF AnswersOne
    <3> QED
      BY <3>1
  <2> QED
    BY <2>4, <2>5
<1>3. raised' = raised => RaisedBefore'
  <2> SUFFICES ASSUME raised' = raised, NEW u \in Turn, NEW a \in raised, a.turn = u
               PROVE  Before(u, task'[u], turn_budget', a.step, a.k, AskedTo(task'[u]))
    BY DEF RaisedBefore
  <2>1. a.step \in Nat /\ a.k \in Nat
    BY <1>0
  <2>2. boot[u].pc = "done" /\ Before(u, task[u], turn_budget, a.step, a.k, AskedTo(task[u]))
    BY DEF CallInv, NoCallsYet, RaisedBefore
  <2> QED
    BY <2>1, <2>2 DEF Passes
<1>4. CallsRunOnce' /\ (UNCHANGED <<raised, answered>> => HumanConsent')
  BY DEF CallInv, CallsRunOnce, HumanConsent
<1>5. CancelledCallNeverRan'
  <2> SUFFICES ASSUME NEW i \in 1..Len(entries'), NEW m \in DOMAIN entries'[i].res,
                      entries'[i].res[m] = "cancelled"
               PROVE  NeverRan(entries'[i].turn, entries'[i].n, m)
    BY DEF CancelledCallNeverRan, NeverRan
  <2>2. ~BringsNone(entries'[i], t)
    BY DEF BringsNone
  <2>3. PICK j \in 1..Len(entries) : AnswersOne(entries'[i], entries[j], t, s, k, v)
    BY <2>2 DEF Derives
  <2>4. CASE entries'[i].res[m] = entries[j].res[m]
    BY <2>3, <2>4 DEF CallInv, CancelledCallNeverRan, NeverRan, AnswersOne
  <2>5. CASE entries'[i].res[m] # entries[j].res[m]
    <3>1. entries'[i].turn = t /\ entries'[i].n = s /\ m = k /\ v = "cancelled"
      BY <2>3, <2>5 DEF AnswersOne
    <3> QED
      BY <3>1
  <2> QED
    BY <2>4, <2>5
<1> QED
  BY <1>1, <1>2, <1>3, <1>4, <1>5

(* No request is raised, answered or numbered: the ones there are stay the  *)
(* tasks' own.                                                              *)
LEMMA AsksKept ==
    ASSUME CallInv, Inv', \A u \in Turn : AskKept(task[u], task'[u]),
           pending' \in {pending, NoPending}, UNCHANGED <<raised, answered, asks>>
    PROVE  RequestIsOwn' /\ AnswersAreOwn'
<1>0. /\ raised \subseteq [turn : Turn, ask : Nat, step : Nat, k : Nat]
      /\ \A u \in Turn : pending'.turn = u => task'[u].pc = "parked" /\ pending' = pending
  BY TurnAssumption DEF CallInv, Inv, TypeOK, SeenType, ParkedWaits, NoPending
<1>1. RequestIsOwn'
  <2>1. \A a \in raised' : /\ a.ask <= asks'[a.turn]
                           /\ task'[a.turn].pc = "park" => a.ask < task'[a.turn].ask
    BY <1>0 DEF CallInv, RequestIsOwn, AskKept
  <2>2. ASSUME NEW u \in Turn
        PROVE  /\ task'[u].pc = "park" => task'[u].ask <= asks'[u]
               /\ pending'.turn = u => pending'.ask = task'[u].ask
               /\ Asking(task'[u]) =>
                    /\ RequestOf(u)' \in raised'
                    /\ \A a \in raised' :
                         a.turn = u /\ a.step = task'[u].step /\ a.k = task'[u].k => a = RequestOf(u)'
    <3>1. task'[u].pc = "park" => task'[u].ask <= asks'[u]
      BY DEF CallInv, RequestIsOwn, AskKept
    <3>2. pending'.turn = u => pending'.ask = task'[u].ask
      BY <1>0 DEF CallInv, RequestIsOwn, AskKept, Asking
    <3>3. Asking(task'[u]) => RequestOf(u)' = RequestOf(u) /\ Asking(task[u])
      BY DEF AskKept, RequestOf
    <3>4. Asking(task'[u]) => task'[u].step = task[u].step /\ task'[u].k = task[u].k
      BY DEF AskKept
    <3> QED
      BY <3>1, <3>2, <3>3, <3>4 DEF CallInv, RequestIsOwn
  <2>3. \A a, b \in raised' : a.turn = b.turn /\ a.ask = b.ask => a = b
    BY DEF CallInv, RequestIsOwn
  <2> QED
    BY <2>1, <2>2, <2>3 DEF RequestIsOwn
<1>2. AnswersAreOwn'
  <2>1. \A x \in answered' : \E a \in raised' : a.turn = x.turn /\ a.ask = x.ask
    BY DEF CallInv, AnswersAreOwn
  <2>2. ASSUME NEW u \in Turn
        PROVE  /\ task'[u].pc = "parked" => AnswersTo(answered', u, task'[u].ask) = {}
               /\ Asking(task'[u]) /\ task'[u].auth = "human" =>
                    AnswersTo(answered', u, task'[u].ask) = {Yes(u, task'[u].ask)}
    <3>1. task'[u].pc = "parked" => task[u].pc = "parked" /\ task'[u].ask = task[u].ask
      BY DEF AskKept, Asking
    <3>2. Asking(task'[u]) => Asking(task[u]) /\ task'[u].ask = task[u].ask /\ task'[u].auth = task[u].auth
      BY DEF AskKept
    <3> QED
      BY <3>1, <3>2 DEF CallInv, AnswersAreOwn
  <2> QED
    BY <2>1, <2>2 DEF AnswersAreOwn
<1> QED
  BY <1>1, <1>2

-----------------------------------------------------------------------------
(* The steps of a task keep the invariant *)

(* What a task step does outside its task, the transcript and the calls. *)
LEMMA TaskRest ==
    ASSUME TypeOK, NEW t \in Turn, TaskStep(t)
    PROVE  /\ boot' = boot /\ answered' = answered
           /\ task[t].pc # "none"
           /\ ~Park(t) => raised' = raised /\ pending' = pending
           /\ task'[t].pc # "park" => asks' = asks
           /\ ~RunTool(t) => ran' = ran
<1>1. CASE LoopStep(t)
  BY <1>1 DEF LoopStep, Enter, Check0, SpendStep, Check, SteerNotice, DrainSteering, ReadAnchor,
     Open, RescueFold, Stream, Push, RecordPartial, TaskFrame, askVars
<1>2. CASE Gate(t)
  <2>1. task'[t].pc # "park" => asks' = asks
    <3>1. \A ask : Become(t, [task[t] EXCEPT !.pc = "park", !.ask = ask]) => task'[t].pc = "park"
      <4>1. task[t] \in Task /\ \A d : Become(t, d) => task'[t] = d
        BY TaskEdits, TaskFields
      <4> QED
        BY <4>1 DEF Task
    <3> QED
      BY <1>2, <3>1 DEF Gate
  <2> QED
    BY <1>2, <2>1 DEF Gate, TaskFrame
<1>3. CASE BatchStep(t) /\ ~Gate(t)
  BY <1>3 DEF BatchStep, Batch, RunTool, ToolReturns, Park, ResolveChannel, HandleApproval,
     RecordResult, Resume, DropCalls, Breaker, TaskFrame, askVars
<1>4. CASE Finish(t) \/ EmitTerminal(t)
  BY <1>4 DEF Finish, EmitTerminal, TaskFrame, askVars, stateVars
<1> QED
  BY <1>1, <1>2, <1>3, <1>4 DEF TaskStep

(* A turn that is not driven has no task, so no step of one adds to it. *)
LEMMA NoCallsKept ==
    ASSUME CallInv, TypeOK', NEW t \in Turn, boot[t].pc = "done", NEW s, NEW k, NEW v,
           Derives(entries, entries', t, s, k, v),
           \A u \in Turn : boot'[u].pc # "done" => boot[u].pc # "done",
           \A u \in Turn \ {t} : ran'[u] = ran[u] /\ task'[u] = task[u],
           \A a \in raised' : a \in raised \/ a.turn = t
    PROVE  NoCallsYet'
<1> SUFFICES ASSUME NEW u \in Turn, boot'[u].pc # "done"
             PROVE  /\ ran'[u] = <<>> /\ task'[u].step = 0
                    /\ \A a \in raised' : a.turn # u
                    /\ \A i \in 1..Len(entries') : entries'[i].turn = u => entries'[i].res = <<>>
  BY DEF NoCallsYet
<1>1. boot[u].pc # "done" /\ u # t
  OBVIOUS
<1>2. ran'[u] = <<>> /\ task'[u].step = 0 /\ \A a \in raised' : a.turn # u
  BY <1>1 DEF CallInv, NoCallsYet
<1>3. ASSUME NEW i \in 1..Len(entries'), entries'[i].turn = u
      PROVE  entries'[i].res = <<>>
  <2>0. entries'[i] \in Entry
    BY DEF TypeOK, StateType
  <2>1. CASE BringsNone(entries'[i], t)
    BY <1>1, <1>3, <2>1 DEF BringsNone
  <2>2. CASE ~BringsNone(entries'[i], t)
    <3>1. PICK j \in 1..Len(entries) : AnswersOne(entries'[i], entries[j], t, s, k, v)
      BY <2>2 DEF Derives
    <3>2. entries[j].turn = u /\ DOMAIN entries'[i].res = DOMAIN entries[j].res
      BY <1>3, <3>1 DEF AnswersOne
    <3>3. entries[j].res = <<>>
      BY <1>1, <3>2 DEF CallInv, NoCallsYet
    <3>4. entries'[i].res \in Seq(Result)
      BY <2>0 DEF Entry
    <3>5. 1..Len(entries'[i].res) = {} /\ Len(entries'[i].res) \in Nat
      <4>1. DOMAIN entries'[i].res = 1..Len(entries'[i].res) /\ Len(entries'[i].res) \in Nat
        BY <3>4
      <4>2. DOMAIN <<>> = {}
        OBVIOUS
      <4> QED
        BY <3>2, <3>3, <4>1, <4>2
    <3>6. Len(entries'[i].res) = 0
      <4> DEFINE len == Len(entries'[i].res)
      <4>1. len \in Nat /\ 1..len = {}
        BY <3>5
      <4> HIDE DEF len
      <4>2. len >= 1 => 1 \in 1..len
        BY <4>1
      <4>3. len = 0
        BY <4>1, <4>2
      <4> QED
        BY <4>3 DEF len
    <3> QED
      BY <3>4, <3>6
  <2> QED
    BY <2>1, <2>2
<1> QED
  BY <1>2, <1>3

(* Everything but a start, a park and a new approval id. *)
LEMMA QuietCalls ==
    ASSUME CallInv, TypeOK', Inv', NEW t \in Turn, TaskStep(t), NEW s \in Nat, NEW k \in Nat, NEW v,
           Derives(entries, entries', t, s, k, v),
           v # "pending" => Before(t, task'[t], turn_budget', s, k, task'[t].k),
           v = "cancelled" => NeverRan(t, s, k),
           ~Park(t), task'[t].pc # "park", ran' = ran
    PROVE  CallInv'
<1>0. TypeOK /\ Groups /\ Inv
  BY DEF CallInv, Inv
<1>1. /\ \A u \in Turn : Passes(u, task[u], task'[u], turn_budget, turn_budget')
      /\ Groups'
      /\ \A u \in Turn : AskKept(task[u], task'[u])
  BY <1>0, TaskAdvances
<1>2. /\ boot' = boot /\ task[t].pc # "none" /\ pending' = pending
      /\ UNCHANGED <<raised, answered, asks>>
  BY <1>0, TaskRest
<1>3. boot[t].pc = "done"
  BY <1>0, <1>2 DEF Inv, NotStarted
<1>4. /\ RanBefore' /\ AnsweredBefore' /\ RaisedBefore'
      /\ CallsRunOnce' /\ HumanConsent' /\ CancelledCallNeverRan'
  BY <1>1, <1>2, OrderKept
<1>5. NoCallsYet'
  BY <1>0, <1>2, <1>3, OthersStay, NoCallsKept
<1>6. RequestIsOwn' /\ AnswersAreOwn'
  BY <1>1, <1>2, AsksKept
<1> QED
  BY <1>1, <1>4, <1>5, <1>6 DEF CallInv

(* A result is recorded: the call's place is passed, and a call the batch   *)
(* gave up never ran.                                                       *)
LEMMA AnswerCalls ==
    ASSUME CallInv, TypeOK', Inv', NEW t \in Turn, RecordResult(t) \/ DropCalls(t)
    PROVE  CallInv'
<1> DEFINE c == task[t]
           d == task'[t]
<1>0. /\ TypeOK /\ Inv /\ TaskStep(t) /\ entries \in Seq(Entry)
      /\ c \in Task /\ d \in Task /\ turn_budget \in Budget /\ turn_budget' = turn_budget
      /\ Group(c) /\ (turn_budget.turn = t => c.step <= turn_budget.steps)
  BY DEF CallInv, Inv, TaskStep, BatchStep, TypeOK, StateType, TasksType, Budget, RecordResult,
     DropCalls, ownVars, Groups
<1>1. c.k \in Nat /\ c.step \in Nat /\ c.at \in Nat /\ c.hi \in Nat
  BY <1>0, NumberFields
<1>2. ~Park(t) /\ ran' = ran
  BY DEF Park, RecordResult, DropCalls
<1>3. d.pc # "park"
  BY <1>0, TaskAdvances DEF CallInv, Gate, RecordResult, DropCalls
<1>b. \A x : Become(t, x) => d = x
  BY <1>0, TaskEdits
<1>e. \A k : Become(t, [c EXCEPT !.k = k]) => d.pc = c.pc /\ d.k = k /\ d.step = c.step
  BY <1>0, <1>b DEF Task
<1>f. \A pc, tx, n, k, step, again :
          LET x == [Fresh(pc, tx) EXCEPT !.k = k, !.n = n, !.step = step, !.again = again]
          IN  x.pc = pc /\ x.k = k /\ x.step = step /\ x.auth = "none"
  BY DEF Fresh
<1> HIDE DEF c, d
<1>4. CASE DropCalls(t) /\ c.k > c.n
  <2>1. entries' = entries
    BY <1>0, <1>1, <1>4 DEF DropCalls, c, Task
  <2>2. Derives(entries, entries', t, 0, 0, "pending")
    BY <2>1, DerivesSame
  <2> QED
    BY <1>0, <1>2, <1>3, <2>2, QuietCalls DEF d
<1>5. ASSUME NEW v, entries' = Recorded(entries, t, c.step, c.k, v),
             d.k = c.k + 1, d.step = c.step, d.pc \in Batching,
             v = "cancelled" => NeverRan(t, c.step, c.k)
      PROVE  CallInv'
  <2>1. Derives(entries, entries', t, c.step, c.k, v)
    BY <1>0, <1>5, DerivesRecorded
  <2>2. Before(t, d, turn_budget', c.step, c.k, d.k)
    BY <1>0, <1>1, <1>5 DEF Before, Batching, Replying, Paid
  <2> QED
    BY <1>0, <1>1, <1>2, <1>3, <1>5, <2>1, <2>2, QuietCalls DEF d
<1>6. CASE DropCalls(t) /\ ~(c.k > c.n)
  <2>0. c.n \in Nat
    BY <1>0 DEF Task
  <2>1. /\ c.pc = "drop" /\ entries' = Recorded(entries, t, c.step, c.k, "cancelled")
        /\ d.pc = "drop" /\ d.k = c.k + 1 /\ d.step = c.step
    BY <1>1, <1>6, <1>e, <2>0 DEF DropCalls, c
  <2>2. NeverRan(t, c.step, c.k)
    <3> SUFFICES ASSUME NEW j \in 1..Len(ran[t]), ran[t][j].step = c.step, ran[t][j].k = c.k
                 PROVE  FALSE
      BY DEF NeverRan
    <3>1. Before(t, c, turn_budget, c.step, c.k, StartedTo(c))
      BY DEF CallInv, RanBefore, c
    <3> QED
      BY <1>1, <2>1, <3>1 DEF Before, StartedTo, Batching
  <2> QED
    BY <1>5, <2>1, <2>2 DEF Batching
<1>7. CASE RecordResult(t)
  <2>1. c.pc = "record" /\ entries' = Recorded(entries, t, c.step, c.k, ResultOf(c))
    BY <1>7 DEF RecordResult, c
  <2>2. d.k = c.k + 1 /\ d.step = c.step /\ d.pc \in {"record", "batch", "resume"}
    <3>1. CASE c.k < c.hi
      BY <1>7, <1>e, <2>1, <3>1 DEF RecordResult, c
    <3>2. CASE ~(c.k < c.hi)
      <4>1. Become(t, [Fresh(IF c.asked THEN "resume" ELSE "batch", c.tx) EXCEPT
                         !.k = c.k + 1, !.n = c.n, !.step = c.step, !.again = c.again])
        BY <1>7, <3>2 DEF RecordResult, RestOf, c
      <4>2. d = [Fresh(IF c.asked THEN "resume" ELSE "batch", c.tx) EXCEPT
                   !.k = c.k + 1, !.n = c.n, !.step = c.step, !.again = c.again]
        BY <1>b, <4>1
      <4> QED
        BY <1>f, <4>2
    <3> QED
      BY <3>1, <3>2
  <2>3. ResultOf(c) = "cancelled" => NeverRan(t, c.step, c.k)
    <3> SUFFICES ASSUME ResultOf(c) = "cancelled",
                        NEW j \in 1..Len(ran[t]), ran[t][j].step = c.step, ran[t][j].k = c.k
                 PROVE  FALSE
      BY DEF NeverRan
    <3>1. Before(t, c, turn_budget, c.step, c.k, StartedTo(c))
      BY DEF CallInv, RanBefore, c
    <3>2. c.k < c.at
      BY <1>1, <2>1, <3>1 DEF Before, StartedTo, Batching
    <3>3. c.got # "cancelled"
      BY <1>0 DEF Task, Returned, Result
    <3> QED
      BY <3>2, <3>3 DEF ResultOf
  <2> QED
    BY <1>5, <2>1, <2>2, <2>3 DEF Batching
<1> QED
  BY <1>4, <1>6, <1>7

(* run_tool starts the next call of the group. *)
LEMMA StartCalls ==
    ASSUME CallInv, TypeOK', Inv', NEW t \in Turn, RunTool(t), ran' # ran
    PROVE  CallInv'
<1> DEFINE c == task[t]
           d == task'[t]
           r == [step |-> c.step, k |-> c.at, auth |-> c.auth, ask |-> c.ask]
<1>0. /\ TypeOK /\ Inv /\ Groups /\ TaskStep(t)
      /\ c \in Task /\ d \in Task /\ turn_budget \in Budget /\ turn_budget' = turn_budget
      /\ Group(c) /\ (turn_budget.turn = t => c.step <= turn_budget.steps)
      /\ ran \in [Turn -> Seq(Started)] /\ entries' = entries /\ entries \in Seq(Entry)
      /\ raised \subseteq [turn : Turn, ask : Nat, step : Nat, k : Nat]
  BY DEF CallInv, Inv, TaskStep, BatchStep, TypeOK, StateType, TasksType, SeenType, Budget, RunTool,
     ownVars, Groups
<1>1. c.k \in Nat /\ c.step \in Nat /\ c.at \in Nat /\ c.hi \in Nat
  BY <1>0, NumberFields
<1>2. /\ c.pc = "run" /\ c.auth # "denied"
      /\ ran' = [ran EXCEPT ![t] = Append(@, r)]
      /\ Become(t, [c EXCEPT !.at = @ + 1, !.pc = IF c.at = c.hi THEN "exec" ELSE "run"])
  BY DEF RunTool
<1>3. d.pc \in {"run", "exec"} /\ d.at = c.at + 1 /\ d.step = c.step
  <2>1. d = [c EXCEPT !.at = @ + 1, !.pc = IF c.at = c.hi THEN "exec" ELSE "run"]
    BY <1>0, <1>2, TaskEdits
  <2> QED
    BY <1>0, <2>1 DEF Task
<1>4. c.k <= c.at /\ c.at <= c.hi /\ (c.auth # "none" => c.hi = c.k)
  BY <1>0, <1>2 DEF Group
<1>5. r.step = c.step /\ r.k = c.at /\ r.auth = c.auth /\ r.ask = c.ask
  OBVIOUS
<1> HIDE DEF c, d, r
<1>6. /\ \A u \in Turn : Passes(u, task[u], task'[u], turn_budget, turn_budget')
      /\ Groups'
      /\ \A u \in Turn : AskKept(task[u], task'[u])
  BY <1>0, <1>3, TaskAdvances DEF Park, RunTool, d
<1>7. /\ boot' = boot /\ task[t].pc # "none" /\ pending' = pending
      /\ UNCHANGED <<raised, answered, asks>>
  BY <1>0, <1>3, TaskRest DEF Park, RunTool, d
<1>8. boot[t].pc = "done"
  BY <1>0, <1>7 DEF Inv, NotStarted
<1>9. ran[t] \in Seq(Started) /\ Len(ran[t]) \in Nat
  BY <1>0
<1>10. /\ \A u \in Turn \ {t} : ran'[u] = ran[u]
       /\ ran'[t] = Append(ran[t], r)
  BY <1>0, <1>2
<1>11. /\ Len(ran'[t]) = Len(ran[t]) + 1 /\ ran'[t][Len(ran[t]) + 1] = r
       /\ \A i \in 1..Len(ran[t]) : ran'[t][i] = ran[t][i]
  BY <1>9, <1>10
<1>12. \A i \in 1..Len(ran[t]) :
          ran[t][i].step < c.step \/ (ran[t][i].step = c.step /\ ran[t][i].k < c.at)
  <2> SUFFICES ASSUME NEW i \in 1..Len(ran[t])
               PROVE  ran[t][i].step < c.step \/ (ran[t][i].step = c.step /\ ran[t][i].k < c.at)
    OBVIOUS
  <2>1. Before(t, c, turn_budget, ran[t][i].step, ran[t][i].k, StartedTo(c))
    BY DEF CallInv, RanBefore, c
  <2> QED
    BY <1>2, <2>1 DEF Before, StartedTo, Batching
<1>13. \A i \in 1..Len(ran[t]) : ran[t][i].step \in Nat /\ ran[t][i].k \in Nat
  <2>1. \A i \in 1..Len(ran[t]) : ran[t][i] \in Started
    BY <1>9
  <2> QED
    BY <2>1 DEF Started
<1>14. RanBefore'
  <2> SUFFICES ASSUME NEW u \in Turn, NEW i \in 1..Len(ran'[u])
               PROVE  Before(u, task'[u], turn_budget', ran'[u][i].step, ran'[u][i].k, StartedTo(task'[u]))
    BY DEF RanBefore
  <2>1. CASE u = t /\ i = Len(ran[t]) + 1
    <3>1. Before(t, d, turn_budget', c.step, c.at, StartedTo(d))
      BY <1>0, <1>1, <1>3 DEF Before, StartedTo, Batching, Replying, Paid
    <3> QED
      BY <1>5, <1>11, <2>1, <3>1 DEF d
  <2>2. CASE ~(u = t /\ i = Len(ran[t]) + 1)
    <3>1. i \in 1..Len(ran[u]) /\ ran'[u][i] = ran[u][i]
      BY <1>9, <1>10, <1>11, <2>2
    <3>2. ran[u] \in Seq(Started)
      BY <1>0
    <3>3. ran[u][i] \in Started
      BY <3>1, <3>2
    <3>4. ran[u][i].step \in Nat /\ ran[u][i].k \in Nat
      BY <3>3 DEF Started
    <3>5. Before(u, task[u], turn_budget, ran[u][i].step, ran[u][i].k, StartedTo(task[u]))
      BY <3>1 DEF CallInv, RanBefore
    <3> QED
      BY <1>6, <3>1, <3>4, <3>5 DEF Passes
  <2> QED
    BY <2>1, <2>2
<1>15. CallsRunOnce'
  <2> SUFFICES ASSUME NEW u \in Turn, NEW i \in 1..Len(ran'[u]), NEW j \in 1..Len(ran'[u]), i # j
               PROVE  ~(ran'[u][i].step = ran'[u][j].step /\ ran'[u][i].k = ran'[u][j].k)
    BY DEF CallsRunOnce
  <2>1. CASE u # t
    BY <1>10, <2>1 DEF CallInv, CallsRunOnce
  <2>2. CASE u = t /\ i \in 1..Len(ran[t]) /\ j \in 1..Len(ran[t])
    BY <1>11, <2>2 DEF CallInv, CallsRunOnce
  <2>3. CASE u = t /\ i = Len(ran[t]) + 1 /\ j \in 1..Len(ran[t])
    <3>1. ran'[u][i].step = c.step /\ ran'[u][i].k = c.at /\ ran'[u][j] = ran[t][j]
      BY <1>5, <1>11, <2>3
    <3>2. ran[t][j].step < c.step \/ (ran[t][j].step = c.step /\ ran[t][j].k < c.at)
      BY <1>12, <2>3
    <3>3. ran[t][j].step \in Nat /\ ran[t][j].k \in Nat
      BY <1>13, <2>3
    <3> QED
      BY <1>1, <3>1, <3>2, <3>3
  <2>4. CASE u = t /\ j = Len(ran[t]) + 1 /\ i \in 1..Len(ran[t])
    <3>1. ran'[u][j].step = c.step /\ ran'[u][j].k = c.at /\ ran'[u][i] = ran[t][i]
      BY <1>5, <1>11, <2>4
    <3>2. ran[t][i].step < c.step \/ (ran[t][i].step = c.step /\ ran[t][i].k < c.at)
      BY <1>12, <2>4
    <3>3. ran[t][i].step \in Nat /\ ran[t][i].k \in Nat
      BY <1>13, <2>4
    <3> QED
      BY <1>1, <3>1, <3>2, <3>3
  <2> QED
    BY <1>9, <1>11, <2>1, <2>2, <2>3, <2>4
<1>16. HumanConsent'
  <2> DEFINE asked(u, x) == {a \in raised : a.turn = u /\ a.step = x.step /\ a.k = x.k}
             Fine(u, x) ==
               /\ x.auth = "human" => asked(u, x) # {}
               /\ \A a \in asked(u, x) :
                    {y \in answered : y.turn = u /\ y.ask = a.ask} =
                       {[turn |-> u, ask |-> a.ask, decision |-> "approved"]}
  <2>1. \A u \in Turn : \A i \in 1..Len(ran[u]) : Fine(u, ran[u][i])
    BY DEF CallInv, HumanConsent
  <2>2. Fine(t, r)
    <3>1. CASE c.auth = "human"
      <4>1. Asking(c) /\ c.at = c.k
        BY <1>1, <1>2, <1>4, <3>1 DEF Asking
      <4>2. /\ RequestOf(t) \in raised
            /\ \A a \in raised : a.turn = t /\ a.step = c.step /\ a.k = c.k => a = RequestOf(t)
        BY <4>1 DEF CallInv, RequestIsOwn, c
      <4>3. RequestOf(t).turn = t /\ RequestOf(t).ask = c.ask /\ RequestOf(t).step = c.step /\ RequestOf(t).k = c.k
        BY DEF RequestOf, c
      <4>4. asked(t, r) = {RequestOf(t)}
        BY <1>5, <4>1, <4>2, <4>3
      <4>5. AnswersTo(answered, t, c.ask) = {Yes(t, c.ask)}
        BY <3>1, <4>1 DEF CallInv, AnswersAreOwn, c
      <4> QED
        BY <4>3, <4>4, <4>5 DEF AnswersTo, Yes
    <3>2. CASE c.auth # "human"
      <4>1. c.auth \in {"none", "auto"}
        BY <1>0, <1>2, <3>2, NumberFields DEF Authority
      <4>2. AskedTo(c) = c.k
        BY <1>2, <4>1 DEF AskedTo, Asking
      <4>3. ASSUME NEW a \in raised, a.turn = t, a.step = c.step, a.k = c.at
            PROVE  FALSE
        <5>1. Before(t, c, turn_budget, a.step, a.k, c.k)
          BY <4>2, <4>3 DEF CallInv, RaisedBefore, c
        <5> QED
          BY <1>1, <1>2, <1>4, <4>3, <5>1 DEF Before, Batching
      <4>4. asked(t, r) = {}
        BY <1>5, <4>3
      <4> QED
        BY <1>5, <3>2, <4>4
    <3> QED
      BY <3>1, <3>2
  <2>3. \A u \in Turn : \A i \in 1..Len(ran'[u]) : Fine(u, ran'[u][i])
    <3> HIDE DEF Fine
    <3> QED
      BY <1>9, <1>10, <1>11, <2>1, <2>2
  <2> QED
    BY <1>7, <2>3 DEF HumanConsent
<1>17. CancelledCallNeverRan'
  <2> SUFFICES ASSUME NEW i \in 1..Len(entries'), NEW k \in DOMAIN entries'[i].res,
                      entries'[i].res[k] = "cancelled", NEW j \in 1..Len(ran'[entries'[i].turn]),
                      ran'[entries'[i].turn][j].step = entries'[i].n,
                      ran'[entries'[i].turn][j].k = k
               PROVE  FALSE
    BY Zenon DEF CancelledCallNeverRan
  <2>0. entries' = entries
    BY <1>0
  <2>1. CASE entries[i].turn = t /\ j = Len(ran[t]) + 1
    <3>1. entries[i].n = c.step /\ k = c.at
      BY <1>5, <1>11, <2>0, <2>1
    <3>2. Before(t, c, turn_budget, c.step, c.at, c.k)
      BY <2>0, <2>1, <3>1 DEF CallInv, AnsweredBefore, c
    <3> QED
      BY <1>1, <1>2, <1>4, <3>2 DEF Before, Batching
  <2>2. CASE entries[i].turn = t /\ j # Len(ran[t]) + 1
    <3>1. j \in 1..Len(ran[t]) /\ ran'[t][j] = ran[t][j]
      BY <1>9, <1>11, <2>0, <2>2
    <3> QED
      BY <2>0, <2>2, <3>1 DEF CallInv, CancelledCallNeverRan
  <2>3. CASE entries[i].turn # t
    <3>1. entries[i] \in Entry
      BY <1>0
    <3>2. ran'[entries[i].turn] = ran[entries[i].turn]
      BY <1>0, <1>2, <2>3, <3>1 DEF Entry
    <3> QED
      BY <2>0, <3>2 DEF CallInv, CancelledCallNeverRan
  <2> QED
    BY <2>0, <2>1, <2>2, <2>3
<1>18. AnsweredBefore' /\ RaisedBefore'
  <2>1. AnsweredBefore'
    <3> SUFFICES ASSUME NEW u \in Turn, NEW i \in 1..Len(entries), entries[i].turn = u,
                        NEW m \in DOMAIN entries[i].res, entries[i].res[m] # "pending"
                 PROVE  Before(u, task'[u], turn_budget', entries[i].n, m, task'[u].k)
      BY <1>0 DEF AnsweredBefore
    <3>1. entries[i] \in Entry
      BY <1>0
    <3>2. entries[i].n \in Nat /\ m \in Nat
      BY <3>1 DEF Entry
    <3> QED
      BY <1>6, <3>2 DEF CallInv, AnsweredBefore, Passes
  <2>2. RaisedBefore'
    <3> SUFFICES ASSUME NEW u \in Turn, NEW a \in raised, a.turn = u
                 PROVE  Before(u, task'[u], turn_budget', a.step, a.k, AskedTo(task'[u]))
      BY <1>7 DEF RaisedBefore
    <3>1. a.step \in Nat /\ a.k \in Nat
      BY <1>0
    <3> QED
      BY <1>6, <3>1 DEF CallInv, RaisedBefore, Passes
  <2> QED
    BY <2>1, <2>2
<1>19. NoCallsYet'
  <2>1. Derives(entries, entries', t, 0, 0, "pending")
    BY <1>0, DerivesSame
  <2> QED
    BY <1>0, <1>7, <1>8, <1>10, <2>1, OthersStay, NoCallsKept
<1>20. RequestIsOwn' /\ AnswersAreOwn'
  BY <1>6, <1>7, AsksKept
<1> QED
  BY <1>6, <1>14, <1>15, <1>16, <1>17, <1>18, <1>19, <1>20 DEF CallInv

(* The park raises a request about the task's call, under an id of its own. *)
LEMMA ParkCalls ==
    ASSUME CallInv, TypeOK', Inv', NEW t \in Turn, Park(t)
    PROVE  CallInv'
<1> DEFINE c == task[t]
           d == task'[t]
           q == RequestOf(t)
<1>0. /\ TypeOK /\ Inv /\ Groups /\ TaskStep(t)
      /\ c \in Task /\ d \in Task /\ turn_budget \in Budget /\ turn_budget' = turn_budget
      /\ Group(c) /\ (turn_budget.turn = t => c.step <= turn_budget.steps)
      /\ ran \in [Turn -> Seq(Started)] /\ entries' = entries
      /\ raised \subseteq [turn : Turn, ask : Nat, step : Nat, k : Nat]
      /\ asks \in [Turn -> Nat] /\ c.pc = "park"
      /\ UNCHANGED <<ran, answered, asks, boot>>
  BY DEF CallInv, Inv, TaskStep, BatchStep, TypeOK, StateType, TasksType, SeenType, Budget, Park,
     ownVars, Groups, TaskFrame
<1>1. c.k \in Nat /\ c.step \in Nat /\ c.at \in Nat /\ c.hi \in Nat /\ c.ask \in Nat
  BY <1>0, NumberFields
<1>2. \A u \in Turn \ {t} : task'[u] = task[u]
  BY <1>0, OthersStay
<1>3. /\ \A u \in Turn : Passes(u, task[u], task'[u], turn_budget, turn_budget')
      /\ Groups'
  BY <1>0, TaskAdvances
<1>4. boot[t].pc = "done"
  BY <1>0 DEF Inv, NotStarted
<1>5. Derives(entries, entries', t, 0, 0, "pending")
  BY <1>0, DerivesSame
<1>6. /\ RanBefore' /\ AnsweredBefore' /\ CallsRunOnce' /\ CancelledCallNeverRan'
      /\ UNCHANGED <<raised, answered>> => RaisedBefore' /\ HumanConsent'
  BY <1>0, <1>3, <1>5, OrderKept
<1>7. CASE ~MayPark(t)
  <2>1. UNCHANGED <<raised, pending>> /\ d.pc = "drop"
    BY <1>0, <1>7, TaskEdits DEF Park
  <2>2. NoCallsYet'
    BY <1>0, <1>2, <1>4, <1>5, <2>1, NoCallsKept
  <2>3. \A u \in Turn : AskKept(task[u], task'[u])
    BY <1>2, <2>1 DEF AskKept, Asking
  <2>4. RequestIsOwn' /\ AnswersAreOwn'
    BY <1>0, <2>1, <2>3, AsksKept
  <2> QED
    BY <1>0, <1>3, <1>6, <2>1, <2>2, <2>4 DEF CallInv
<1>8. CASE MayPark(t)
  <2>1. /\ raised' = raised \cup {q} /\ pending' = [turn |-> t, ask |-> c.ask]
        /\ d.pc = "parked" /\ Keeps(d, c)
    BY <1>0, <1>8, TaskEdits DEF Park, RequestOf
  <2>2. /\ q.turn = t /\ q.ask = c.ask /\ q.step = c.step /\ q.k = c.k
        /\ q = [turn |-> t, ask |-> c.ask, step |-> c.step, k |-> c.k]
    BY DEF RequestOf
  <2>3. /\ d.k = c.k /\ d.step = c.step /\ d.ask = c.ask /\ d.auth = c.auth /\ c.auth = "none"
        /\ c.at = c.k
    BY <1>0, <2>1 DEF Keeps, Group
  <2>4. RequestOf(t)' = q
    BY <2>2, <2>3 DEF RequestOf
  <2> HIDE DEF c, d, q
  <2>5. \A a \in raised : a.turn = t => a.ask < c.ask /\ (a.step < c.step \/ (a.step = c.step /\ a.k < c.k))
    <3> SUFFICES ASSUME NEW a \in raised, a.turn = t
                 PROVE  a.ask < c.ask /\ (a.step < c.step \/ (a.step = c.step /\ a.k < c.k))
      OBVIOUS
    <3>1. Before(t, c, turn_budget, a.step, a.k, AskedTo(c))
      BY DEF CallInv, RaisedBefore, c
    <3>2. AskedTo(c) = c.k
      BY <1>0 DEF AskedTo, Asking, c
    <3>3. a.ask < c.ask
      BY <1>0 DEF CallInv, RequestIsOwn, c
    <3> QED
      BY <1>0, <3>1, <3>2, <3>3 DEF Before, Batching, c
  <2>6. NoCallsYet'
    <3>1. \A a \in raised' : a \in raised \/ a.turn = t
      BY <2>1, <2>2
    <3> QED
      BY <1>0, <1>2, <1>4, <1>5, <3>1, NoCallsKept
  <2>7. RaisedBefore'
    <3> SUFFICES ASSUME NEW u \in Turn, NEW a \in raised', a.turn = u
                 PROVE  Before(u, task'[u], turn_budget', a.step, a.k, AskedTo(task'[u]))
      BY DEF RaisedBefore
    <3>1. CASE a \in raised
      <4>1. a.step \in Nat /\ a.k \in Nat
        BY <1>0, <3>1
      <4> QED
        BY <1>3, <3>1, <4>1 DEF CallInv, RaisedBefore, Passes
    <3>2. CASE a = q
      <4>1. u = t /\ a.step = c.step /\ a.k = c.k
        BY <2>2, <3>2
      <4>2. AskedTo(d) = c.k + 1
        BY <2>1, <2>3 DEF AskedTo, Asking
      <4>3. Before(t, d, turn_budget', c.step, c.k, AskedTo(d))
        BY <1>0, <1>1, <2>1, <2>3, <4>2 DEF Before, Batching, Replying, Paid, c, d
      <4> QED
        BY <4>1, <4>3 DEF d
    <3> QED
      BY <2>1, <3>1, <3>2
  <2>8. HumanConsent'
    <3> DEFINE Fine(u, x, rs) ==
                 LET asked == {a \in rs : a.turn = u /\ a.step = x.step /\ a.k = x.k}
                 IN  /\ x.auth = "human" => asked # {}
                     /\ \A a \in asked :
                          {y \in answered : y.turn = u /\ y.ask = a.ask} =
                             {[turn |-> u, ask |-> a.ask, decision |-> "approved"]}
    <3>1. \A u \in Turn : \A i \in 1..Len(ran[u]) : Fine(u, ran[u][i], raised)
      BY DEF CallInv, HumanConsent
    <3>2. ASSUME NEW u \in Turn, NEW i \in 1..Len(ran[u])
          PROVE  {a \in raised' : a.turn = u /\ a.step = ran[u][i].step /\ a.k = ran[u][i].k}
                   = {a \in raised : a.turn = u /\ a.step = ran[u][i].step /\ a.k = ran[u][i].k}
      <4>1. ASSUME u = t, ran[u][i].step = c.step, ran[u][i].k = c.k
            PROVE  FALSE
        <5>1. Before(t, c, turn_budget, c.step, c.k, StartedTo(c))
          BY <4>1 DEF CallInv, RanBefore, c
        <5> QED
          BY <1>0, <1>1, <5>1 DEF Before, StartedTo, Batching, c
      <4> QED
        BY <2>1, <2>2, <4>1
    <3>3. \A u \in Turn : \A i \in 1..Len(ran[u]) : Fine(u, ran[u][i], raised')
      BY <3>1, <3>2
    <3> QED
      BY <1>0, <3>3 DEF HumanConsent
  <2>9. RequestIsOwn'
    <3>1. \A a \in raised' : /\ a.ask <= asks'[a.turn]
                             /\ task'[a.turn].pc = "park" => a.ask < task'[a.turn].ask
      <4> SUFFICES ASSUME NEW a \in raised'
                   PROVE  /\ a.ask <= asks[a.turn]
                          /\ task'[a.turn].pc = "park" => a.ask < task'[a.turn].ask
        BY <1>0
      <4>1. CASE a \in raised
        <5>1. a.turn \in Turn
          BY <1>0, <4>1
        <5> QED
          BY <1>2, <2>1, <4>1, <5>1 DEF CallInv, RequestIsOwn, d
      <4>2. CASE a = q
        BY <1>0, <2>1, <2>2, <4>2 DEF CallInv, RequestIsOwn, c, d
      <4> QED
        BY <2>1, <4>1, <4>2
    <3>2. ASSUME NEW u \in Turn
          PROVE  /\ task'[u].pc = "park" => task'[u].ask <= asks'[u]
                 /\ pending'.turn = u => pending'.ask = task'[u].ask
                 /\ Asking(task'[u]) =>
                      /\ RequestOf(u)' \in raised'
                      /\ \A a \in raised' :
                           a.turn = u /\ a.step = task'[u].step /\ a.k = task'[u].k => a = RequestOf(u)'
      <4>1. CASE u = t
        <5>1. \A a \in raised' : a.turn = t /\ a.step = c.step /\ a.k = c.k => a = q
          <6>1. ASSUME NEW a \in raised, a.turn = t, a.step = c.step, a.k = c.k
                PROVE  FALSE
            BY <1>1, <2>5, <6>1 DEF c
          <6> QED
            BY <2>1, <6>1
        <5> QED
          BY <2>1, <2>3, <2>4, <4>1, <5>1 DEF d
      <4>2. CASE u # t
        <5>1. task'[u] = task[u] /\ RequestOf(u)' = RequestOf(u)
          BY <1>2, <4>2 DEF RequestOf
        <5>2. \A a \in raised' : a.turn = u => a \in raised
          BY <2>1, <2>2, <4>2
        <5>3. pending'.turn # u
          BY <2>1, <4>2
        <5> QED
          BY <1>0, <2>1, <5>1, <5>2, <5>3 DEF CallInv, RequestIsOwn
      <4> QED
        BY <4>1, <4>2
    <3>3. \A a, b \in raised' : a.turn = b.turn /\ a.ask = b.ask => a = b
      <4>1. \A a \in raised : ~(a.turn = q.turn /\ a.ask = q.ask)
        BY <1>0, <1>1, <2>2, <2>5 DEF c
      <4> QED
        BY <2>1, <4>1 DEF CallInv, RequestIsOwn
    <3> QED
      BY <3>1, <3>2, <3>3 DEF RequestIsOwn
  <2>10. AnswersAreOwn'
    <3>1. \A x \in answered' : \E a \in raised' : a.turn = x.turn /\ a.ask = x.ask
      BY <1>0, <2>1 DEF CallInv, AnswersAreOwn
    <3>2. AnswersTo(answered, t, c.ask) = {}
      <4>1. ASSUME NEW x \in answered, x.turn = t, x.ask = c.ask
            PROVE  FALSE
        <5>1. PICK a \in raised : a.turn = x.turn /\ a.ask = x.ask
          BY DEF CallInv, AnswersAreOwn
        <5> QED
          BY <1>1, <2>5, <4>1, <5>1 DEF c
      <4> QED
        BY <4>1 DEF AnswersTo
    <3>3. ASSUME NEW u \in Turn
          PROVE  /\ task'[u].pc = "parked" => AnswersTo(answered', u, task'[u].ask) = {}
                 /\ Asking(task'[u]) /\ task'[u].auth = "human" =>
                      AnswersTo(answered', u, task'[u].ask) = {Yes(u, task'[u].ask)}
      <4>1. CASE u = t
        BY <1>0, <2>1, <2>3, <3>2, <4>1 DEF d
      <4>2. CASE u # t
        BY <1>0, <1>2, <4>2 DEF CallInv, AnswersAreOwn
      <4> QED
        BY <4>1, <4>2
    <3> QED
      BY <3>1, <3>3 DEF AnswersAreOwn
  <2> QED
    BY <1>3, <1>6, <2>6, <2>7, <2>8, <2>9, <2>10 DEF CallInv
<1> QED
  BY <1>7, <1>8

(* A new approval id is larger than those of the turn's earlier requests. *)
LEMMA GateCalls ==
    ASSUME CallInv, TypeOK', Inv', NEW t \in Turn, Gate(t), task'[t].pc = "park"
    PROVE  CallInv'
<1>0. /\ TypeOK /\ Inv /\ Groups /\ TaskStep(t) /\ asks \in [Turn -> Nat]
      /\ task[t] \in Task /\ task'[t] \in Task /\ task[t].pc = "gate"
      /\ raised \subseteq [turn : Turn, ask : Nat, step : Nat, k : Nat]
      /\ UNCHANGED <<ran, raised, answered, entries, boot, pending>>
  BY DEF CallInv, Inv, TaskStep, BatchStep, TypeOK, TasksType, SeenType, Gate, TaskFrame
<1>1. \A u \in Turn \ {t} : task'[u] = task[u]
  BY <1>0, OthersStay
<1>2. task'[t].ask = asks[t] + 1 /\ asks' = [asks EXCEPT ![t] = @ + 1]
  <2>1. \A d : Become(t, d) => task'[t] = d
    BY <1>0, TaskEdits
  <2>2. ~Become(t, [task[t] EXCEPT !.pc = "run", !.auth = "auto"])
    BY <1>0, <2>1 DEF Task
  <2>3. ~Become(t, [task[t] EXCEPT !.pc = "record", !.at = @ + 1, !.got = "done"])
    BY <1>0, <2>1 DEF Task
  <2>4. /\ asks' = [asks EXCEPT ![t] = @ + 1]
        /\ Become(t, [task[t] EXCEPT !.pc = "park", !.ask = asks[t] + 1])
    BY <2>2, <2>3 DEF Gate
  <2>5. task'[t] = [task[t] EXCEPT !.pc = "park", !.ask = asks[t] + 1]
    BY <2>1, <2>4
  <2> QED
    BY <1>0, <2>4, <2>5 DEF Task
<1>3. /\ \A u \in Turn : Passes(u, task[u], task'[u], turn_budget, turn_budget')
      /\ Groups'
  BY <1>0, TaskAdvances
<1>4. boot[t].pc = "done" /\ Derives(entries, entries', t, 0, 0, "pending")
  BY <1>0, DerivesSame DEF Inv, NotStarted
<1>5. /\ RanBefore' /\ AnsweredBefore' /\ CallsRunOnce' /\ CancelledCallNeverRan'
      /\ RaisedBefore' /\ HumanConsent'
  BY <1>0, <1>3, <1>4, OrderKept
<1>6. NoCallsYet'
  BY <1>0, <1>1, <1>4, NoCallsKept
<1>7. RequestIsOwn'
  <2>1. \A a \in raised' : /\ a.ask <= asks'[a.turn]
                           /\ task'[a.turn].pc = "park" => a.ask < task'[a.turn].ask
    <3> SUFFICES ASSUME NEW a \in raised
                 PROVE  /\ a.ask <= asks'[a.turn]
                        /\ task'[a.turn].pc = "park" => a.ask < task'[a.turn].ask
      BY <1>0
    <3>1. a.turn \in Turn /\ a.ask \in Nat /\ a.ask <= asks[a.turn] /\ asks[a.turn] \in Nat
      BY <1>0 DEF CallInv, RequestIsOwn
    <3>2. CASE a.turn = t
      BY <1>0, <1>2, <3>1, <3>2
    <3>3. CASE a.turn # t
      BY <1>0, <1>1, <1>2, <3>1, <3>3 DEF CallInv, RequestIsOwn
    <3> QED
      BY <3>2, <3>3
  <2>2. ASSUME NEW u \in Turn
        PROVE  /\ task'[u].pc = "park" => task'[u].ask <= asks'[u]
               /\ pending'.turn = u => pending'.ask = task'[u].ask
               /\ Asking(task'[u]) =>
                    /\ RequestOf(u)' \in raised'
                    /\ \A a \in raised' :
                         a.turn = u /\ a.step = task'[u].step /\ a.k = task'[u].k => a = RequestOf(u)'
    <3>1. CASE u = t
      <4>1. pending.turn # t
        BY <1>0 DEF Inv, ParkedWaits
      <4>2. ~Asking(task'[t])
        BY DEF Asking
      <4> QED
        BY <1>0, <1>2, <3>1, <4>1, <4>2
    <3>2. CASE u # t
      <4>1. task'[u] = task[u] /\ RequestOf(u)' = RequestOf(u) /\ asks'[u] = asks[u]
        BY <1>0, <1>1, <1>2, <3>2 DEF RequestOf
      <4> QED
        BY <1>0, <4>1 DEF CallInv, RequestIsOwn
    <3> QED
      BY <3>1, <3>2
  <2>3. \A a, b \in raised' : a.turn = b.turn /\ a.ask = b.ask => a = b
    BY <1>0 DEF CallInv, RequestIsOwn
  <2> QED
    BY <2>1, <2>2, <2>3 DEF RequestIsOwn
<1>8. AnswersAreOwn'
  <2>1. \A x \in answered' : \E a \in raised' : a.turn = x.turn /\ a.ask = x.ask
    BY <1>0 DEF CallInv, AnswersAreOwn
  <2>2. ASSUME NEW u \in Turn
        PROVE  /\ task'[u].pc = "parked" => AnswersTo(answered', u, task'[u].ask) = {}
               /\ Asking(task'[u]) /\ task'[u].auth = "human" =>
                    AnswersTo(answered', u, task'[u].ask) = {Yes(u, task'[u].ask)}
    <3>1. CASE u = t
      BY <3>1 DEF Asking
    <3>2. CASE u # t
      BY <1>0, <1>1, <3>2 DEF CallInv, AnswersAreOwn
    <3> QED
      BY <3>1, <3>2
  <2> QED
    BY <2>1, <2>2 DEF AnswersAreOwn
<1> QED
  BY <1>3, <1>5, <1>6, <1>7, <1>8 DEF CallInv

LEMMA TaskCalls ==
    ASSUME CallInv, TypeOK', Inv', NEW t \in Turn, TaskStep(t)
    PROVE  CallInv'
<1>0. TypeOK /\ Groups
  BY DEF CallInv, Inv
<1>1. CASE Park(t)
  BY <1>1, ParkCalls
<1>2. CASE task'[t].pc = "park"
  BY <1>0, <1>2, TaskAdvances, GateCalls
<1>3. CASE RecordResult(t) \/ DropCalls(t)
  BY <1>3, AnswerCalls
<1>4. CASE ran' # ran
  BY <1>0, <1>4, TaskRest, StartCalls
<1>5. CASE /\ ~Park(t) /\ task'[t].pc # "park" /\ ran' = ran
           /\ ~RecordResult(t) /\ ~DropCalls(t)
  <2>1. Derives(entries, entries', t, 0, 0, "pending")
    BY <1>0, <1>5, NoAnswer
  <2> QED
    BY <1>5, <2>1, QuietCalls
<1> QED
  BY <1>1, <1>2, <1>3, <1>4, <1>5

-----------------------------------------------------------------------------
(* The other steps keep the invariant *)

(* Nothing of the calls changes. *)
LEMMA StillCalls ==
    ASSUME CallInv, Inv', UNCHANGED <<task, turn_budget, entries, ran, raised, answered, asks, pending>>,
           \A u \in Turn : boot'[u].pc # "done" => boot[u].pc # "done"
    PROVE  CallInv'
<1>1. Groups' /\ RanBefore' /\ AnsweredBefore' /\ RaisedBefore'
  BY DEF CallInv, Groups, RanBefore, AnsweredBefore, RaisedBefore
<1>2. NoCallsYet'
  BY DEF CallInv, NoCallsYet
<1>3. RequestIsOwn' /\ AnswersAreOwn'
  BY DEF CallInv, RequestIsOwn, AnswersAreOwn, RequestOf
<1>4. CallsRunOnce' /\ CancelledCallNeverRan'
  BY DEF CallInv, CallsRunOnce, CancelledCallNeverRan
<1>5. HumanConsent'
  BY DEF CallInv, HumanConsent
<1> QED
  BY <1>1, <1>2, <1>3, <1>4, <1>5 DEF CallInv

LEMMA BootCalls ==
    ASSUME CallInv, TypeOK', Inv', NEW t \in Turn, BootStep(t)
    PROVE  CallInv'
<1>0. /\ TypeOK /\ Inv /\ Groups /\ boot \in [Turn -> [pc : BootPc, orphan : Turn \cup {NoTurn}]]
      /\ \A u \in Turn : task[u] \in Task /\ task'[u] \in Task
      /\ turn_budget \in Budget /\ turn_budget' \in Budget /\ entries \in Seq(Entry)
      /\ UNCHANGED <<ran, raised, answered, asks>>
  BY DEF CallInv, Inv, TypeOK, StateType, TasksType, Budget, BootStep, BeginSupersede, OrphanRead,
     OrphanFinish, Install, Drive, BootFrame, askVars
<1>1. CASE BeginSupersede(t) \/ OrphanRead(t) \/ OrphanFinish(t)
  <2>1. UNCHANGED <<task, turn_budget, entries, pending>>
    BY <1>1 DEF BeginSupersede, OrphanRead, OrphanFinish, ownVars
  <2>2. \A u \in Turn : boot'[u].pc # "done" => boot[u].pc # "done"
    BY <1>0, <1>1 DEF BeginSupersede, OrphanRead, OrphanFinish
  <2> QED
    BY <1>0, <2>1, <2>2, StillCalls
<1>2. CASE Install(t)
  <2>1. /\ entries' = Append(entries, UserEntry(t)) /\ pending' = NoPending
        /\ boot[t].pc = "install" /\ boot' = [boot EXCEPT ![t].pc = "drive"]
        /\ turn_budget' = [NoBudget EXCEPT !.turn = t]
        /\ task' = [u \in Turn |-> IF u = pending.turn THEN Fresh("done", NoTurn) ELSE task[u]]
    BY <1>2 DEF Install
  <2>2. turn_budget'.turn = t /\ turn_budget'.steps = 0
    BY <2>1 DEF NoBudget
  <2>3. /\ Fresh("done", NoTurn).pc = "done" /\ Fresh("done", NoTurn).step = 0
        /\ Fresh("done", NoTurn).auth = "none"
    BY DEF Fresh
  <2>4. \A u \in Turn : \/ task'[u] = task[u]
                        \/ task'[u].pc = "done" /\ task'[u].step = 0 /\ task'[u].auth = "none"
    BY <2>1, <2>3
  <2>5. \A u \in Turn : boot'[u].pc # "done" <=> boot[u].pc # "done"
    BY <1>0, <2>1
  <2>6. \A u \in Turn : boot[u].pc # "done" => task'[u].step = 0
    BY <2>4 DEF CallInv, NoCallsYet
  <2>7. ASSUME NEW u \in Turn, boot[u].pc = "done"
        PROVE  Passes(u, task[u], task'[u], turn_budget, turn_budget')
    <3>1. u # t
      BY <2>1, <2>7
    <3> QED
      BY <2>2, <2>4, <3>1 DEF Passes, Before, Replying, Paid, Batching
  <2>8. Derives(entries, entries', t, 0, 0, "pending") /\ UserEntry(t).res = <<>>
    <3>1. UserEntry(t) \in Entry /\ UserEntry(t).res = <<>>
      BY EntryTypes DEF UserEntry
    <3>2. UserEntry(t) \in OldOrNone(entries, t)
      BY <3>1 DEF OldOrNone, BringsNone
    <3>3. entries' \in Seq(OldOrNone(entries, t))
      BY <1>0, <2>1, <3>2, OldAreOld
    <3> QED
      BY <1>0, <3>1, <3>3, DerivesAdded
  <2>9. /\ RanBefore' /\ AnsweredBefore' /\ CallsRunOnce' /\ CancelledCallNeverRan'
        /\ RaisedBefore' /\ HumanConsent'
    BY <1>0, <2>7, <2>8, OrderKept
  <2>10. NoCallsYet'
    <3>1. \A i \in 1..Len(entries') : entries'[i].res = <<>> \/ (i \in 1..Len(entries) /\ entries'[i] = entries[i])
      BY <1>0, <2>1, <2>8
    <3> QED
      BY <1>0, <2>5, <2>6, <3>1 DEF CallInv, NoCallsYet
  <2>11. Groups'
    <3> SUFFICES ASSUME NEW u \in Turn
                 PROVE  Group(task'[u]) /\ (turn_budget'.turn = u => task'[u].step <= turn_budget'.steps)
      BY DEF Groups
    <3>1. Group(task'[u])
      BY <1>0, <2>4 DEF Groups, Group
    <3>2. turn_budget'.turn = u => task'[u].step <= turn_budget'.steps
      BY <2>1, <2>2, <2>6
    <3> QED
      BY <3>1, <3>2
  <2>12. \A u \in Turn : AskKept(task[u], task'[u])
    BY <2>4 DEF AskKept, Asking
  <2>13. RequestIsOwn' /\ AnswersAreOwn'
    BY <1>0, <2>1, <2>12, AsksKept
  <2> QED
    BY <2>9, <2>10, <2>11, <2>13 DEF CallInv
<1>3. CASE Drive(t)
  <2>1. /\ UNCHANGED <<turn_budget, entries, pending>>
        /\ boot[t].pc = "drive" /\ boot' = [boot EXCEPT ![t].pc = "done"]
        /\ task' = task \/ Become(t, Fresh("entry", t))
    BY <1>3 DEF Drive, ownVars
  <2>2. /\ \A u \in Turn \ {t} : task'[u] = task[u]
        /\ \/ task'[t] = task[t]
           \/ task'[t].pc = "entry" /\ task'[t].step = 0 /\ task'[t].auth = "none"
    BY <1>0, <2>1, TaskEdits DEF Fresh
  <2>3. \A u \in Turn : boot'[u].pc # "done" => boot[u].pc # "done"
    BY <1>0, <2>1
  <2>4. ASSUME NEW u \in Turn, boot[u].pc = "done"
        PROVE  Passes(u, task[u], task'[u], turn_budget, turn_budget')
    <3>1. u # t
      BY <2>1, <2>4
    <3> QED
      BY <2>1, <2>2, <3>1 DEF Passes
  <2>5. Derives(entries, entries', t, 0, 0, "pending")
    BY <2>1, DerivesSame
  <2>6. /\ RanBefore' /\ AnsweredBefore' /\ CallsRunOnce' /\ CancelledCallNeverRan'
        /\ RaisedBefore' /\ HumanConsent'
    BY <1>0, <2>4, <2>5, OrderKept
  <2>7. NoCallsYet'
    <3>1. \A u \in Turn : boot'[u].pc # "done" => task'[u].step = 0
      BY <2>2, <2>3 DEF CallInv, NoCallsYet
    <3> QED
      BY <1>0, <2>1, <2>3, <3>1 DEF CallInv, NoCallsYet
  <2>8. Groups'
    <3> SUFFICES ASSUME NEW u \in Turn
                 PROVE  Group(task'[u]) /\ (turn_budget'.turn = u => task'[u].step <= turn_budget'.steps)
      BY DEF Groups
    <3>1. Group(task'[u])
      BY <1>0, <2>2 DEF Groups, Group
    <3>2. turn_budget'.steps \in Nat
      BY <1>0 DEF Budget
    <3>3. turn_budget'.turn = u => task'[u].step <= turn_budget'.steps
      BY <1>0, <2>1, <2>2, <3>2 DEF Groups
    <3> QED
      BY <3>1, <3>3
  <2>9. \A u \in Turn : AskKept(task[u], task'[u])
    BY <2>2 DEF AskKept, Asking
  <2>10. RequestIsOwn' /\ AnswersAreOwn'
    BY <1>0, <2>1, <2>9, AsksKept
  <2> QED
    BY <2>6, <2>7, <2>8, <2>10 DEF CallInv
<1> QED
  BY <1>1, <1>2, <1>3 DEF BootStep

(* cancel_turn_inner: what is left of the parked batch is dropped. *)
LEMMA CancelCalls ==
    ASSUME CallInv, TypeOK', Inv', CancelInner,
           UNCHANGED <<turn_budget, entries, ran, raised, answered, asks, boot>>
    PROVE  CallInv'
<1>0. /\ TypeOK /\ Inv /\ Groups /\ turn_budget \in Budget
      /\ \A u \in Turn : task[u] \in Task /\ task'[u] \in Task
  BY DEF CallInv, Inv, TypeOK, StateType, TasksType, Budget
<1>1. \A u \in Turn :
        \/ task'[u] = task[u]
        \/ /\ task[u].pc = "parked" /\ task'[u].pc = "drop" /\ task'[u].auth = "none"
           /\ task'[u].step = task[u].step /\ task'[u].k = task[u].k
  <2> SUFFICES ASSUME NEW u \in Turn, u = pending.turn
               PROVE  /\ task[u].pc = "parked" /\ task'[u].pc = "drop" /\ task'[u].auth = "none"
                      /\ task'[u].step = task[u].step /\ task'[u].k = task[u].k
    BY DEF CancelInner
  <2>1. task'[u] = [Dropping(task[u]) EXCEPT !.tx = turn_events]
    BY DEF CancelInner
  <2>2. task[u].pc = "parked"
    BY <1>0 DEF Inv, ParkedWaits
  <2>3. /\ task'[u].pc = "drop" /\ task'[u].auth = "none"
        /\ task'[u].step = task[u].step /\ task'[u].k = task[u].k
    BY <2>1 DEF Dropping, Fresh
  <2> QED
    BY <2>2, <2>3
<1>2. ASSUME NEW u \in Turn
      PROVE  Advances(u, task[u], task'[u], turn_budget, turn_budget')
  <2>1. Counts(turn_budget, turn_budget') /\ turn_budget' \in Budget /\ turn_budget.steps \in Nat
    BY <1>0 DEF Counts, Budget
  <2>2. Group(task[u]) /\ (turn_budget.turn = u => task[u].step <= turn_budget.steps)
    BY <1>0 DEF Groups
  <2>3. CASE task'[u] = task[u]
    BY <1>0, <2>1, <2>2, <2>3, PassesStill DEF Advances
  <2>4. CASE /\ task[u].pc = "parked" /\ task'[u].pc = "drop" /\ task'[u].auth = "none"
             /\ task'[u].step = task[u].step /\ task'[u].k = task[u].k
    <3>1. Group(task'[u])
      BY <2>4 DEF Group
    <3>2. task[u].k \in Nat
      BY <1>0, NumberFields
    <3>3. StartedTo(task'[u]) >= StartedTo(task[u]) /\ AskedTo(task'[u]) >= AskedTo(task[u])
      BY <2>4, <3>2 DEF StartedTo, AskedTo, Asking
    <3>4. task[u].pc \in Batching /\ task'[u].pc \in Batching /\ task'[u].k >= task[u].k
      BY <2>4, <3>2 DEF Batching
    <3> QED
      BY <1>0, <2>1, <2>2, <2>4, <3>1, <3>3, <3>4, AdvanceBatch
  <2> QED
    BY <1>1, <2>3, <2>4
<1>3. Groups' /\ \A u \in Turn : Passes(u, task[u], task'[u], turn_budget, turn_budget')
  BY <1>2 DEF Advances, Groups
<1>4. CallInv' \/ \E t \in Turn : TRUE
  <2>1. SUFFICES ASSUME Turn = {}
                 PROVE  CallInv'
    OBVIOUS
  <2>2. raised = {} /\ answered = {} /\ raised' = {} /\ answered' = {}
    BY <1>0, <2>1 DEF TypeOK, SeenType
  <2>3. \A i \in 1..Len(entries) : entries'[i].res = entries[i].res
    OBVIOUS
  <2>4. CancelledCallNeverRan'
    BY DEF CallInv, CancelledCallNeverRan
  <2> QED
    BY <1>3, <2>1, <2>2, <2>4 DEF CallInv, NoCallsYet, RanBefore, AnsweredBefore, RaisedBefore,
       RequestIsOwn, AnswersAreOwn, CallsRunOnce, HumanConsent
<1>5. ASSUME NEW t \in Turn
      PROVE  CallInv'
  <2>1. Derives(entries, entries', t, 0, 0, "pending")
    BY DerivesSame
  <2>2. /\ RanBefore' /\ AnsweredBefore' /\ CallsRunOnce' /\ CancelledCallNeverRan'
        /\ RaisedBefore' /\ HumanConsent'
    BY <1>0, <1>3, <2>1, OrderKept
  <2>3. NoCallsYet'
    BY <1>1 DEF CallInv, NoCallsYet
  <2>4. \A u \in Turn : AskKept(task[u], task'[u])
    BY <1>1 DEF AskKept, Asking
  <2>5. pending' = NoPending
    BY DEF CancelInner, TakePending
  <2>6. RequestIsOwn' /\ AnswersAreOwn'
    BY <2>4, <2>5, AsksKept
  <2> QED
    BY <1>3, <2>2, <2>3, <2>6 DEF CallInv
<1> QED
  BY <1>4, <1>5

(* submit_approval: the answer is the parked call's own, and its first. *)
LEMMA SubmitCalls ==
    ASSUME CallInv, TypeOK', Inv', NEW q \in raised, NEW decision \in {"approved", "denied"},
           SubmitApproval(q, decision)
    PROVE  CallInv'
<1> DEFINE t == q.turn
           c == task[t]
           d == task'[t]
           x == [turn |-> t, ask |-> q.ask, decision |-> decision]
<1>0. /\ TypeOK /\ Inv /\ Groups /\ t \in Turn /\ c \in Task /\ turn_budget \in Budget
      /\ task \in [Turn -> Task] /\ \A u \in Turn : task[u] \in Task /\ task'[u] \in Task
      /\ ran \in [Turn -> Seq(Started)]
      /\ raised \subseteq [turn : Turn, ask : Nat, step : Nat, k : Nat]
      /\ pending.turn = t /\ pending.ask = q.ask
      /\ answered' = answered \cup {x} /\ pending' = NoPending
      /\ UNCHANGED <<ran, raised, asks, boot, entries, turn_budget>>
  BY DEF CallInv, Inv, TypeOK, StateType, TasksType, SeenType, Budget, SubmitApproval,
     AnswersPending, TakePending, ownVars, TaskFrame
<1>1. c.pc = "parked" /\ boot[t].pc = "done" /\ c.ask = q.ask
  BY <1>0 DEF CallInv, Inv, ParkedWaits, NotStarted, RequestIsOwn
<1>2. d = [c EXCEPT !.pc = "channel", !.auth = IF decision = "approved" THEN "human" ELSE "denied"]
  BY <1>0 DEF SubmitApproval, Become
<1>3. /\ d.pc = "channel" /\ d.auth = (IF decision = "approved" THEN "human" ELSE "denied")
      /\ d.k = c.k /\ d.hi = c.hi /\ d.at = c.at /\ d.step = c.step /\ d.ask = c.ask
  BY <1>0, <1>2 DEF Task
<1>4. \A u \in Turn \ {t} : task'[u] = task[u]
  BY <1>0 DEF SubmitApproval, Become
<1>5. c.k \in Nat /\ c.step \in Nat /\ c.ask \in Nat /\ Asking(c) /\ Asking(d)
  BY <1>0, <1>1, <1>3, NumberFields DEF Asking
<1>6. q = RequestOf(t) /\ q.step = c.step /\ q.k = c.k /\ RequestOf(t)' = RequestOf(t)
  <2>1. RequestOf(t) \in raised
    BY <1>0, <1>5 DEF CallInv, RequestIsOwn
  <2>2. RequestOf(t).turn = t /\ RequestOf(t).ask = c.ask /\ RequestOf(t).step = c.step /\ RequestOf(t).k = c.k
    BY DEF RequestOf
  <2>3. q = RequestOf(t)
    BY <1>1, <2>1, <2>2 DEF CallInv, RequestIsOwn
  <2> QED
    BY <1>3, <2>2, <2>3 DEF RequestOf
<1> HIDE DEF t, c, d, x
<1>7. x.turn = t /\ x.ask = q.ask /\ (decision = "approved" => x = Yes(t, c.ask))
  BY <1>1 DEF x, Yes
<1>8. ASSUME NEW u \in Turn
      PROVE  Advances(u, task[u], task'[u], turn_budget, turn_budget')
  <2>1. Counts(turn_budget, turn_budget') /\ turn_budget' \in Budget /\ turn_budget.steps \in Nat
    BY <1>0 DEF Counts, Budget
  <2>2. Group(task[u]) /\ (turn_budget.turn = u => task[u].step <= turn_budget.steps)
    BY <1>0 DEF Groups
  <2>3. CASE u # t
    BY <1>0, <1>4, <2>1, <2>2, <2>3, PassesStill DEF Advances
  <2>4. CASE u = t
    <3>1. Group(d)
      BY <1>1, <1>3, <2>2, <2>4 DEF Group, c
    <3>2. StartedTo(d) >= StartedTo(c) /\ AskedTo(d) >= AskedTo(c)
      BY <1>1, <1>3, <1>5 DEF StartedTo, AskedTo
    <3>3. c.pc \in Batching /\ d.pc \in Batching /\ d.k >= c.k
      BY <1>1, <1>3, <1>5 DEF Batching
    <3>4. d \in Task
      BY <1>0 DEF d
    <3> QED
      BY <1>0, <1>3, <2>1, <2>2, <2>4, <3>1, <3>2, <3>3, <3>4, AdvanceBatch DEF c, d
  <2> QED
    BY <2>3, <2>4
<1>9. Groups' /\ \A u \in Turn : Passes(u, task[u], task'[u], turn_budget, turn_budget')
  BY <1>8 DEF Advances, Groups
<1>10. Derives(entries, entries', t, 0, 0, "pending")
  BY <1>0, DerivesSame
<1>11. RanBefore' /\ AnsweredBefore' /\ RaisedBefore' /\ CallsRunOnce' /\ CancelledCallNeverRan'
  BY <1>0, <1>9, <1>10, OrderKept
<1>12. NoCallsYet'
  BY <1>0, <1>1, <1>4, <1>10, NoCallsKept
<1>13. HumanConsent'
  <2> DEFINE Fine(u, z, xs) ==
               LET asked == {a \in raised : a.turn = u /\ a.step = z.step /\ a.k = z.k}
               IN  /\ z.auth = "human" => asked # {}
                   /\ \A a \in asked :
                        {y \in xs : y.turn = u /\ y.ask = a.ask} =
                           {[turn |-> u, ask |-> a.ask, decision |-> "approved"]}
  <2>1. \A u \in Turn : \A i \in 1..Len(ran[u]) : Fine(u, ran[u][i], answered)
    BY DEF CallInv, HumanConsent
  <2>2. ASSUME NEW u \in Turn, NEW i \in 1..Len(ran[u]), NEW a \in raised,
               a.turn = u, a.step = ran[u][i].step, a.k = ran[u][i].k
        PROVE  {y \in answered' : y.turn = u /\ y.ask = a.ask}
                 = {y \in answered : y.turn = u /\ y.ask = a.ask}
    <3>1. ASSUME u = t, a.ask = q.ask
          PROVE  FALSE
      <4>1. a = q
        BY <2>2, <3>1 DEF CallInv, RequestIsOwn, t
      <4>2. Before(t, c, turn_budget, c.step, c.k, StartedTo(c))
        BY <1>6, <2>2, <3>1, <4>1 DEF CallInv, RanBefore, c
      <4> QED
        BY <1>1, <1>5, <4>2 DEF Before, StartedTo, Batching
    <3> QED
      BY <1>0, <1>7, <3>1
  <2>3. \A u \in Turn : \A i \in 1..Len(ran[u]) : Fine(u, ran[u][i], answered')
    BY <2>1, <2>2
  <2> QED
    BY <1>0, <2>3 DEF HumanConsent
<1>14. RequestIsOwn'
  <2>1. \A a \in raised' : /\ a.ask <= asks'[a.turn]
                           /\ task'[a.turn].pc = "park" => a.ask < task'[a.turn].ask
    BY <1>0, <1>3, <1>4 DEF CallInv, RequestIsOwn, d
  <2>2. ASSUME NEW u \in Turn
        PROVE  /\ task'[u].pc = "park" => task'[u].ask <= asks'[u]
               /\ pending'.turn = u => pending'.ask = task'[u].ask
               /\ Asking(task'[u]) =>
                    /\ RequestOf(u)' \in raised'
                    /\ \A a \in raised' :
                         a.turn = u /\ a.step = task'[u].step /\ a.k = task'[u].k => a = RequestOf(u)'
    <3>0. pending'.turn # u
      BY <1>0, TurnAssumption DEF NoPending
    <3>1. CASE u = t
      <4>1. \A a \in raised : a.turn = t /\ a.step = c.step /\ a.k = c.k => a = RequestOf(t)
        BY <1>0, <1>5 DEF CallInv, RequestIsOwn, c
      <4> QED
        BY <1>0, <1>3, <1>6, <3>0, <3>1, <4>1 DEF d
    <3>2. CASE u # t
      <4>1. task'[u] = task[u] /\ RequestOf(u)' = RequestOf(u)
        BY <1>4, <3>2 DEF RequestOf
      <4> QED
        BY <1>0, <3>0, <4>1 DEF CallInv, RequestIsOwn
    <3> QED
      BY <3>1, <3>2
  <2>3. \A a, b \in raised' : a.turn = b.turn /\ a.ask = b.ask => a = b
    BY <1>0 DEF CallInv, RequestIsOwn
  <2> QED
    BY <2>1, <2>2, <2>3 DEF RequestIsOwn
<1>15. AnswersAreOwn'
  <2>1. \A y \in answered' : \E a \in raised' : a.turn = y.turn /\ a.ask = y.ask
    BY <1>0, <1>7 DEF CallInv, AnswersAreOwn, t
  <2>2. ASSUME NEW u \in Turn
        PROVE  /\ task'[u].pc = "parked" => AnswersTo(answered', u, task'[u].ask) = {}
               /\ Asking(task'[u]) /\ task'[u].auth = "human" =>
                    AnswersTo(answered', u, task'[u].ask) = {Yes(u, task'[u].ask)}
    <3>1. CASE u = t
      <4>1. AnswersTo(answered, t, c.ask) = {}
        BY <1>0, <1>1 DEF CallInv, AnswersAreOwn, c
      <4>2. AnswersTo(answered', t, c.ask) = {x}
        BY <1>0, <1>1, <1>7, <4>1 DEF AnswersTo
      <4>3. d.auth = "human" => x = Yes(t, c.ask)
        BY <1>3, <1>7
      <4> QED
        BY <1>3, <3>1, <4>2, <4>3 DEF d
    <3>2. CASE u # t
      <4>1. AnswersTo(answered', u, task'[u].ask) = AnswersTo(answered, u, task[u].ask)
        BY <1>0, <1>4, <1>7, <3>2 DEF AnswersTo
      <4> QED
        BY <1>4, <3>2, <4>1 DEF CallInv, AnswersAreOwn
    <3> QED
      BY <3>1, <3>2
  <2> QED
    BY <2>1, <2>2 DEF AnswersAreOwn
<1> QED
  BY <1>9, <1>11, <1>12, <1>13, <1>14, <1>15 DEF CallInv

LEMMA FrontCalls ==
    ASSUME CallInv, TypeOK', Inv', FrontEnd
    PROVE  CallInv'
<1>1. CASE CancelTurn
  BY <1>1, CancelCalls DEF CancelTurn, seenVars, askVars
<1>2. CASE SteerUser \/ RestoreBegin \/ RestoreEnd
  BY <1>2, StillCalls DEF SteerUser, RestoreBegin, RestoreEnd, taskVars, ownVars, seenVars, askVars
<1>3. ASSUME NEW t \in Turn, HandleFlip(t)
      PROVE  CallInv'
  BY <1>3, StillCalls DEF HandleFlip, seenVars, askVars
<1>4. ASSUME NEW t \in Turn, HandleCancelIf(t)
      PROVE  CallInv'
  <2>1. UNCHANGED <<turn_budget, entries, ran, raised, answered, asks, boot>>
    BY <1>4 DEF HandleCancelIf, seenVars, askVars
  <2>2. CASE current_turn_id = t
    BY <1>4, <2>1, <2>2, CancelCalls DEF HandleCancelIf
  <2>3. CASE current_turn_id # t
    BY <1>4, <2>1, <2>3, StillCalls DEF HandleCancelIf
  <2> QED
    BY <2>2, <2>3
<1> QED
  BY <1>1, <1>2, <1>3, <1>4, SubmitCalls DEF FrontEnd

LEMMA InitCalls ==
    ASSUME Init
    PROVE  CallInv
<1>1. Inv
  BY InitInv
<1>2. \A t \in Turn : /\ task[t].pc = "none" /\ task[t].step = 0 /\ task[t].auth = "none"
                       /\ ran[t] = <<>> /\ Len(ran[t]) = 0
  BY DEF Init, Fresh
<1>3. raised = {} /\ answered = {} /\ Len(entries) = 0 /\ pending.turn = NoTurn /\ turn_budget.steps = 0
  BY DEF Init, NoPending, NoBudget
<1>4. 1..0 = {}
  OBVIOUS
<1>5. Groups /\ NoCallsYet
  BY <1>2, <1>3, <1>4 DEF Groups, Group, NoCallsYet
<1>6. RanBefore /\ AnsweredBefore /\ RaisedBefore
  BY <1>2, <1>3, <1>4 DEF RanBefore, AnsweredBefore, RaisedBefore
<1>7. RequestIsOwn /\ AnswersAreOwn
  BY <1>2, <1>3, TurnAssumption DEF RequestIsOwn, AnswersAreOwn, Asking
<1>8. CallsRunOnce /\ CancelledCallNeverRan
  BY <1>2, <1>3, <1>4 DEF CallsRunOnce, CancelledCallNeverRan
<1>9. HumanConsent
  BY <1>2, <1>4 DEF HumanConsent
<1> QED
  BY <1>1, <1>5, <1>6, <1>7, <1>8, <1>9 DEF CallInv

LEMMA NextCalls ==
    ASSUME CallInv, [Next]_vars
    PROVE  CallInv'
<1>1. TypeOK' /\ Inv'
  BY NextType, NextInv DEF CallInv, Inv
<1>2. ASSUME NEW t \in Turn, EmitAsk(t)
      PROVE  CallInv'
  BY <1>1, <1>2, StillCalls DEF EmitAsk, stateVars, ownVars, seenVars, askVars
<1>3. CASE UNCHANGED vars
  BY <1>1, <1>3, StillCalls DEF vars, stateVars, ownVars, taskVars, seenVars, askVars
<1> QED
  BY <1>1, <1>2, <1>3, BootCalls, TaskCalls, FrontCalls DEF Next

(* CallInv holds in every reachable state. *)
THEOREM CallInvariance == Spec => []CallInv
<1>1. Init => CallInv
  BY InitCalls
<1>2. CallInv /\ [Next]_vars => CallInv'
  BY NextCalls
<1> QED
  BY <1>1, <1>2, PTL DEF Spec

-----------------------------------------------------------------------------
(* The properties *)

(* A call somebody was asked about runs only on that very request's own     *)
(* approval, however cancels, steers, restores and later turns interleave   *)
(* with submit_approval, event_channel and handle_approval.                 *)
THEOREM ConsentIsHuman == Spec => []HumanConsent
<1>1. CallInv => HumanConsent
  BY DEF CallInv
<1> QED
  BY <1>1, CallInvariance, PTL

(* A call is started at most once, and one the transcript reports as        *)
(* cancelled before execution was not: process_tool_batch, submit_approval  *)
(* and cancel_turn_inner hand a batch from one to the other under the lock. *)
THEOREM CallsSettle == Spec => []CallsAreSettled
<1>1. CallInv => CallsAreSettled
  BY DEF CallInv, CallsAreSettled
<1> QED
  BY <1>1, CallInvariance, PTL

-----------------------------------------------------------------------------
(* The contract with the holder of a handle *)

Begun == {t \in Turn : boot[t].pc \in {"drive", "done"}}

(* No batch is parked but by a turn. *)
Shape == pending.turn = NoTurn => pending = NoPending

ContractInv == CallInv /\ Shape

(* The four parts of TurnContract's step, in TurnRuntime's own state. *)
LiveKept ==
    /\ current_turn_id' \in {current_turn_id, NoTurn} \cup (Turn \ Begun)
    /\ Begun' = Begun \cup ({current_turn_id'} \ {NoTurn})

VerdictsKept ==
    \A t \in Turn : out'[t].event = out[t].event \/ (out[t].event = "none" /\ t \in Begun')

StopsKept == \A t \in Turn : cancelled[t] => cancelled'[t]

ApprovalsKept ==
    \/ pending' \in {pending, NoPending} /\ raised' = raised
    \/ \E t \in Turn : Park(t) /\ MayPark(t)

(* A step that installs no turn. *)
LEMMA SameTurns ==
    ASSUME Inv, Begun' = Begun, current_turn_id' \in {current_turn_id, NoTurn}
    PROVE  LiveKept
<1>1. current_turn_id \in Begun \cup {NoTurn}
  BY DEF Inv, NotStarted, Begun, TypeOK, StateType
<1> QED
  BY <1>1 DEF LiveKept

(* A terminal event changes the verdict of a turn that had none. *)
LEMMA FirstVerdict ==
    ASSUME TypeOK, NEW c \in Begun' \cup {NoTurn}, NEW t, NEW event, out' = Delivered(c, t, event)
    PROVE  VerdictsKept
<1>1. out \in [Turn -> Outcome]
  BY DEF TypeOK, SeenType
<1>2. NoOutcome.event = "none"
  BY DEF NoOutcome
<1> QED
  BY <1>1, <1>2 DEF VerdictsKept, Delivered

LEMMA SameVerdicts ==
    ASSUME out' = out
    PROVE  VerdictsKept
  BY DEF VerdictsKept

LEMMA TokenFlips ==
    ASSUME TypeOK, CancelToken \/ UNCHANGED cancelled
    PROVE  StopsKept
  BY DEF StopsKept, CancelToken, TypeOK, StateType

LEMMA BootContract ==
    ASSUME Inv, NEW t \in Turn, BootStep(t)
    PROVE  LiveKept /\ VerdictsKept /\ StopsKept /\ ApprovalsKept
<1>0. TypeOK /\ boot \in [Turn -> [pc : BootPc, orphan : Turn \cup {NoTurn}]]
  BY DEF Inv, TypeOK, TasksType
<1>1. CASE BeginSupersede(t)
  <2>1. Begun' = Begun /\ current_turn_id' = current_turn_id
    BY <1>0, <1>1 DEF BeginSupersede, Begun, turnVars
  <2>2. turn_events \in Begun \cup {NoTurn}
    BY DEF Inv, LiveTurn, TypeOK, StateType, Begun
  <2>3. VerdictsKept
    BY <1>0, <1>1, <2>1, <2>2, FirstVerdict, SameVerdicts DEF BeginSupersede, TellLive
  <2>4. StopsKept
    BY <1>0, <1>1, TokenFlips DEF BeginSupersede
  <2>5. ApprovalsKept
    BY <1>1 DEF BeginSupersede, ApprovalsKept, BootFrame, askVars
  <2> QED
    BY <2>1, <2>3, <2>4, <2>5, SameTurns
<1>2. CASE OrphanRead(t) \/ OrphanFinish(t)
  <2>1. Begun' = Begun
    <3>1. boot[t].pc \notin {"drive", "done"} /\ boot'[t].pc \notin {"drive", "done"}
      BY <1>0, <1>2 DEF OrphanRead, OrphanFinish
    <3>2. \A u \in Turn \ {t} : boot'[u] = boot[u]
      BY <1>0, <1>2 DEF OrphanRead, OrphanFinish
    <3> QED
      BY <3>1, <3>2 DEF Begun
  <2>2. current_turn_id' \in {current_turn_id, NoTurn}
    BY <1>2 DEF OrphanRead, OrphanFinish, FinishTurn, turnVars
  <2>3. VerdictsKept /\ StopsKept
    BY <1>0, <1>2, SameVerdicts, TokenFlips DEF OrphanRead, OrphanFinish, ownVars
  <2>4. ApprovalsKept
    BY <1>2 DEF OrphanRead, OrphanFinish, ApprovalsKept, BootFrame, askVars
  <2> QED
    BY <2>1, <2>2, <2>3, <2>4, SameTurns
<1>3. CASE Install(t)
  <2>1. t \notin Begun /\ Begun' = Begun \cup {t} /\ current_turn_id' = t
    BY <1>0, <1>3 DEF Install, Begun
  <2>2. LiveKept
    BY <2>1, TurnAssumption DEF LiveKept
  <2>3. VerdictsKept /\ StopsKept
    BY <1>0, <1>3, SameVerdicts, TokenFlips DEF Install
  <2>4. ApprovalsKept
    BY <1>3 DEF Install, ApprovalsKept, BootFrame, askVars
  <2> QED
    BY <2>2, <2>3, <2>4
<1>4. CASE Drive(t)
  <2>1. Begun' = Begun /\ current_turn_id' = current_turn_id /\ t \in Begun'
    BY <1>0, <1>4 DEF Drive, Begun
  <2>2. VerdictsKept
    BY <1>0, <1>4, <2>1, FirstVerdict, SameVerdicts DEF Drive
  <2>3. StopsKept
    BY <1>0, <1>4, TokenFlips DEF Drive, ownVars
  <2>4. ApprovalsKept
    BY <1>4 DEF Drive, ApprovalsKept, BootFrame, askVars
  <2> QED
    BY <2>1, <2>2, <2>3, <2>4, SameTurns
<1> QED
  BY <1>1, <1>2, <1>3, <1>4 DEF BootStep

LEMMA TaskContract ==
    ASSUME Inv, NEW t \in Turn, TaskStep(t)
    PROVE  LiveKept /\ VerdictsKept /\ StopsKept /\ ApprovalsKept
<1>0. TypeOK
  BY DEF Inv
<1>1. boot' = boot /\ (~Park(t) => raised' = raised /\ pending' = pending)
  BY <1>0, TaskRest
<1>2. Begun' = Begun
  BY <1>1 DEF Begun
<1>3. CASE Park(t)
  <2>1. UNCHANGED <<current_turn_id, cancelled, out>>
    BY <1>3 DEF Park, turnVars, ownVars
  <2>2. ApprovalsKept
    BY <1>3 DEF Park, ApprovalsKept
  <2> QED
    BY <1>0, <1>2, <2>1, <2>2, SameTurns, SameVerdicts, TokenFlips
<1>4. CASE Finish(t)
  <2>1. UNCHANGED <<cancelled, out, pending, raised>>
    BY <1>4 DEF Finish, ownVars, askVars
  <2>2. current_turn_id' \in {current_turn_id, NoTurn}
    BY <1>4 DEF Finish, FinishTurn
  <2> QED
    BY <1>0, <1>2, <2>1, <2>2, SameTurns, SameVerdicts, TokenFlips DEF ApprovalsKept
<1>5. CASE ~Park(t) /\ ~Finish(t)
  <2>1. Effect(t)
    BY <1>0, <1>5, TaskEffect
  <2>2. UNCHANGED <<current_turn_id, cancelled>>
    BY <2>1 DEF Effect
  <2>3. VerdictsKept
    <3>1. task[t].tx \in Begun' \cup {NoTurn}
      <4>1. boot[t].pc = "done"
        BY <2>1 DEF Effect, Inv, NotStarted
      <4> QED
        BY <1>2, <4>1 DEF Inv, Senders, Begun
    <3> QED
      BY <1>0, <2>1, <3>1, FirstVerdict, SameVerdicts DEF Effect, Tells
  <2> QED
    BY <1>0, <1>1, <1>2, <1>5, <2>2, <2>3, SameTurns, TokenFlips DEF ApprovalsKept
<1> QED
  BY <1>3, <1>4, <1>5

LEMMA FrontContract ==
    ASSUME Inv, FrontEnd
    PROVE  LiveKept /\ VerdictsKept /\ StopsKept /\ ApprovalsKept
<1>0. TypeOK
  BY DEF Inv
<1>1. /\ UNCHANGED <<current_turn_id, boot, out, raised>>
      /\ pending' \in {pending, NoPending}
  BY DEF FrontEnd, CancelTurn, SteerUser, RestoreBegin, RestoreEnd, HandleFlip, HandleCancelIf,
         SubmitApproval, CancelInner, TakePending, TaskFrame, turnVars, taskVars, seenVars, askVars
<1>2. StopsKept
  <2>1. ASSUME NEW t \in Turn, HandleFlip(t)
        PROVE  StopsKept
    BY <1>0, <2>1 DEF HandleFlip, StopsKept, TypeOK, StateType
  <2>2. CASE ~ \E t \in Turn : HandleFlip(t)
    <3>1. CancelToken \/ UNCHANGED cancelled
      BY <2>2 DEF FrontEnd, CancelTurn, SteerUser, RestoreBegin, RestoreEnd, HandleCancelIf,
                  SubmitApproval, CancelInner, ownVars
    <3> QED
      BY <1>0, <3>1, TokenFlips
  <2> QED
    BY <2>1, <2>2
<1>3. Begun' = Begun
  BY <1>1 DEF Begun
<1> QED
  BY <1>1, <1>2, <1>3, SameTurns, SameVerdicts DEF ApprovalsKept

LEMMA StepContract ==
    ASSUME Inv, [Next]_vars
    PROVE  LiveKept /\ VerdictsKept /\ StopsKept /\ ApprovalsKept
<1>1. ASSUME UNCHANGED <<current_turn_id, boot, out, cancelled, pending, raised>>
      PROVE  LiveKept /\ VerdictsKept /\ StopsKept /\ ApprovalsKept
  <2>1. Begun' = Begun
    BY <1>1 DEF Begun
  <2> QED
    BY <1>1, <2>1, SameTurns, SameVerdicts DEF StopsKept, ApprovalsKept
<1>2. CASE \E t \in Turn : EmitAsk(t)
  BY <1>1, <1>2 DEF EmitAsk, stateVars, seenVars
<1>3. CASE UNCHANGED vars
  BY <1>1, <1>3 DEF vars, stateVars, taskVars, seenVars
<1> QED
  BY <1>2, <1>3, BootContract, TaskContract, FrontContract DEF Next

(* The ids of the requests raised. *)
RaisedIds == {[turn |-> r.turn, ask |-> r.ask] : r \in raised}

LEMMA ContractInvariant == Spec => []ContractInv
<1>1. Init => ContractInv
  BY InitCalls DEF ContractInv, Shape, Init
<1>2. ContractInv /\ [Next]_vars => ContractInv'
  <2> SUFFICES ASSUME ContractInv, [Next]_vars
               PROVE  ContractInv'
    OBVIOUS
  <2>1. ApprovalsKept
    BY StepContract DEF ContractInv, CallInv
  <2>2. ASSUME NEW t \in Turn, Park(t), MayPark(t)
        PROVE  pending'.turn # NoTurn
    BY <2>2, TurnAssumption DEF Park
  <2>3. Shape'
    BY <2>1, <2>2 DEF ApprovalsKept, Shape, ContractInv
  <2> QED
    BY <2>3, NextCalls DEF ContractInv
<1> QED
  BY <1>1, <1>2, PTL DEF Spec

(* A park opens a request nobody opened before, and there is no other. *)
LEMMA ParkIsNew ==
    ASSUME ContractInv, NEW t \in Turn, Park(t), MayPark(t)
    PROVE  /\ pending = NoPending /\ pending'.turn = t /\ current_turn_id = t /\ ~cancelled[t]
           /\ pending' \notin RaisedIds
           /\ RaisedIds' = RaisedIds \cup {pending'}
<1>1. /\ task[t].pc = "park" /\ current_turn_id = t /\ ~cancelled[t]
      /\ pending' = [turn |-> t, ask |-> task[t].ask]
      /\ raised' = raised \cup {[turn |-> t, ask |-> task[t].ask,
                                 step |-> task[t].step, k |-> task[t].k]}
  BY DEF Park, MayPark
<1>2. pending = NoPending
  <2>1. pending.turn # t
    BY <1>1 DEF ContractInv, CallInv, Inv, ParkedWaits
  <2>2. pending.turn = NoTurn
    BY <1>1, <2>1, TurnAssumption DEF ContractInv, CallInv, Inv, ParkedIsCancellable
  <2> QED
    BY <2>2 DEF ContractInv, Shape
<1>3. \A r \in raised : ~(r.turn = t /\ r.ask = task[t].ask)
  <2> SUFFICES ASSUME NEW r \in raised, r.turn = t
               PROVE  r.ask # task[t].ask
    OBVIOUS
  <2>1. r.ask < task[t].ask
    BY <1>1 DEF ContractInv, CallInv, RequestIsOwn
  <2>2. r.ask \in Nat /\ task[t].ask \in Nat
    BY TaskFields DEF ContractInv, CallInv, Inv, TypeOK, SeenType, Task
  <2> QED
    BY <2>1, <2>2
<1>4. pending' \notin RaisedIds
  BY <1>1, <1>3 DEF RaisedIds
<1>5. RaisedIds' = RaisedIds \cup {pending'}
  <2> DEFINE new == [turn |-> t, ask |-> task[t].ask, step |-> task[t].step, k |-> task[t].k]
  <2>1. raised' = raised \cup {new} /\ [turn |-> new.turn, ask |-> new.ask] = pending'
    BY <1>1
  <2> HIDE DEF new
  <2>2. RaisedIds' = {[turn |-> r.turn, ask |-> r.ask] : r \in raised \cup {new}}
    BY <2>1 DEF RaisedIds
  <2> QED
    BY <2>1, <2>2, Zenon DEF RaisedIds
<1> QED
  BY <1>1, <1>2, <1>4, <1>5

(* TurnRuntime implements TurnContract: however bootstraps, superseded      *)
(* loops, parks, answers and cancels interleave, a turn begins once, the    *)
(* first verdict on its handle stands, a stop is not taken back, and an     *)
(* approval id is opened once, by the live turn (begin_turn, finish_turn,   *)
(* TurnHandle::recv, park_pending_batch).                                   *)
THEOREM ContractImplemented == Spec => ImplementsContract
<1>1. Init => Contract!ContractInit
  BY DEF Init, Contract!ContractInit, Contract!NobodyAsks, NoPending, NoOutcome
<1>2. ContractInv /\ [Next]_vars => [Contract!ContractStep]_(Contract!contractVars)
  <2> SUFFICES ASSUME ContractInv, [Next]_vars
               PROVE  Contract!ContractStep
    OBVIOUS
  <2>1. LiveKept /\ VerdictsKept /\ StopsKept /\ ApprovalsKept
    BY StepContract DEF ContractInv, CallInv
  <2>2. Contract!LiveStep
    BY <2>1 DEF LiveKept, Begun, Contract!LiveStep
  <2>3. Contract!VerdictStep
    BY <2>1 DEF VerdictsKept, Begun, Contract!VerdictStep
  <2>4. Contract!StopStep
    BY <2>1 DEF StopsKept, Contract!StopStep
  <2>5. Contract!ApprovalStep
    <3>1. CASE pending' \in {pending, NoPending} /\ raised' = raised
      BY <3>1 DEF Contract!ApprovalStep, Contract!NobodyAsks, NoPending
    <3>2. ASSUME NEW t \in Turn, Park(t), MayPark(t)
          PROVE  Contract!ApprovalStep
      BY <3>2, ParkIsNew, TurnAssumption
      DEF Contract!ApprovalStep, Contract!NobodyAsks, NoPending, RaisedIds
    <3> QED
      BY <2>1, <3>1, <3>2 DEF ApprovalsKept
  <2> QED
    BY <2>2, <2>3, <2>4, <2>5 DEF Contract!ContractStep
<1> QED
  BY <1>1, <1>2, ContractInvariant, PTL DEF Spec, ImplementsContract, Contract!ContractSpec

=============================================================================
