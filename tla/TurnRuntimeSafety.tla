------------------------- MODULE TurnRuntimeSafety -------------------------
(***************************************************************************)
(* Types and safety of TurnRuntime, for every set of turns and every bound.*)
(*                                                                         *)
(* The types come first, one lemma for every action.                       *)
(*                                                                         *)
(* None of the properties is inductive.  Inv strengthens them with what    *)
(* the code relies on without saying it: which task can still act for a    *)
(* turn, when a turn's channel is the installed one, whose tokens and      *)
(* budgets the shared fields hold.                                         *)
(*                                                                         *)
(* The last part is about turns that follow one another: callers that wait *)
(* for one begin_turn before the next.  SerialInv says who hands the       *)
(* runtime to whom, OrderInv what that makes of the transcript.            *)
(***************************************************************************)
EXTENDS TurnRuntime, SequenceTheorems, FiniteSetTheorems, TLAPS

-----------------------------------------------------------------------------
(* Types of what the actions build *)

LEMMA FreshType ==
    ASSUME NEW pc \in TaskPc, NEW tx \in Turn \cup {NoTurn}
    PROVE  Fresh(pc, tx) \in Task
  BY DEF Fresh, Task, NoEntry, Entry, Authority, Result, Returned

LEMMA DroppingType ==
    ASSUME NEW c \in Task
    PROVE  Dropping(c) \in Task
<1>1. c.tx \in Turn \cup {NoTurn} /\ c.k \in Nat /\ c.n \in Nat /\ c.step \in Nat
  BY DEF Task
<1>2. "drop" \in TaskPc
  BY DEF TaskPc
<1>3. Fresh("drop", c.tx) \in Task
  BY <1>1, <1>2, FreshType
<1> QED
  BY <1>1, <1>3 DEF Dropping, Task

LEMMA DeliveredType ==
    ASSUME out \in [Turn -> Outcome], NEW c \in Turn \cup {NoTurn}, NEW t \in Turn \cup {NoTurn},
           NEW event \in {"none", "finished", "cancelled", "failed", "step_limit"}
    PROVE  Delivered(c, t, event) \in [Turn -> Outcome]
  BY DEF Delivered, Outcome

LEMMA EntryTypes ==
    ASSUME NEW t \in Turn
    PROVE  /\ UserEntry(t) \in Entry
           /\ \A step \in Nat : PartialEntry(t, step) \in Entry
           /\ \A step, calls \in Nat : AssistantEntry(t, step, calls) \in Entry
           /\ \A s \in Steered :
                 SteeredEntry(t, s) \in Entry
<1>1. UserEntry(t) \in Entry
  BY DEF UserEntry, Entry
<1>2. \A step \in Nat : PartialEntry(t, step) \in Entry
  BY DEF PartialEntry, Entry
<1>3. ASSUME NEW step \in Nat, NEW calls \in Nat
      PROVE  AssistantEntry(t, step, calls) \in Entry
  <2>1. [i \in 1..calls |-> "pending"] \in Seq(Result)
    BY DEF Result
  <2> QED
    BY <2>1 DEF AssistantEntry, Entry
<1>4. \A s \in Steered :
        SteeredEntry(t, s) \in Entry
  BY DEF SteeredEntry, Steered, Entry
<1> QED
  BY <1>1, <1>2, <1>3, <1>4

LEMMA InsertAfterType ==
    ASSUME NEW S, NEW es \in Seq(S), NEW anchor, NEW e \in S
    PROVE  InsertAfter(es, anchor, e) \in Seq(S)
<1>1. CASE \E i \in 1..Len(es) : es[i] = anchor
  <2> DEFINE i == CHOOSE i \in 1..Len(es) : es[i] = anchor
  <2>1. i \in 1..Len(es)
    BY <1>1
  <2> HIDE DEF i
  <2>2. /\ i \in Int /\ i + 1 \in Int /\ 1 \in Int /\ Len(es) \in Int
        /\ \A j \in 1..i : es[j] \in S
        /\ \A j \in (i + 1)..Len(es) : es[j] \in S
    BY <2>1
  <2>4. SubSeq(es, 1, i) \in Seq(S) /\ SubSeq(es, i + 1, Len(es)) \in Seq(S)
    BY <2>2, SubSeqProperties, Zenon
  <2>3. <<e>> \in Seq(S)
    OBVIOUS
  <2> QED
    BY <1>1, <2>4, <2>3 DEF InsertAfter, i
<1>2. CASE ~ \E i \in 1..Len(es) : es[i] = anchor
  BY <1>2 DEF InsertAfter
<1> QED
  BY <1>1, <1>2

LEMMA RecordedType ==
    ASSUME NEW es \in Seq(Entry), NEW t, NEW step, NEW k, NEW result \in Result
    PROVE  Recorded(es, t, step, k, result) \in Seq(Entry)
<1> DEFINE r(i) == IF /\ IsNewest(es, i, {"assistant", "partial"})
                      /\ es[i].turn = t /\ es[i].n = step
                      /\ k \in DOMAIN es[i].res /\ es[i].res[k] = "pending"
                   THEN [es[i] EXCEPT !.res[k] = result]
                   ELSE es[i]
<1>1. ASSUME NEW i \in 1..Len(es)
      PROVE  r(i) \in Entry
  <2>1. es[i] \in Entry
    OBVIOUS
  <2>2. ASSUME k \in DOMAIN es[i].res
        PROVE  [es[i] EXCEPT !.res[k] = result] \in Entry
    <3>1. [es[i].res EXCEPT ![k] = result] \in Seq(Result)
      BY <2>1, <2>2 DEF Entry
    <3> QED
      BY <2>1, <3>1 DEF Entry
  <2> QED
    BY <2>1, <2>2
<1> HIDE DEF r
<1>2. [i \in 1..Len(es) |-> r(i)] \in Seq(Entry)
  BY <1>1
<1> QED
  BY <1>2 DEF Recorded, r

-----------------------------------------------------------------------------
(* Type correctness: a task stays a task under every edit of the actions *)

LEMMA PcEdit ==
    ASSUME NEW c \in Task
    PROVE  \A pc \in TaskPc : [c EXCEPT !.pc = pc] \in Task
  BY DEF Task

LEMMA SpendEdit ==
    ASSUME NEW c \in Task
    PROVE  \A pc \in TaskPc, step \in Nat, rescued, due \in BOOLEAN :
              [c EXCEPT !.pc = pc, !.step = step, !.rescued = rescued, !.due = due] \in Task
  BY DEF Task

LEMMA DueEdit ==
    ASSUME NEW c \in Task
    PROVE  \A pc \in TaskPc : [c EXCEPT !.pc = pc, !.due = FALSE] \in Task
  BY DEF Task

LEMMA AnchorEdit ==
    ASSUME NEW c \in Task
    PROVE  \A pc \in TaskPc, e \in Entry : [c EXCEPT !.pc = pc, !.anchor = e] \in Task
  BY DEF Task

LEMMA RescuedEdit ==
    ASSUME NEW c \in Task
    PROVE  \A pc \in TaskPc : [c EXCEPT !.pc = pc, !.rescued = FALSE] \in Task
  BY DEF Task

LEMMA CallsEdit ==
    ASSUME NEW c \in Task
    PROVE  \A pc \in TaskPc, n \in Nat : [c EXCEPT !.pc = pc, !.n = n] \in Task
  BY DEF Task

LEMMA GroupEdit ==
    ASSUME NEW c \in Task
    PROVE  \A pc \in TaskPc, hi, at \in Nat : [c EXCEPT !.pc = pc, !.hi = hi, !.at = at] \in Task
  BY DEF Task

LEMMA AnsweredEdit ==
    ASSUME NEW c \in Task
    PROVE  \A pc \in TaskPc, at \in Nat, got \in Returned :
              [c EXCEPT !.pc = pc, !.at = at, !.got = got] \in Task
  BY DEF Task

LEMMA StartedEdit ==
    ASSUME NEW c \in Task
    PROVE  \A pc \in TaskPc, at \in Nat : [c EXCEPT !.at = at, !.pc = pc] \in Task
  BY DEF Task

LEMMA GotEdit ==
    ASSUME NEW c \in Task
    PROVE  \A pc \in TaskPc, got \in Returned : [c EXCEPT !.pc = pc, !.got = got] \in Task
  BY DEF Task

LEMMA AuthEdit ==
    ASSUME NEW c \in Task
    PROVE  \A pc \in TaskPc, auth \in Authority : [c EXCEPT !.pc = pc, !.auth = auth] \in Task
  BY DEF Task

LEMMA AskEdit ==
    ASSUME NEW c \in Task
    PROVE  \A pc \in TaskPc, ask \in Nat : [c EXCEPT !.pc = pc, !.ask = ask] \in Task
  BY DEF Task

LEMMA ChannelEdit ==
    ASSUME NEW c \in Task
    PROVE  \A pc \in TaskPc, tx \in Turn \cup {NoTurn} : [c EXCEPT !.pc = pc, !.tx = tx] \in Task
  BY DEF Task

LEMMA ResumedEdit ==
    ASSUME NEW c \in Task
    PROVE  \A pc \in TaskPc : [c EXCEPT !.pc = pc, !.asked = TRUE, !.again = TRUE] \in Task
  BY DEF Task

LEMMA CursorEdit ==
    ASSUME NEW c \in Task
    PROVE  \A k \in Nat : [c EXCEPT !.k = k] \in Task
  BY DEF Task

LEMMA NextCallEdit ==
    ASSUME NEW c \in Task
    PROVE  \A k, n, step \in Nat, again \in BOOLEAN :
              [c EXCEPT !.k = k, !.n = n, !.step = step, !.again = again] \in Task
  BY DEF Task

LEMMA SenderEdit ==
    ASSUME NEW c \in Task
    PROVE  \A tx \in Turn \cup {NoTurn} : [c EXCEPT !.tx = tx] \in Task
  BY DEF Task

LEMMA TaskFields ==
    ASSUME TypeOK, NEW t \in Turn
    PROVE  /\ task \in [Turn -> Task] /\ task[t] \in Task
           /\ task[t].tx \in Turn \cup {NoTurn} /\ task[t].auth \in Authority
           /\ task[t].k \in Nat /\ task[t].at \in Nat /\ task[t].hi \in Nat
           /\ task[t].n \in Nat /\ task[t].step \in Nat /\ task[t].ask \in Nat
           /\ task[t].again \in BOOLEAN /\ task[t].got \in Returned
<1>1. task \in [Turn -> Task] /\ task[t] \in Task
  BY DEF TypeOK, TasksType
<1> QED
  BY <1>1 DEF Task

LEMMA BecomeType ==
    ASSUME NEW t \in Turn, task \in [Turn -> Task], \E c \in Task : Become(t, c)
    PROVE  task' \in [Turn -> Task]
  BY DEF Become

(* A task that only moves on. *)
LEMMA MoveType ==
    ASSUME TypeOK, NEW t \in Turn, NEW pc \in TaskPc
    PROVE  /\ Goto(t, pc) => task' \in [Turn -> Task]
           /\ Leave(t, pc) => task' \in [Turn -> Task]
           /\ End(t) => task' \in [Turn -> Task]
           /\ Become(t, Dropping(task[t])) => task' \in [Turn -> Task]
<1>1. [task[t] EXCEPT !.pc = pc] \in Task
  BY TaskFields, PcEdit
<1>2. Fresh(pc, task[t].tx) \in Task
  BY TaskFields, FreshType
<1>3. Fresh("done", NoTurn) \in Task
  BY FreshType DEF TaskPc
<1>4. Dropping(task[t]) \in Task
  BY TaskFields, DroppingType
<1> QED
  BY <1>1, <1>2, <1>3, <1>4, TaskFields, BecomeType DEF Goto, Leave, End

LEMMA EmitType ==
    ASSUME TypeOK, NEW t \in Turn,
           NEW event \in {"none", "finished", "cancelled", "failed", "step_limit"}
    PROVE  Delivered(task[t].tx, t, event) \in [Turn -> Outcome]
<1>1. out \in [Turn -> Outcome]
  BY DEF TypeOK, SeenType
<1> QED
  BY <1>1, TaskFields, DeliveredType

LEMMA BootType ==
    ASSUME TypeOK, NEW t \in Turn, BootStep(t)
    PROVE  TypeOK'
<1>1. CASE BeginSupersede(t)
  <2>1. out' \in [Turn -> Outcome]
    <3>1. out \in [Turn -> Outcome] /\ turn_events \in Turn \cup {NoTurn}
      BY DEF TypeOK, StateType, SeenType
    <3>2. Delivered(turn_events, turn_events, "cancelled") \in [Turn -> Outcome]
      BY <3>1, DeliveredType
    <3> QED
      BY <1>1, <3>1, <3>2 DEF BeginSupersede, TellLive
  <2>2. boot' \in [Turn -> [pc : BootPc, orphan : Turn \cup {NoTurn}]]
    BY <1>1 DEF BeginSupersede, BootPc, TypeOK, TasksType
  <2>3. cancelled' \in [Turn -> BOOLEAN]
    BY <1>1 DEF BeginSupersede, CancelToken, TypeOK, StateType
  <2>4. StateType'
    BY <1>1, <2>3 DEF BeginSupersede, BootFrame, turnVars, ownVars, askVars, TypeOK, StateType
  <2>5. TasksType'
    BY <1>1, <2>2 DEF BeginSupersede, BootFrame, turnVars, ownVars, askVars, TypeOK, TasksType
  <2>6. SeenType'
    BY <1>1, <2>1 DEF BeginSupersede, BootFrame, turnVars, ownVars, askVars, TypeOK, SeenType
  <2> QED
    BY <2>4, <2>5, <2>6 DEF TypeOK
<1>2. CASE OrphanRead(t)
  <2>1. boot' \in [Turn -> [pc : BootPc, orphan : Turn \cup {NoTurn}]]
    BY <1>2 DEF OrphanRead, BootPc, TypeOK, TasksType, StateType
  <2>2. StateType'
    BY <1>2 DEF OrphanRead, BootFrame, turnVars, ownVars, askVars, TypeOK, StateType
  <2>3. TasksType'
    BY <1>2, <2>1 DEF OrphanRead, BootFrame, turnVars, ownVars, askVars, TypeOK, TasksType
  <2>4. SeenType'
    BY <1>2 DEF OrphanRead, BootFrame, turnVars, ownVars, askVars, TypeOK, SeenType
  <2> QED
    BY <2>2, <2>3, <2>4 DEF TypeOK
<1>3. CASE OrphanFinish(t)
  <2>1. boot' \in [Turn -> [pc : BootPc, orphan : Turn \cup {NoTurn}]]
    BY <1>3 DEF OrphanFinish, BootPc, TypeOK, TasksType
  <2>2. current_turn_id' \in Turn \cup {NoTurn} /\ turn_events' \in Turn \cup {NoTurn}
    BY <1>3 DEF OrphanFinish, FinishTurn, TypeOK, StateType
  <2>3. StateType'
    BY <1>3, <2>2 DEF OrphanFinish, BootFrame, turnVars, ownVars, askVars, TypeOK, StateType
  <2>4. TasksType'
    BY <1>3, <2>1 DEF OrphanFinish, BootFrame, turnVars, ownVars, askVars, TypeOK, TasksType
  <2>5. SeenType'
    BY <1>3 DEF OrphanFinish, BootFrame, turnVars, ownVars, askVars, TypeOK, SeenType
  <2> QED
    BY <2>3, <2>4, <2>5 DEF TypeOK
<1>4. CASE Install(t)
  <2>1. entries' \in Seq(Entry)
    BY <1>4, EntryTypes DEF Install, TypeOK, StateType
  <2>2. boot' \in [Turn -> [pc : BootPc, orphan : Turn \cup {NoTurn}]]
    BY <1>4 DEF Install, BootPc, TypeOK, TasksType
  <2>3. task' \in [Turn -> Task]
    <3>1. Fresh("done", NoTurn) \in Task
      BY FreshType DEF TaskPc
    <3> QED
      BY <1>4, <3>1 DEF Install, TypeOK, TasksType
  <2>4. turn_budget' \in [turn : Turn \cup {NoTurn}, steps : Nat,
                        wrap_up_sent : BOOLEAN, overflow_rescued : BOOLEAN]
    BY <1>4 DEF Install, NoBudget
  <2>5. pending' \in [turn : Turn \cup {NoTurn}, ask : Nat]
    BY <1>4 DEF Install, NoPending
  <2>6. StateType'
    BY <1>4, <2>1, <2>4, <2>5 DEF Install, BootFrame, turnVars, ownVars, askVars, TypeOK, StateType
  <2>7. TasksType'
    BY <1>4, <2>2, <2>3 DEF Install, BootFrame, turnVars, ownVars, askVars, TypeOK, TasksType
  <2>8. SeenType'
    BY <1>4 DEF Install, BootFrame, turnVars, ownVars, askVars, TypeOK, SeenType
  <2> QED
    BY <2>6, <2>7, <2>8 DEF TypeOK
<1>5. CASE Drive(t)
  <2>1. out' \in [Turn -> Outcome]
    <3>1. out \in [Turn -> Outcome] /\ turn_events \in Turn \cup {NoTurn}
      BY DEF TypeOK, StateType, SeenType
    <3>2. Delivered(t, t, "cancelled") \in [Turn -> Outcome]
      BY <3>1, DeliveredType
    <3> QED
      BY <1>5, <3>1, <3>2 DEF Drive
  <2>2. boot' \in [Turn -> [pc : BootPc, orphan : Turn \cup {NoTurn}]]
    BY <1>5 DEF Drive, BootPc, TypeOK, TasksType
  <2>3. task' \in [Turn -> Task]
    <3>1. Fresh("entry", t) \in Task
      BY FreshType DEF TaskPc
    <3> QED
      BY <1>5, <3>1, TaskFields, BecomeType DEF Drive
  <2>4. StateType'
    BY <1>5 DEF Drive, BootFrame, turnVars, ownVars, askVars, TypeOK, StateType
  <2>5. TasksType'
    BY <1>5, <2>2, <2>3 DEF Drive, BootFrame, turnVars, ownVars, askVars, TypeOK, TasksType
  <2>6. SeenType'
    BY <1>5, <2>1 DEF Drive, BootFrame, turnVars, ownVars, askVars, TypeOK, SeenType
  <2> QED
    BY <2>4, <2>5, <2>6 DEF TypeOK
<1> QED
  BY <1>1, <1>2, <1>3, <1>4, <1>5 DEF BootStep

LEMMA LoopType ==
    ASSUME TypeOK, NEW t \in Turn, LoopStep(t)
    PROVE  TypeOK'
<1>1. CASE Enter(t)
  <2>1. task' \in [Turn -> Task]
    <3>1. "check0" \in TaskPc
      BY DEF TaskPc
    <3> QED
      BY <1>1, <3>1, MoveType DEF Enter
  <2>2. StateType'
    BY <1>1 DEF Enter, TaskFrame, turnVars, ownVars, askVars, TypeOK, StateType
  <2>3. TasksType'
    BY <1>1, <2>1 DEF Enter, TaskFrame, turnVars, ownVars, askVars, TypeOK, TasksType
  <2>4. SeenType'
    BY <1>1 DEF Enter, TaskFrame, turnVars, ownVars, askVars, TypeOK, SeenType
  <2> QED
    BY <2>2, <2>3, <2>4 DEF TypeOK
<1>2. CASE Check0(t)
  <2>1. task' \in [Turn -> Task]
    <3>1. "finC" \in TaskPc /\ "spend" \in TaskPc
      BY DEF TaskPc
    <3> QED
      BY <1>2, <3>1, MoveType DEF Check0
  <2>2. StateType'
    BY <1>2 DEF Check0, TaskFrame, turnVars, ownVars, askVars, TypeOK, StateType
  <2>3. TasksType'
    BY <1>2, <2>1 DEF Check0, TaskFrame, turnVars, ownVars, askVars, TypeOK, TasksType
  <2>4. SeenType'
    BY <1>2 DEF Check0, TaskFrame, turnVars, ownVars, askVars, TypeOK, SeenType
  <2> QED
    BY <2>2, <2>3, <2>4 DEF TypeOK
<1>3. CASE SpendStep(t)
  <2>1. task' \in [Turn -> Task]
    <3>1. "check" \in TaskPc /\ "abort" \in TaskPc
      BY DEF TaskPc
    <3>2. turn_budget.steps + 1 \in Nat /\ turn_budget.overflow_rescued \in BOOLEAN
      BY <1>3, <3>1 DEF TypeOK, StateType
    <3>3. \A sent : budget_wrap_up_due(turn_budget.steps + 1, StepCap, sent) \in BOOLEAN
      BY <1>3, <3>1 DEF budget_wrap_up_due
    <3>4. [task[t] EXCEPT !.pc = "check", !.step = turn_budget.steps + 1,
             !.rescued = turn_budget.overflow_rescued,
             !.due = budget_wrap_up_due(turn_budget.steps + 1, StepCap, turn_budget.wrap_up_sent)]
            \in Task
      BY <1>3, <3>1, <3>2, <3>3, TaskFields, SpendEdit
    <3> QED
      BY <1>3, <3>1, <3>2, <3>3, <3>4, TaskFields, BecomeType, MoveType DEF SpendStep
  <2>2. out' \in [Turn -> Outcome]
    <3>1. out \in [Turn -> Outcome]
      BY DEF TypeOK, SeenType
    <3>2. Delivered(task[t].tx, t, "step_limit") \in [Turn -> Outcome]
      BY EmitType
    <3> QED
      BY <1>3, <3>1, <3>2 DEF SpendStep, Emit
  <2>3. turn_budget' \in [turn : Turn \cup {NoTurn}, steps : Nat,
                        wrap_up_sent : BOOLEAN, overflow_rescued : BOOLEAN]
    BY <1>3 DEF SpendStep, TypeOK, StateType
  <2>4. StateType'
    BY <1>3, <2>3 DEF SpendStep, TaskFrame, turnVars, ownVars, askVars, TypeOK, StateType
  <2>5. TasksType'
    BY <1>3, <2>1 DEF SpendStep, TaskFrame, turnVars, ownVars, askVars, TypeOK, TasksType
  <2>6. SeenType'
    BY <1>3, <2>2 DEF SpendStep, TaskFrame, turnVars, ownVars, askVars, TypeOK, SeenType
  <2> QED
    BY <2>4, <2>5, <2>6 DEF TypeOK
<1>4. CASE Check(t)
  <2>1. task' \in [Turn -> Task]
    <3>1. "finC" \in TaskPc /\ "notice" \in TaskPc /\ "drain" \in TaskPc
      BY DEF TaskPc
    <3>2. \A pc \in TaskPc : [task[t] EXCEPT !.pc = pc, !.due = FALSE] \in Task
      BY <1>4, <3>1, TaskFields, DueEdit
    <3> QED
      BY <1>4, <3>1, <3>2, TaskFields, BecomeType, MoveType DEF Check
  <2>2. turn_budget' \in [turn : Turn \cup {NoTurn}, steps : Nat,
                        wrap_up_sent : BOOLEAN, overflow_rescued : BOOLEAN]
    BY <1>4 DEF Check, TypeOK, StateType
  <2>3. StateType'
    BY <1>4, <2>2 DEF Check, TaskFrame, turnVars, ownVars, askVars, TypeOK, StateType
  <2>4. TasksType'
    BY <1>4, <2>1 DEF Check, TaskFrame, turnVars, ownVars, askVars, TypeOK, TasksType
  <2>5. SeenType'
    BY <1>4 DEF Check, TaskFrame, turnVars, ownVars, askVars, TypeOK, SeenType
  <2> QED
    BY <2>3, <2>4, <2>5 DEF TypeOK
<1>5. CASE SteerNotice(t)
  <2>1. task' \in [Turn -> Task]
    <3>1. "drain" \in TaskPc
      BY DEF TaskPc
    <3> QED
      BY <1>5, <3>1, MoveType DEF SteerNotice
  <2>2. steering' \in Seq(Steered)
    <3>1. [kind |-> "notice", of |-> t, n |-> task[t].step] \in Steered
      BY TaskFields DEF Steered
    <3>2. steering \in Seq(Steered)
      BY DEF TypeOK, StateType
    <3> QED
      BY <1>5, <3>1, <3>2 DEF SteerNotice
  <2>3. StateType'
    BY <1>5, <2>2 DEF SteerNotice, TaskFrame, turnVars, ownVars, askVars, TypeOK, StateType
  <2>4. TasksType'
    BY <1>5, <2>1 DEF SteerNotice, TaskFrame, turnVars, ownVars, askVars, TypeOK, TasksType
  <2>5. SeenType'
    BY <1>5 DEF SteerNotice, TaskFrame, turnVars, ownVars, askVars, TypeOK, SeenType
  <2> QED
    BY <2>3, <2>4, <2>5 DEF TypeOK
<1>6. CASE DrainSteering(t)
  <2>1. task' \in [Turn -> Task]
    <3>1. "anchor" \in TaskPc
      BY DEF TaskPc
    <3> QED
      BY <1>6, <3>1, MoveType DEF DrainSteering
  <2>2. entries' \in Seq(Entry)
    <3>1. \A i \in 1..Len(steering) : steering[i] \in Steered
      BY DEF TypeOK, StateType
    <3>2. \A i \in 1..Len(steering) : SteeredEntry(t, steering[i]) \in Entry
      BY <3>1, EntryTypes
    <3>3. Len(steering) \in Nat /\ entries \in Seq(Entry)
      BY DEF TypeOK, StateType
    <3>4. [i \in 1..Len(steering) |-> SteeredEntry(t, steering[i])] \in Seq(Entry)
      BY <3>2, <3>3
    <3>5. entries \o [i \in 1..Len(steering) |-> SteeredEntry(t, steering[i])] \in Seq(Entry)
      BY <3>3, <3>4, ConcatProperties, Zenon
    <3>6. entries' = entries \/ entries' =
            entries \o [i \in 1..Len(steering) |-> SteeredEntry(t, steering[i])]
      BY <1>6, Zenon DEF DrainSteering
    <3> QED
      BY <3>3, <3>5, <3>6, Zenon
  <2>3. steering' \in Seq(Steered)
    <3>1. <<>> \in Seq(Steered) /\ steering \in Seq(Steered)
      BY DEF TypeOK, StateType
    <3> QED
      BY <1>6, <3>1 DEF DrainSteering
  <2>4. StateType'
    BY <1>6, <2>2, <2>3 DEF DrainSteering, TaskFrame, turnVars, ownVars, askVars, TypeOK, StateType
  <2>5. TasksType'
    BY <1>6, <2>1 DEF DrainSteering, TaskFrame, turnVars, ownVars, askVars, TypeOK, TasksType
  <2>6. SeenType'
    BY <1>6 DEF DrainSteering, TaskFrame, turnVars, ownVars, askVars, TypeOK, SeenType
  <2> QED
    BY <2>4, <2>5, <2>6 DEF TypeOK
<1>7. CASE ReadAnchor(t)
  <2>1. task' \in [Turn -> Task]
    <3>1. "open" \in TaskPc
      BY DEF TaskPc
    <3>2. entries[Len(entries)] \in Entry
      BY <1>7, <3>1 DEF ReadAnchor, TypeOK, StateType
    <3>3. [task[t] EXCEPT !.pc = "open", !.anchor = entries[Len(entries)]] \in Task
      BY <1>7, <3>1, <3>2, TaskFields, AnchorEdit
    <3> QED
      BY <1>7, <3>1, <3>2, <3>3, TaskFields, BecomeType, MoveType DEF ReadAnchor
  <2>2. StateType'
    BY <1>7 DEF ReadAnchor, TaskFrame, turnVars, ownVars, askVars, TypeOK, StateType
  <2>3. TasksType'
    BY <1>7, <2>1 DEF ReadAnchor, TaskFrame, turnVars, ownVars, askVars, TypeOK, TasksType
  <2>4. SeenType'
    BY <1>7 DEF ReadAnchor, TaskFrame, turnVars, ownVars, askVars, TypeOK, SeenType
  <2> QED
    BY <2>2, <2>3, <2>4 DEF TypeOK
<1>8. CASE Open(t)
  <2>1. task' \in [Turn -> Task]
    <3>1. "stream" \in TaskPc /\ "finC" \in TaskPc /\ "rescue" \in TaskPc /\ "abort" \in TaskPc
      BY DEF TaskPc
    <3>2. [task[t] EXCEPT !.pc = "stream", !.rescued = FALSE] \in Task
      BY <1>8, <3>1, TaskFields, RescuedEdit
    <3> QED
      BY <1>8, <3>1, <3>2, TaskFields, BecomeType, MoveType DEF Open
  <2>2. out' \in [Turn -> Outcome]
    <3>1. out \in [Turn -> Outcome]
      BY DEF TypeOK, SeenType
    <3>2. Delivered(task[t].tx, t, "failed") \in [Turn -> Outcome]
      BY EmitType
    <3> QED
      BY <1>8, <3>1, <3>2 DEF Open, Emit
  <2>3. turn_budget' \in [turn : Turn \cup {NoTurn}, steps : Nat,
                        wrap_up_sent : BOOLEAN, overflow_rescued : BOOLEAN]
    BY <1>8 DEF Open, TypeOK, StateType
  <2>4. requests' \in [Turn -> Nat]
    <3>1. requests \in [Turn -> Nat]
      BY DEF TypeOK, SeenType
    <3>2. [requests EXCEPT ![t] = @ + 1] \in [Turn -> Nat]
      BY <3>1
    <3> QED
      BY <1>8, <3>1, <3>2, Zenon DEF Open
  <2>5. StateType'
    BY <1>8, <2>3 DEF Open, TaskFrame, turnVars, ownVars, askVars, TypeOK, StateType
  <2>6. TasksType'
    BY <1>8, <2>1 DEF Open, TaskFrame, turnVars, ownVars, askVars, TypeOK, TasksType
  <2>7. SeenType'
    BY <1>8, <2>2, <2>4 DEF Open, TaskFrame, turnVars, ownVars, askVars, TypeOK, SeenType
  <2> QED
    BY <2>5, <2>6, <2>7 DEF TypeOK
<1>9. CASE RescueFold(t)
  <2>1. task' \in [Turn -> Task]
    <3>1. "finC" \in TaskPc /\ "spend" \in TaskPc /\ "abort" \in TaskPc
      BY DEF TaskPc
    <3> QED
      BY <1>9, <3>1, MoveType DEF RescueFold
  <2>2. out' \in [Turn -> Outcome]
    <3>1. out \in [Turn -> Outcome]
      BY DEF TypeOK, SeenType
    <3>2. Delivered(task[t].tx, t, "failed") \in [Turn -> Outcome]
      BY EmitType
    <3> QED
      BY <1>9, <3>1, <3>2 DEF RescueFold, Emit
  <2>3. StateType'
    BY <1>9 DEF RescueFold, TaskFrame, turnVars, ownVars, askVars, TypeOK, StateType
  <2>4. TasksType'
    BY <1>9, <2>1 DEF RescueFold, TaskFrame, turnVars, ownVars, askVars, TypeOK, TasksType
  <2>5. SeenType'
    BY <1>9, <2>2 DEF RescueFold, TaskFrame, turnVars, ownVars, askVars, TypeOK, SeenType
  <2> QED
    BY <2>3, <2>4, <2>5 DEF TypeOK
<1>10. CASE Stream(t)
  <2>1. task' \in [Turn -> Task]
    <3>1. "push" \in TaskPc /\ "partialC" \in TaskPc /\ "partialE" \in TaskPc /\ "abort" \in TaskPc
      BY DEF TaskPc
    <3>2. \A n \in 0..MaxCalls : n \in Nat
      BY <1>10, <3>1, BoundAssumption
    <3>3. \A n \in 0..MaxCalls : [task[t] EXCEPT !.pc = "push", !.n = n] \in Task
      BY <1>10, <3>1, <3>2, TaskFields, CallsEdit
    <3> QED
      BY <1>10, <3>1, <3>2, <3>3, TaskFields, BecomeType, MoveType DEF Stream
  <2>2. out' \in [Turn -> Outcome]
    <3>1. out \in [Turn -> Outcome]
      BY DEF TypeOK, SeenType
    <3>2. Delivered(task[t].tx, t, "failed") \in [Turn -> Outcome]
      BY EmitType
    <3> QED
      BY <1>10, <3>1, <3>2 DEF Stream, Emit
  <2>3. StateType'
    BY <1>10 DEF Stream, TaskFrame, turnVars, ownVars, askVars, TypeOK, StateType
  <2>4. TasksType'
    BY <1>10, <2>1 DEF Stream, TaskFrame, turnVars, ownVars, askVars, TypeOK, TasksType
  <2>5. SeenType'
    BY <1>10, <2>2 DEF Stream, TaskFrame, turnVars, ownVars, askVars, TypeOK, SeenType
  <2> QED
    BY <2>3, <2>4, <2>5 DEF TypeOK
<1>11. CASE Push(t)
  <2>1. task' \in [Turn -> Task]
    <3>1. "batch" \in TaskPc /\ "finF" \in TaskPc /\ "partialC" \in TaskPc
      BY DEF TaskPc
    <3>2. NoEntry \in Entry
      BY <1>11, <3>1 DEF NoEntry, Entry
    <3>3. [task[t] EXCEPT !.pc = "batch", !.anchor = NoEntry] \in Task
      BY <1>11, <3>1, <3>2, TaskFields, AnchorEdit
    <3> QED
      BY <1>11, <3>1, <3>2, <3>3, TaskFields, BecomeType, MoveType DEF Push
  <2>2. entries' \in Seq(Entry)
    <3>1. AssistantEntry(t, task[t].step, task[t].n) \in Entry
      BY EntryTypes, TaskFields
    <3>2. entries \in Seq(Entry)
      BY DEF TypeOK, StateType
    <3>3. Append(entries, AssistantEntry(t, task[t].step, task[t].n)) \in Seq(Entry)
      BY <3>1, <3>2
    <3> QED
      BY <1>11, <3>2, <3>3 DEF Push
  <2>3. StateType'
    BY <1>11, <2>2 DEF Push, TaskFrame, turnVars, ownVars, askVars, TypeOK, StateType
  <2>4. TasksType'
    BY <1>11, <2>1 DEF Push, TaskFrame, turnVars, ownVars, askVars, TypeOK, TasksType
  <2>5. SeenType'
    BY <1>11 DEF Push, TaskFrame, turnVars, ownVars, askVars, TypeOK, SeenType
  <2> QED
    BY <2>3, <2>4, <2>5 DEF TypeOK
<1>12. CASE RecordPartial(t)
  <2>1. task' \in [Turn -> Task]
    <3>1. "finC" \in TaskPc /\ "abort" \in TaskPc
      BY DEF TaskPc
    <3> QED
      BY <1>12, <3>1, MoveType DEF RecordPartial
  <2>2. entries' \in Seq(Entry)
    <3>1. PartialEntry(t, task[t].step) \in Entry
      BY EntryTypes, TaskFields
    <3>2. entries \in Seq(Entry)
      BY DEF TypeOK, StateType
    <3>3. InsertAfter(entries, task[t].anchor, PartialEntry(t, task[t].step)) \in Seq(Entry)
      BY <3>1, <3>2, InsertAfterType
    <3> QED
      BY <1>12, <3>2, <3>3 DEF RecordPartial
  <2>3. StateType'
    BY <1>12, <2>2 DEF RecordPartial, TaskFrame, turnVars, ownVars, askVars, TypeOK, StateType
  <2>4. TasksType'
    BY <1>12, <2>1 DEF RecordPartial, TaskFrame, turnVars, ownVars, askVars, TypeOK, TasksType
  <2>5. SeenType'
    BY <1>12 DEF RecordPartial, TaskFrame, turnVars, ownVars, askVars, TypeOK, SeenType
  <2> QED
    BY <2>3, <2>4, <2>5 DEF TypeOK
<1> QED
  BY <1>1, <1>2, <1>3, <1>4, <1>5, <1>6, <1>7, <1>8, <1>9, <1>10, <1>11, <1>12 DEF LoopStep

LEMMA BatchType ==
    ASSUME TypeOK, NEW t \in Turn, BatchStep(t)
    PROVE  TypeOK'
<1>1. CASE Batch(t)
  <2>1. task' \in [Turn -> Task]
    <3>1. "breaker" \in TaskPc /\ "run" \in TaskPc
      BY DEF TaskPc
    <3>2. \A hi \in task[t].k .. task[t].n : hi \in Nat
      BY <1>1, <3>1, TaskFields
    <3>3. \A hi \in task[t].k .. task[t].n :
            [task[t] EXCEPT !.pc = "run", !.hi = hi, !.at = task[t].k] \in Task
      BY <1>1, <3>1, <3>2, TaskFields, GroupEdit
    <3> QED
      BY <1>1, <3>1, <3>2, <3>3, TaskFields, BecomeType, MoveType DEF Batch
  <2>2. StateType'
    BY <1>1 DEF Batch, TaskFrame, turnVars, ownVars, askVars, TypeOK, StateType
  <2>3. TasksType'
    BY <1>1, <2>1 DEF Batch, TaskFrame, turnVars, ownVars, askVars, TypeOK, TasksType
  <2>4. SeenType'
    BY <1>1 DEF Batch, TaskFrame, turnVars, ownVars, askVars, TypeOK, SeenType
  <2> QED
    BY <2>2, <2>3, <2>4 DEF TypeOK
<1>2. CASE RunTool(t)
  <2>1. task' \in [Turn -> Task]
    <3>1. "record" \in TaskPc /\ "exec" \in TaskPc /\ "gate" \in TaskPc /\ "run" \in TaskPc
      BY DEF TaskPc
    <3>2. "done" \in Returned /\ "bounds" \in Returned /\ task[t].at + 1 \in Nat
      BY <1>2, <3>1, TaskFields DEF Result, Returned
    <3>3. \A got \in Returned :
            [task[t] EXCEPT !.pc = "record", !.at = task[t].at + 1, !.got = got] \in Task
      BY <1>2, <3>1, <3>2, TaskFields, AnsweredEdit
    <3>4. \A pc \in TaskPc : [task[t] EXCEPT !.at = task[t].at + 1, !.pc = pc] \in Task
      BY <1>2, <3>1, <3>2, TaskFields, StartedEdit
    <3> QED
      BY <1>2, <3>1, <3>2, <3>3, <3>4, TaskFields, BecomeType, MoveType DEF RunTool
  <2>2. ran' \in [Turn -> Seq(Started)]
    <3> DEFINE call == [step |-> task[t].step, k |-> task[t].at,
                        auth |-> task[t].auth, ask |-> task[t].ask]
    <3>1. call \in Started
      BY TaskFields DEF Started
    <3>2. ran \in [Turn -> Seq(Started)]
      BY DEF TypeOK, SeenType
    <3>3. ran' = ran \/ ran' = [ran EXCEPT ![t] = Append(ran[t], call)]
      BY <1>2 DEF RunTool
    <3> HIDE DEF call
    <3>4. Append(ran[t], call) \in Seq(Started)
      BY <3>1, <3>2
    <3>5. [ran EXCEPT ![t] = Append(ran[t], call)] \in [Turn -> Seq(Started)]
      BY <3>2, <3>4, Zenon
    <3> QED
      BY <3>2, <3>3, <3>5, Zenon
  <2>3. StateType'
    BY <1>2 DEF RunTool, TaskFrame, turnVars, ownVars, askVars, TypeOK, StateType
  <2>4. TasksType'
    BY <1>2, <2>1 DEF RunTool, TaskFrame, turnVars, ownVars, askVars, TypeOK, TasksType
  <2>5. SeenType'
    BY <1>2, <2>2 DEF RunTool, TaskFrame, turnVars, ownVars, askVars, TypeOK, SeenType
  <2> QED
    BY <2>3, <2>4, <2>5 DEF TypeOK
<1>3. CASE ToolReturns(t)
  <2>1. task' \in [Turn -> Task]
    <3>1. "record" \in TaskPc /\ "abort" \in TaskPc
      BY DEF TaskPc
    <3>2. "done" \in Returned /\ "bounds" \in Returned
      BY <1>3, <3>1 DEF Result, Returned
    <3>3. \A got \in Returned : [task[t] EXCEPT !.pc = "record", !.got = got] \in Task
      BY <1>3, <3>1, <3>2, TaskFields, GotEdit
    <3> QED
      BY <1>3, <3>1, <3>2, <3>3, TaskFields, BecomeType, MoveType DEF ToolReturns
  <2>2. out' \in [Turn -> Outcome]
    <3>1. out \in [Turn -> Outcome]
      BY DEF TypeOK, SeenType
    <3>2. Delivered(task[t].tx, t, "failed") \in [Turn -> Outcome]
      BY EmitType
    <3> QED
      BY <1>3, <3>1, <3>2 DEF ToolReturns, Emit
  <2>3. StateType'
    BY <1>3 DEF ToolReturns, TaskFrame, turnVars, ownVars, askVars, TypeOK, StateType
  <2>4. TasksType'
    BY <1>3, <2>1 DEF ToolReturns, TaskFrame, turnVars, ownVars, askVars, TypeOK, TasksType
  <2>5. SeenType'
    BY <1>3, <2>2 DEF ToolReturns, TaskFrame, turnVars, ownVars, askVars, TypeOK, SeenType
  <2> QED
    BY <2>3, <2>4, <2>5 DEF TypeOK
<1>4. CASE Gate(t)
  <2>1. task' \in [Turn -> Task]
    <3>1. "run" \in TaskPc /\ "record" \in TaskPc /\ "park" \in TaskPc
      BY DEF TaskPc
    <3>2. "done" \in Returned /\ "auto" \in Authority /\ task[t].at + 1 \in Nat
      BY <1>4, <3>1, TaskFields DEF Result, Returned, Authority
    <3>3. asks[t] + 1 \in Nat
      BY <1>4, <3>1 DEF TypeOK, SeenType
    <3>4. [task[t] EXCEPT !.pc = "run", !.auth = "auto"] \in Task
      BY <1>4, <3>1, <3>2, TaskFields, AuthEdit
    <3>5. [task[t] EXCEPT !.pc = "record", !.at = task[t].at + 1, !.got = "done"] \in Task
      BY <1>4, <3>1, <3>2, TaskFields, AnsweredEdit
    <3>6. [task[t] EXCEPT !.pc = "park", !.ask = asks[t] + 1] \in Task
      BY <1>4, <3>1, <3>3, TaskFields, AskEdit
    <3> QED
      BY <1>4, <3>1, <3>2, <3>3, <3>4, <3>5, <3>6, TaskFields, BecomeType, MoveType DEF Gate
  <2>2. asks' \in [Turn -> Nat]
    <3>1. asks \in [Turn -> Nat]
      BY DEF TypeOK, SeenType
    <3> QED
      BY <1>4, <3>1 DEF Gate
  <2>3. StateType'
    BY <1>4 DEF Gate, TaskFrame, turnVars, ownVars, askVars, TypeOK, StateType
  <2>4. TasksType'
    BY <1>4, <2>1 DEF Gate, TaskFrame, turnVars, ownVars, askVars, TypeOK, TasksType
  <2>5. SeenType'
    BY <1>4, <2>2 DEF Gate, TaskFrame, turnVars, ownVars, askVars, TypeOK, SeenType
  <2> QED
    BY <2>3, <2>4, <2>5 DEF TypeOK
<1>5. CASE Park(t)
  <2>1. task' \in [Turn -> Task]
    <3>1. "parked" \in TaskPc
      BY DEF TaskPc
    <3> QED
      BY <1>5, <3>1, MoveType DEF Park
  <2>2. pending' \in [turn : Turn \cup {NoTurn}, ask : Nat]
    BY <1>5, TaskFields DEF Park, TypeOK, StateType
  <2>3. raised' \subseteq [turn : Turn, ask : Nat, step : Nat, k : Nat]
    <3> DEFINE ask == [turn |-> t, ask |-> task[t].ask, step |-> task[t].step, k |-> task[t].k]
    <3>1. ask \in [turn : Turn, ask : Nat, step : Nat, k : Nat]
      BY TaskFields
    <3>2. raised \subseteq [turn : Turn, ask : Nat, step : Nat, k : Nat]
      BY DEF TypeOK, SeenType
    <3>3. raised' = raised \/ raised' = raised \cup {ask}
      BY <1>5 DEF Park
    <3> HIDE DEF ask
    <3> QED
      BY <3>1, <3>2, <3>3, Zenon
  <2>4. tail' \in [Turn -> BOOLEAN]
    BY <1>5 DEF Park, TypeOK, TasksType
  <2>5. StateType'
    BY <1>5, <2>2 DEF Park, TaskFrame, turnVars, ownVars, askVars, TypeOK, StateType
  <2>6. TasksType'
    BY <1>5, <2>1, <2>4 DEF Park, TaskFrame, turnVars, ownVars, askVars, TypeOK, TasksType
  <2>7. SeenType'
    BY <1>5, <2>3 DEF Park, TaskFrame, turnVars, ownVars, askVars, TypeOK, SeenType
  <2> QED
    BY <2>5, <2>6, <2>7 DEF TypeOK
<1>6. CASE ResolveChannel(t)
  <2>1. task' \in [Turn -> Task]
    <3>1. "answer" \in TaskPc
      BY DEF TaskPc
    <3>2. ChannelOf(t) \in Turn \cup {NoTurn}
      BY <1>6, <3>1 DEF ChannelOf
    <3>3. [task[t] EXCEPT !.pc = "answer", !.tx = ChannelOf(t)] \in Task
      BY <1>6, <3>1, <3>2, TaskFields, ChannelEdit
    <3> QED
      BY <1>6, <3>1, <3>2, <3>3, TaskFields, BecomeType, MoveType DEF ResolveChannel
  <2>2. StateType'
    BY <1>6 DEF ResolveChannel, TaskFrame, turnVars, ownVars, askVars, TypeOK, StateType
  <2>3. TasksType'
    BY <1>6, <2>1 DEF ResolveChannel, TaskFrame, turnVars, ownVars, askVars, TypeOK, TasksType
  <2>4. SeenType'
    BY <1>6 DEF ResolveChannel, TaskFrame, turnVars, ownVars, askVars, TypeOK, SeenType
  <2> QED
    BY <2>2, <2>3, <2>4 DEF TypeOK
<1>7. CASE HandleApproval(t)
  <2>1. task' \in [Turn -> Task]
    <3>1. "run" \in TaskPc
      BY DEF TaskPc
    <3>2. [task[t] EXCEPT !.pc = "run", !.asked = TRUE, !.again = TRUE] \in Task
      BY <1>7, <3>1, TaskFields, ResumedEdit
    <3> QED
      BY <1>7, <3>1, <3>2, TaskFields, BecomeType, MoveType DEF HandleApproval
  <2>2. StateType'
    BY <1>7 DEF HandleApproval, TaskFrame, turnVars, ownVars, askVars, TypeOK, StateType
  <2>3. TasksType'
    BY <1>7, <2>1 DEF HandleApproval, TaskFrame, turnVars, ownVars, askVars, TypeOK, TasksType
  <2>4. SeenType'
    BY <1>7 DEF HandleApproval, TaskFrame, turnVars, ownVars, askVars, TypeOK, SeenType
  <2> QED
    BY <2>2, <2>3, <2>4 DEF TypeOK
<1>8. CASE RecordResult(t)
  <2>1. task' \in [Turn -> Task]
    <3>1. "resume" \in TaskPc /\ "batch" \in TaskPc
      BY DEF TaskPc
    <3>2. task[t].k + 1 \in Nat
      BY <1>8, <3>1, TaskFields
    <3>3. [task[t] EXCEPT !.k = task[t].k + 1] \in Task
      BY <1>8, <3>1, <3>2, TaskFields, CursorEdit
    <3>4. \A pc \in TaskPc : Fresh(pc, task[t].tx) \in Task
      BY <1>8, <3>1, TaskFields, FreshType
    <3>5. \A pc \in TaskPc : [Fresh(pc, task[t].tx) EXCEPT !.k = task[t].k + 1, !.n = task[t].n,
                                !.step = task[t].step, !.again = task[t].again] \in Task
      BY <1>8, <3>1, <3>2, <3>4, TaskFields, NextCallEdit
    <3> QED
      BY <1>8, <3>1, <3>2, <3>3, <3>4, <3>5, TaskFields, BecomeType, MoveType DEF RecordResult, RestOf
  <2>2. entries' \in Seq(Entry)
    <3>1. entries \in Seq(Entry)
      BY DEF TypeOK, StateType
    <3>2. ResultOf(task[t]) \in Result
      BY TaskFields DEF Result, Returned, ResultOf
    <3>3. Recorded(entries, t, task[t].step, task[t].k, ResultOf(task[t])) \in Seq(Entry)
      BY <3>1, <3>2, RecordedType
    <3> QED
      BY <1>8, <3>1, <3>3, Zenon DEF RecordResult
  <2>3. turn_boundary_denials' \in Nat
    BY <1>8 DEF RecordResult, TypeOK, StateType
  <2>4. StateType'
    BY <1>8, <2>2, <2>3 DEF RecordResult, TaskFrame, turnVars, ownVars, askVars, TypeOK, StateType
  <2>5. TasksType'
    BY <1>8, <2>1 DEF RecordResult, TaskFrame, turnVars, ownVars, askVars, TypeOK, TasksType
  <2>6. SeenType'
    BY <1>8 DEF RecordResult, TaskFrame, turnVars, ownVars, askVars, TypeOK, SeenType
  <2> QED
    BY <2>4, <2>5, <2>6 DEF TypeOK
<1>9. CASE Resume(t)
  <2>1. task' \in [Turn -> Task]
    <3>1. "batch" \in TaskPc
      BY DEF TaskPc
    <3> QED
      BY <1>9, <3>1, MoveType DEF Resume
  <2>2. StateType'
    BY <1>9 DEF Resume, TaskFrame, turnVars, ownVars, askVars, TypeOK, StateType
  <2>3. TasksType'
    BY <1>9, <2>1 DEF Resume, TaskFrame, turnVars, ownVars, askVars, TypeOK, TasksType
  <2>4. SeenType'
    BY <1>9 DEF Resume, TaskFrame, turnVars, ownVars, askVars, TypeOK, SeenType
  <2> QED
    BY <2>2, <2>3, <2>4 DEF TypeOK
<1>10. CASE DropCalls(t)
  <2>1. task' \in [Turn -> Task]
    <3>1. "finC" \in TaskPc
      BY DEF TaskPc
    <3>2. task[t].k + 1 \in Nat
      BY <1>10, <3>1, TaskFields
    <3>3. [task[t] EXCEPT !.k = task[t].k + 1] \in Task
      BY <1>10, <3>1, <3>2, TaskFields, CursorEdit
    <3> QED
      BY <1>10, <3>1, <3>2, <3>3, TaskFields, BecomeType, MoveType DEF DropCalls
  <2>2. entries' \in Seq(Entry)
    <3>1. entries \in Seq(Entry)
      BY DEF TypeOK, StateType
    <3>2. "cancelled" \in Result
      BY TaskFields DEF Result
    <3>3. Recorded(entries, t, task[t].step, task[t].k, "cancelled") \in Seq(Entry)
      BY <3>1, <3>2, RecordedType
    <3> QED
      BY <1>10, <3>1, <3>3, Zenon DEF DropCalls
  <2>3. StateType'
    BY <1>10, <2>2 DEF DropCalls, TaskFrame, turnVars, ownVars, askVars, TypeOK, StateType
  <2>4. TasksType'
    BY <1>10, <2>1 DEF DropCalls, TaskFrame, turnVars, ownVars, askVars, TypeOK, TasksType
  <2>5. SeenType'
    BY <1>10 DEF DropCalls, TaskFrame, turnVars, ownVars, askVars, TypeOK, SeenType
  <2> QED
    BY <2>3, <2>4, <2>5 DEF TypeOK
<1>11. CASE Breaker(t)
  <2>1. task' \in [Turn -> Task]
    <3>1. "abort" \in TaskPc /\ "entry" \in TaskPc /\ "spend" \in TaskPc
      BY DEF TaskPc
    <3> QED
      BY <1>11, <3>1, MoveType DEF Breaker
  <2>2. out' \in [Turn -> Outcome]
    <3>1. out \in [Turn -> Outcome]
      BY DEF TypeOK, SeenType
    <3>2. Delivered(task[t].tx, t, "failed") \in [Turn -> Outcome]
      BY EmitType
    <3> QED
      BY <1>11, <3>1, <3>2 DEF Breaker, Emit
  <2>3. StateType'
    BY <1>11 DEF Breaker, TaskFrame, turnVars, ownVars, askVars, TypeOK, StateType
  <2>4. TasksType'
    BY <1>11, <2>1 DEF Breaker, TaskFrame, turnVars, ownVars, askVars, TypeOK, TasksType
  <2>5. SeenType'
    BY <1>11, <2>2 DEF Breaker, TaskFrame, turnVars, ownVars, askVars, TypeOK, SeenType
  <2> QED
    BY <2>3, <2>4, <2>5 DEF TypeOK
<1> QED
  BY <1>1, <1>2, <1>3, <1>4, <1>5, <1>6, <1>7, <1>8, <1>9, <1>10, <1>11 DEF BatchStep

(* cancel_turn_inner leaves everything it touches well typed. *)
LEMMA CancelInnerType ==
    ASSUME TypeOK, CancelInner
    PROVE  /\ pending' \in [turn : Turn \cup {NoTurn}, ask : Nat]
           /\ cancelled' \in [Turn -> BOOLEAN]
           /\ steering' \in Seq(Steered)
           /\ task' \in [Turn -> Task]
<1>1. pending' \in [turn : Turn \cup {NoTurn}, ask : Nat]
  BY DEF CancelInner, TakePending, NoPending
<1>2. cancelled' \in [Turn -> BOOLEAN]
  BY DEF CancelInner, CancelToken, TypeOK, StateType
<1>3. steering' \in Seq(Steered)
  BY DEF CancelInner
<1>4. task' \in [Turn -> Task]
  <2>1. turn_events \in Turn \cup {NoTurn}
    BY DEF TypeOK, StateType
  <2>2. \A u \in Turn : task[u] \in Task /\ [Dropping(task[u]) EXCEPT !.tx = turn_events] \in Task
    BY <2>1, TaskFields, DroppingType, SenderEdit
  <2> QED
    BY <2>2 DEF CancelInner
<1> QED
  BY <1>1, <1>2, <1>3, <1>4

LEMMA OwnEndType ==
    ASSUME TypeOK, NEW t \in Turn,
           Finish(t) \/ EmitTerminal(t) \/ EmitAsk(t) \/ HandleFlip(t) \/ HandleCancelIf(t)
    PROVE  TypeOK'
<1>1. CASE Finish(t)
  <2>1. task' \in [Turn -> Task]
    <3>1. "emitC" \in TaskPc /\ "emitF" \in TaskPc
      BY DEF TaskPc
    <3> QED
      BY <1>1, <3>1, MoveType DEF Finish
  <2>2. current_turn_id' \in Turn \cup {NoTurn} /\ turn_events' \in Turn \cup {NoTurn}
    BY <1>1 DEF Finish, FinishTurn, TypeOK, StateType
  <2>3. StateType'
    BY <1>1, <2>2 DEF Finish, TaskFrame, turnVars, ownVars, askVars, TypeOK, StateType
  <2>4. TasksType'
    BY <1>1, <2>1 DEF Finish, TaskFrame, turnVars, ownVars, askVars, TypeOK, TasksType
  <2>5. SeenType'
    BY <1>1 DEF Finish, TaskFrame, turnVars, ownVars, askVars, TypeOK, SeenType
  <2> QED
    BY <2>3, <2>4, <2>5 DEF TypeOK
<1>2. CASE EmitTerminal(t)
  <2>1. task' \in [Turn -> Task]
    <3>1. "done" \in TaskPc
      BY DEF TaskPc
    <3> QED
      BY <1>2, <3>1, MoveType DEF EmitTerminal
  <2>2. out' \in [Turn -> Outcome]
    <3>1. out \in [Turn -> Outcome]
      BY DEF TypeOK, SeenType
    <3>2. Delivered(task[t].tx, t, "cancelled") \in [Turn -> Outcome]
      BY EmitType
    <3>3. Delivered(task[t].tx, t, "finished") \in [Turn -> Outcome]
      BY EmitType
    <3> QED
      BY <1>2, <3>1, <3>2, <3>3 DEF EmitTerminal, Emit
  <2>3. StateType'
    BY <1>2 DEF EmitTerminal, stateVars, askVars, TypeOK, StateType
  <2>4. TasksType'
    BY <1>2, <2>1 DEF EmitTerminal, stateVars, askVars, TypeOK, TasksType
  <2>5. SeenType'
    BY <1>2, <2>2 DEF EmitTerminal, stateVars, askVars, TypeOK, SeenType
  <2> QED
    BY <2>3, <2>4, <2>5 DEF TypeOK
<1>3. CASE EmitAsk(t)
  <2>1. tail' \in [Turn -> BOOLEAN]
    BY <1>3 DEF EmitAsk, TypeOK, TasksType
  <2>2. StateType'
    BY <1>3 DEF EmitAsk, stateVars, seenVars, TypeOK, StateType
  <2>3. TasksType'
    BY <1>3, <2>1 DEF EmitAsk, stateVars, seenVars, TypeOK, TasksType
  <2>4. SeenType'
    BY <1>3 DEF EmitAsk, stateVars, seenVars, TypeOK, SeenType
  <2> QED
    BY <2>2, <2>3, <2>4 DEF TypeOK
<1>4. CASE HandleFlip(t)
  <2>1. handle' \in [Turn -> {"none", "open", "flipped", "closed"}]
    BY <1>4 DEF HandleFlip, TypeOK, TasksType
  <2>2. cancelled' \in [Turn -> BOOLEAN]
    BY <1>4 DEF HandleFlip, TypeOK, StateType
  <2>3. StateType'
    BY <1>4, <2>2 DEF HandleFlip, turnVars, ownVars, askVars, taskVars, seenVars, TypeOK, StateType
  <2>4. TasksType'
    BY <1>4, <2>1 DEF HandleFlip, turnVars, ownVars, askVars, taskVars, seenVars, TypeOK, TasksType
  <2>5. SeenType'
    BY <1>4 DEF HandleFlip, turnVars, ownVars, askVars, taskVars, seenVars, TypeOK, SeenType
  <2> QED
    BY <2>3, <2>4, <2>5 DEF TypeOK
<1>5. CASE HandleCancelIf(t)
  <2>1. handle' \in [Turn -> {"none", "open", "flipped", "closed"}]
    BY <1>5 DEF HandleCancelIf, TypeOK, TasksType
  <2>2. /\ pending' \in [turn : Turn \cup {NoTurn}, ask : Nat]
        /\ cancelled' \in [Turn -> BOOLEAN] /\ steering' \in Seq(Steered)
        /\ task' \in [Turn -> Task]
    BY <1>5, CancelInnerType, TaskFields DEF HandleCancelIf, TypeOK, StateType
  <2>3. StateType'
    BY <1>5, <2>2 DEF HandleCancelIf, turnVars, ownVars, askVars, taskVars, seenVars, TypeOK, StateType
  <2>4. TasksType'
    BY <1>5, <2>1, <2>2 DEF HandleCancelIf, turnVars, ownVars, askVars, taskVars, seenVars, TypeOK, TasksType
  <2>5. SeenType'
    BY <1>5 DEF HandleCancelIf, turnVars, ownVars, askVars, taskVars, seenVars, TypeOK, SeenType
  <2> QED
    BY <2>3, <2>4, <2>5 DEF TypeOK
<1> QED
  BY <1>1, <1>2, <1>3, <1>4, <1>5

LEMMA FrontType ==
    ASSUME TypeOK, FrontEnd
    PROVE  TypeOK'
<1>1. CASE CancelTurn
  <2>1. /\ pending' \in [turn : Turn \cup {NoTurn}, ask : Nat]
        /\ cancelled' \in [Turn -> BOOLEAN] /\ steering' \in Seq(Steered)
        /\ task' \in [Turn -> Task]
    BY <1>1, CancelInnerType DEF CancelTurn
  <2>2. StateType'
    BY <1>1, <2>1 DEF CancelTurn, turnVars, ownVars, askVars, taskVars, seenVars, TypeOK, StateType
  <2>3. TasksType'
    BY <1>1, <2>1 DEF CancelTurn, turnVars, ownVars, askVars, taskVars, seenVars, TypeOK, TasksType
  <2>4. SeenType'
    BY <1>1 DEF CancelTurn, turnVars, ownVars, askVars, taskVars, seenVars, TypeOK, SeenType
  <2> QED
    BY <2>2, <2>3, <2>4 DEF TypeOK
<1>2. CASE SteerUser
  <2>1. steering' \in Seq(Steered)
    <3>1. [kind |-> "steer", of |-> current_turn_id, n |-> steered + 1] \in Steered
      BY <1>2 DEF SteerUser, SteerAccepted, Steered, TypeOK, StateType, SeenType
    <3>2. steering \in Seq(Steered)
      BY DEF TypeOK, StateType
    <3> QED
      BY <1>2, <3>1, <3>2 DEF SteerUser
  <2>2. StateType'
    BY <1>2, <2>1 DEF SteerUser, turnVars, ownVars, askVars, taskVars, seenVars, TypeOK, StateType
  <2>3. TasksType'
    BY <1>2 DEF SteerUser, turnVars, ownVars, askVars, taskVars, seenVars, TypeOK, TasksType
  <2>4. SeenType'
    BY <1>2 DEF SteerUser, turnVars, ownVars, askVars, taskVars, seenVars, TypeOK, SeenType
  <2> QED
    BY <2>2, <2>3, <2>4 DEF TypeOK
<1>3. CASE RestoreBegin
  <2>1. StateType'
    BY <1>3 DEF RestoreBegin, turnVars, ownVars, askVars, taskVars, seenVars, TypeOK, StateType
  <2>2. TasksType'
    BY <1>3 DEF RestoreBegin, turnVars, ownVars, askVars, taskVars, seenVars, TypeOK, TasksType
  <2>3. SeenType'
    BY <1>3 DEF RestoreBegin, turnVars, ownVars, askVars, taskVars, seenVars, TypeOK, SeenType
  <2> QED
    BY <2>1, <2>2, <2>3 DEF TypeOK
<1>4. CASE RestoreEnd
  <2>1. StateType'
    BY <1>4 DEF RestoreEnd, turnVars, ownVars, askVars, taskVars, seenVars, TypeOK, StateType
  <2>2. TasksType'
    BY <1>4 DEF RestoreEnd, turnVars, ownVars, askVars, taskVars, seenVars, TypeOK, TasksType
  <2>3. SeenType'
    BY <1>4 DEF RestoreEnd, turnVars, ownVars, askVars, taskVars, seenVars, TypeOK, SeenType
  <2> QED
    BY <2>1, <2>2, <2>3 DEF TypeOK
<1>5. ASSUME NEW a \in raised, NEW d \in {"approved", "denied"}, SubmitApproval(a, d)
      PROVE  TypeOK'
  <2>1. task' \in [Turn -> Task]
    <3>1. a.turn \in Turn
      BY DEF TypeOK, SeenType
    <3>2. "channel" \in TaskPc /\ "human" \in Authority /\ "denied" \in Authority
      BY DEF TaskPc, Authority
    <3>3. \A auth \in Authority :
            [task[a.turn] EXCEPT !.pc = "channel", !.auth = auth] \in Task
      BY <3>1, <3>2, TaskFields, AuthEdit
    <3> QED
      BY <1>5, <3>1, <3>2, <3>3, TaskFields, BecomeType DEF SubmitApproval
  <2>2. pending' \in [turn : Turn \cup {NoTurn}, ask : Nat]
    BY <1>5 DEF SubmitApproval, TakePending, NoPending
  <2>3. answered' \subseteq [turn : Turn, ask : Nat, decision : {"approved", "denied"}]
    <3>1. /\ raised \subseteq [turn : Turn, ask : Nat, step : Nat, k : Nat]
          /\ answered \subseteq [turn : Turn, ask : Nat, decision : {"approved", "denied"}]
      BY DEF TypeOK, SeenType
    <3> QED
      BY <1>5, <3>1 DEF SubmitApproval
  <2>4. StateType'
    BY <1>5, <2>2 DEF SubmitApproval, TaskFrame, turnVars, ownVars, askVars, TypeOK, StateType
  <2>5. TasksType'
    BY <1>5, <2>1 DEF SubmitApproval, TaskFrame, turnVars, ownVars, askVars, TypeOK, TasksType
  <2>6. SeenType'
    BY <1>5, <2>3 DEF SubmitApproval, TaskFrame, turnVars, ownVars, askVars, TypeOK, SeenType
  <2> QED
    BY <2>4, <2>5, <2>6 DEF TypeOK
<1>6. ASSUME NEW t \in Turn, HandleFlip(t) \/ HandleCancelIf(t)
      PROVE  TypeOK'
  BY <1>6, OwnEndType
<1> QED
  BY <1>1, <1>2, <1>3, <1>4, <1>5, <1>6 DEF FrontEnd

LEMMA InitType ==
    ASSUME Init
    PROVE  TypeOK
<1>1. Fresh("none", NoTurn) \in Task
  BY FreshType DEF TaskPc
<1>2. StateType
  <2>1. /\ pending \in [turn : Turn \cup {NoTurn}, ask : Nat]
        /\ turn_budget \in [turn : Turn \cup {NoTurn}, steps : Nat,
                            wrap_up_sent : BOOLEAN, overflow_rescued : BOOLEAN]
    BY DEF Init, NoPending, NoBudget
  <2>2. steering \in Seq(Steered) /\ entries \in Seq(Entry)
    BY DEF Init
  <2> QED
    BY <2>1, <2>2 DEF Init, StateType
<1>3. TasksType
  BY <1>1 DEF Init, TasksType, BootPc
<1>4. SeenType
  BY DEF Init, SeenType, NoOutcome, Outcome
<1> QED
  BY <1>2, <1>3, <1>4 DEF TypeOK

LEMMA NextType ==
    ASSUME TypeOK, [Next]_vars
    PROVE  TypeOK'
<1>1. ASSUME NEW t \in Turn, BootStep(t) \/ TaskStep(t) \/ EmitAsk(t)
      PROVE  TypeOK'
  BY <1>1, BootType, LoopType, BatchType, OwnEndType DEF TaskStep
<1>2. CASE UNCHANGED vars
  BY <1>2 DEF vars, stateVars, taskVars, seenVars, TypeOK, StateType, TasksType, SeenType
<1> QED
  BY <1>1, <1>2, FrontType DEF Next

(* In every reachable state the shared state, the tasks and what an observer *)
(* has seen are well typed: in particular no notice or prompt is queued for  *)
(* no turn, and a task's call cursors, its sender and its anchor stay        *)
(* meaningful through every park, resume and cancel.                         *)
THEOREM TypeCorrect == Spec => []TypeOK
<1>1. Init => TypeOK
  BY InitType
<1>2. TypeOK /\ [Next]_vars => TypeOK'
  BY NextType
<1> QED
  BY <1>1, <1>2, PTL DEF Spec

-----------------------------------------------------------------------------
(* The inductive invariant *)

(* The pcs of a task that has told its consumer the outcome (or has nothing *)
(* left to say): it only closes the turn from there.                        *)
Ending == {"partialE", "abort", "done"}

(* The pcs between spend_step and the request it pays for. *)
Paid == {"check", "notice", "drain", "anchor", "open"}

Owed(t) == IF task[t].pc \in Paid THEN 1 ELSE 0

(* Before drive_turn_handle there is no task, no request and no outcome;    *)
(* before begin_turn's last section the turn is nobody's live turn.         *)
NotStarted ==
    \A t \in Turn :
        /\ boot[t].pc # "done" => task[t].pc = "none" /\ requests[t] = 0 /\ out[t] = NoOutcome
        /\ boot[t].pc \notin {"drive", "done"} => current_turn_id # t /\ turn_budget.turn # t

(* The live turn holds the budget and the token; its channel is installed   *)
(* once it is driven, and no channel is installed when no turn is live.     *)
LiveTurn ==
    /\ current_turn_id # NoTurn => turn_budget.turn = current_turn_id
    /\ current_turn_id = NoTurn => turn_events = NoTurn
    /\ \A t \in Turn : current_turn_id = t /\ boot[t].pc = "done" => turn_events = t
    /\ \A t \in Turn : turn_events = t => boot[t].pc = "done"

(* A parked batch is a task that does nothing but wait. *)
ParkedWaits == \A t \in Turn : pending.turn = t => task[t].pc = "parked"

(* A task's sender feeds its own turn's channel, or one nobody reads. *)
Senders == \A t \in Turn : task[t].tx \in {t, NoTurn}

(* A turn whose consumer was told the outcome no longer owns the runtime,   *)
(* or its task is closing it.                                               *)
ToldIsOver ==
    \A t \in Turn : out[t] # NoOutcome => ~OwnsTurn(t) \/ task[t].pc \in Ending

(* Requests sent and requests paid for never exceed the steps counted, nor  *)
(* the cap.                                                                 *)
StepsCount ==
    \A t \in Turn :
        /\ turn_budget.turn = t => requests[t] + Owed(t) <= turn_budget.steps
        /\ StepCap > 0 => requests[t] + Owed(t) <= StepCap

Inv == /\ TypeOK /\ NotStarted /\ LiveTurn /\ ParkedWaits /\ ParkedIsCancellable
       /\ Senders /\ OwnOutcome /\ ToldIsOver /\ StepsCount
-----------------------------------------------------------------------------
(* What one step of a task does to everything the invariant looks at *)

(* The task of t goes on at pc with the sender tx; the others stay. *)
Moved(t, pc, tx) ==
    /\ task'[t].pc = pc /\ task'[t].tx = tx
    /\ \A u \in Turn \ {t} : task'[u] = task[u]

(* The task of t goes on at one of the given pcs. *)
Moves(t, pcs) == \E pc \in pcs, tx \in {task[t].tx, t, NoTurn} : Moved(t, pc, tx)

(* The step counts one more model request against the budget of t. *)
Spends(t) ==
    /\ turn_budget.turn = t /\ turn_budget'.steps = turn_budget.steps + 1
    /\ requests' = requests /\ task[t].pc \notin Paid
    /\ task'[t].pc \in Paid => ~OverCap(turn_budget.steps + 1)

(* The step counts nothing, and sends a request only if one is paid for. *)
Sends(t) ==
    /\ turn_budget'.steps = turn_budget.steps
    /\ \/ requests' = requests /\ (task'[t].pc \in Paid => task[t].pc \in Paid)
       \/ /\ task[t].pc = "open" /\ task'[t].pc \notin Paid
          /\ requests' = [requests EXCEPT ![t] = @ + 1]

(* An outcome is told only by a task that then closes the turn. *)
Tells(t) ==
    \/ out' = out
    \/ /\ task'[t].pc \in Ending
       /\ \E event : out' = Delivered(task[t].tx, t, event)

(* All a step of the loop or of a batch does to the rest of the runtime. *)
Effect(t) ==
    /\ UNCHANGED <<current_turn_id, turn_events, cancelled, boot, handle, pending>>
    /\ turn_budget'.turn = turn_budget.turn
    /\ task[t].pc \notin {"none", "parked", "done"}
    /\ Moves(t, TaskPc \ {"none", "parked"})
    /\ task[t].pc \in Ending => task'[t].pc \in Ending
    /\ Spends(t) \/ Sends(t)
    /\ Tells(t)

LEMMA FreshFields ==
    ASSUME NEW pc, NEW tx
    PROVE  Fresh(pc, tx).pc = pc /\ Fresh(pc, tx).tx = tx
  BY DEF Fresh

LEMMA DroppingFields ==
    ASSUME NEW c
    PROVE  Dropping(c).pc = "drop" /\ Dropping(c).tx = c.tx
  BY DEF Dropping, Fresh

LEMMA MoveIs ==
    ASSUME TypeOK, NEW t \in Turn
    PROVE  /\ \A pc : Goto(t, pc) => Moved(t, pc, task[t].tx)
           /\ \A pc : Leave(t, pc) => Moved(t, pc, task[t].tx)
           /\ End(t) => Moved(t, "done", NoTurn)
           /\ Become(t, Dropping(task[t])) => Moved(t, "drop", task[t].tx)
<1> USE TaskFields DEF Become, Moved
<1>1. \A pc : Goto(t, pc) => Moved(t, pc, task[t].tx)
  BY DEF Goto, Task
<1>2. \A pc : Leave(t, pc) => Moved(t, pc, task[t].tx)
  BY FreshFields DEF Leave
<1>3. End(t) => Moved(t, "done", NoTurn)
  BY FreshFields DEF End
<1>4. Become(t, Dropping(task[t])) => Moved(t, "drop", task[t].tx)
  BY DroppingFields
<1> QED
  BY <1>1, <1>2, <1>3, <1>4

LEMMA TaskEffect ==
    ASSUME TypeOK, NEW t \in Turn, TaskStep(t), ~Park(t), ~Finish(t)
    PROVE  Effect(t)
<1>1. CASE Enter(t)
  <2>1. Moves(t, {"check0", "done"})
    BY <1>1, MoveIs DEF Enter, Moves
  <2>2. Tells(t)
    BY <1>1 DEF Enter, Tells
  <2>3. Spends(t) \/ Sends(t)
    BY <1>1, <2>1 DEF Enter, Moves, Moved, Spends, Sends, Paid, ownVars
  <2> QED
    BY <1>1, <2>1, <2>2, <2>3 DEF Enter, Effect, Moves, Moved, TaskPc, Ending, TaskFrame, turnVars, ownVars
<1>2. CASE Check0(t)
  <2>1. Moves(t, {"finC", "spend"})
    BY <1>2, MoveIs DEF Check0, Moves
  <2>2. Tells(t)
    BY <1>2 DEF Check0, Tells
  <2>3. Spends(t) \/ Sends(t)
    BY <1>2, <2>1 DEF Check0, Moves, Moved, Spends, Sends, Paid, ownVars
  <2> QED
    BY <1>2, <2>1, <2>2, <2>3 DEF Check0, Effect, Moves, Moved, TaskPc, Ending, TaskFrame, turnVars, ownVars
<1>3. CASE SpendStep(t)
  <2>1. \A st, re, du : Become(t, [task[t] EXCEPT !.pc = "check", !.step = st, !.rescued = re, !.due = du])
           => Moved(t, "check", task[t].tx)
    BY TaskFields DEF Become, Moved, Task
  <2>2. Moves(t, {"done", "abort", "check"})
    BY <1>3, <2>1, MoveIs DEF SpendStep, Moves
  <2>3. Tells(t)
    BY <1>3, MoveIs DEF SpendStep, Tells, Emit, Ending, Moved
  <2>4. Spends(t) \/ Sends(t)
    <3>1. CASE turn_budget.turn # t
      BY <1>3, <3>1, MoveIs DEF SpendStep, Moved, Sends, Paid
    <3>2. CASE turn_budget.turn = t
      <4>1. turn_budget'.steps = turn_budget.steps + 1 /\ requests' = requests
        BY <1>3, <3>2 DEF SpendStep, TypeOK, StateType
      <4>2. task[t].pc \notin Paid
        BY <1>3 DEF SpendStep, Paid
      <4>3. task'[t].pc \in Paid => ~OverCap(turn_budget.steps + 1)
        BY <1>3, <3>2, MoveIs DEF SpendStep, Moved, Paid
      <4> QED
        BY <3>2, <4>1, <4>2, <4>3 DEF Spends
    <3> QED
      BY <3>1, <3>2
  <2>5. turn_budget'.turn = turn_budget.turn
    BY <1>3 DEF SpendStep, TypeOK, StateType
  <2> QED
    BY <1>3, <2>2, <2>3, <2>4, <2>5 DEF SpendStep, Effect, Moves, Moved, TaskPc, Ending, TaskFrame, turnVars, ownVars
<1>4. CASE Check(t)
  <2>1. \A pc : Become(t, [task[t] EXCEPT !.pc = pc, !.due = FALSE])
           => Moved(t, pc, task[t].tx)
    BY TaskFields DEF Become, Moved, Task
  <2>2. Moves(t, {"finC", "notice", "drain"})
    BY <1>4, <2>1, MoveIs DEF Check, Moves
  <2>3. Tells(t)
    BY <1>4 DEF Check, Tells
  <2>4. Spends(t) \/ Sends(t)
    BY <1>4, <2>2 DEF Check, Moves, Moved, Spends, Sends, Paid, ownVars
  <2> QED
    BY <1>4, <2>2, <2>3, <2>4 DEF Check, Effect, Moves, Moved, TaskPc, Ending, TaskFrame, turnVars, ownVars
<1>5. CASE SteerNotice(t)
  <2>1. Moves(t, {"drain"})
    BY <1>5, MoveIs DEF SteerNotice, Moves
  <2>2. Tells(t)
    BY <1>5 DEF SteerNotice, Tells
  <2>3. Spends(t) \/ Sends(t)
    BY <1>5, <2>1 DEF SteerNotice, Moves, Moved, Spends, Sends, Paid, ownVars
  <2> QED
    BY <1>5, <2>1, <2>2, <2>3 DEF SteerNotice, Effect, Moves, Moved, TaskPc, Ending, TaskFrame, turnVars, ownVars
<1>6. CASE DrainSteering(t)
  <2>1. Moves(t, {"anchor"})
    BY <1>6, MoveIs DEF DrainSteering, Moves
  <2>2. Tells(t)
    BY <1>6 DEF DrainSteering, Tells
  <2>3. Spends(t) \/ Sends(t)
    BY <1>6, <2>1 DEF DrainSteering, Moves, Moved, Spends, Sends, Paid, ownVars
  <2> QED
    BY <1>6, <2>1, <2>2, <2>3 DEF DrainSteering, Effect, Moves, Moved, TaskPc, Ending, TaskFrame, turnVars, ownVars
<1>7. CASE ReadAnchor(t)
  <2>1. \A e : Become(t, [task[t] EXCEPT !.pc = "open", !.anchor = e])
           => Moved(t, "open", task[t].tx)
    BY TaskFields DEF Become, Moved, Task
  <2>2. Moves(t, {"open"})
    BY <1>7, <2>1, MoveIs DEF ReadAnchor, Moves
  <2>3. Tells(t)
    BY <1>7 DEF ReadAnchor, Tells
  <2>4. Spends(t) \/ Sends(t)
    BY <1>7, <2>2 DEF ReadAnchor, Moves, Moved, Spends, Sends, Paid, ownVars
  <2> QED
    BY <1>7, <2>2, <2>3, <2>4 DEF ReadAnchor, Effect, Moves, Moved, TaskPc, Ending, TaskFrame, turnVars, ownVars
<1>8. CASE Open(t)
  <2>1. Become(t, [task[t] EXCEPT !.pc = "stream", !.rescued = FALSE])
           => Moved(t, "stream", task[t].tx)
    BY TaskFields DEF Become, Moved, Task
  <2>2. Moves(t, {"finC", "stream", "rescue", "abort"})
    BY <1>8, <2>1, MoveIs DEF Open, Moves
  <2>3. Tells(t)
    BY <1>8, MoveIs DEF Open, Tells, Emit, Ending, Moved
  <2>4. Spends(t) \/ Sends(t)
    <3>1. turn_budget'.steps = turn_budget.steps
      BY <1>8 DEF Open, TypeOK, StateType
    <3>2. task[t].pc = "open" /\ task'[t].pc \notin Paid
      BY <1>8, <2>2 DEF Open, Moves, Moved, Paid
    <3>3. requests' = requests \/ requests' = [requests EXCEPT ![t] = @ + 1]
      BY <1>8, Zenon DEF Open
    <3> QED
      BY <3>1, <3>2, <3>3, Zenon DEF Sends
  <2>5. turn_budget'.turn = turn_budget.turn
    BY <1>8 DEF Open, TypeOK, StateType
  <2> QED
    BY <1>8, <2>2, <2>3, <2>4, <2>5 DEF Open, Effect, Moves, Moved, TaskPc, Ending, TaskFrame, turnVars, ownVars
<1>9. CASE RescueFold(t)
  <2>1. Moves(t, {"finC", "spend", "abort"})
    BY <1>9, MoveIs DEF RescueFold, Moves
  <2>2. Tells(t)
    BY <1>9, MoveIs DEF RescueFold, Tells, Emit, Ending, Moved
  <2>3. Spends(t) \/ Sends(t)
    BY <1>9, <2>1 DEF RescueFold, Moves, Moved, Spends, Sends, Paid, ownVars
  <2> QED
    BY <1>9, <2>1, <2>2, <2>3 DEF RescueFold, Effect, Moves, Moved, TaskPc, Ending, TaskFrame, turnVars, ownVars
<1>10. CASE Stream(t)
  <2>1. \A n : Become(t, [task[t] EXCEPT !.pc = "push", !.n = n])
           => Moved(t, "push", task[t].tx)
    BY TaskFields DEF Become, Moved, Task
  <2>2. Moves(t, {"partialC", "push", "partialE", "abort"})
    BY <1>10, <2>1, MoveIs DEF Stream, Moves
  <2>3. Tells(t)
    BY <1>10, MoveIs DEF Stream, Tells, Emit, Ending, Moved
  <2>4. Spends(t) \/ Sends(t)
    BY <1>10, <2>2 DEF Stream, Moves, Moved, Spends, Sends, Paid, ownVars
  <2> QED
    BY <1>10, <2>2, <2>3, <2>4 DEF Stream, Effect, Moves, Moved, TaskPc, Ending, TaskFrame, turnVars, ownVars
<1>11. CASE Push(t)
  <2>1. Become(t, [task[t] EXCEPT !.pc = "batch", !.anchor = NoEntry])
           => Moved(t, "batch", task[t].tx)
    BY TaskFields DEF Become, Moved, Task
  <2>2. Moves(t, {"finF", "batch", "partialC"})
    BY <1>11, <2>1, MoveIs DEF Push, Moves
  <2>3. Tells(t)
    BY <1>11 DEF Push, Tells
  <2>4. Spends(t) \/ Sends(t)
    BY <1>11, <2>2 DEF Push, Moves, Moved, Spends, Sends, Paid, ownVars
  <2> QED
    BY <1>11, <2>2, <2>3, <2>4 DEF Push, Effect, Moves, Moved, TaskPc, Ending, TaskFrame, turnVars, ownVars
<1>12. CASE RecordPartial(t)
  <2>1. Moves(t, {"finC", "abort"})
    BY <1>12, MoveIs DEF RecordPartial, Moves
  <2>2. Tells(t)
    BY <1>12 DEF RecordPartial, Tells
  <2>3. Spends(t) \/ Sends(t)
    BY <1>12, <2>1 DEF RecordPartial, Moves, Moved, Spends, Sends, Paid, ownVars
  <2>4. task[t].pc = "partialE" => task'[t].pc = "abort"
    BY <1>12, MoveIs DEF RecordPartial, Moved
  <2> QED
    BY <1>12, <2>1, <2>2, <2>3, <2>4 DEF RecordPartial, Effect, Moves, Moved, TaskPc, Ending, TaskFrame, turnVars, ownVars
<1>13. CASE Batch(t)
  <2>1. \A hi, at : Become(t, [task[t] EXCEPT !.pc = "run", !.hi = hi, !.at = at])
           => Moved(t, "run", task[t].tx)
    BY TaskFields DEF Become, Moved, Task
  <2>2. Moves(t, {"breaker", "drop", "run"})
    BY <1>13, <2>1, MoveIs DEF Batch, Moves
  <2>3. Tells(t)
    BY <1>13 DEF Batch, Tells
  <2>4. Spends(t) \/ Sends(t)
    BY <1>13, <2>2 DEF Batch, Moves, Moved, Spends, Sends, Paid, ownVars
  <2> QED
    BY <1>13, <2>2, <2>3, <2>4 DEF Batch, Effect, Moves, Moved, TaskPc, Ending, TaskFrame, turnVars, ownVars
<1>14. CASE RunTool(t)
  <2>1. \A at, got : Become(t, [task[t] EXCEPT !.pc = "record", !.at = at, !.got = got])
           => Moved(t, "record", task[t].tx)
    BY TaskFields DEF Become, Moved, Task
  <2>2. \A pc, at : Become(t, [task[t] EXCEPT !.at = at, !.pc = pc])
           => Moved(t, pc, task[t].tx)
    BY TaskFields DEF Become, Moved, Task
  <2>3. Moves(t, {"record", "exec", "gate", "run"})
    BY <1>14, <2>1, <2>2, MoveIs DEF RunTool, Moves
  <2>4. Tells(t)
    BY <1>14 DEF RunTool, Tells
  <2>5. Spends(t) \/ Sends(t)
    BY <1>14, <2>3 DEF RunTool, Moves, Moved, Spends, Sends, Paid, ownVars
  <2> QED
    BY <1>14, <2>3, <2>4, <2>5 DEF RunTool, Effect, Moves, Moved, TaskPc, Ending, TaskFrame, turnVars, ownVars
<1>15. CASE ToolReturns(t)
  <2>1. \A got : Become(t, [task[t] EXCEPT !.pc = "record", !.got = got])
           => Moved(t, "record", task[t].tx)
    BY TaskFields DEF Become, Moved, Task
  <2>2. Moves(t, {"record", "abort"})
    BY <1>15, <2>1, MoveIs DEF ToolReturns, Moves
  <2>3. Tells(t)
    BY <1>15, MoveIs DEF ToolReturns, Tells, Emit, Ending, Moved
  <2>4. Spends(t) \/ Sends(t)
    BY <1>15, <2>2 DEF ToolReturns, Moves, Moved, Spends, Sends, Paid, ownVars
  <2> QED
    BY <1>15, <2>2, <2>3, <2>4 DEF ToolReturns, Effect, Moves, Moved, TaskPc, Ending, TaskFrame, turnVars, ownVars
<1>16. CASE Gate(t)
  <2>1. Become(t, [task[t] EXCEPT !.pc = "run", !.auth = "auto"])
           => Moved(t, "run", task[t].tx)
    BY TaskFields DEF Become, Moved, Task
  <2>2. \A at : Become(t, [task[t] EXCEPT !.pc = "record", !.at = at, !.got = "done"])
           => Moved(t, "record", task[t].tx)
    BY TaskFields DEF Become, Moved, Task
  <2>3. \A ask : Become(t, [task[t] EXCEPT !.pc = "park", !.ask = ask])
           => Moved(t, "park", task[t].tx)
    BY TaskFields DEF Become, Moved, Task
  <2>4. Moves(t, {"run", "record", "park"})
    BY <1>16, <2>1, <2>2, <2>3, MoveIs DEF Gate, Moves
  <2>5. Tells(t)
    BY <1>16 DEF Gate, Tells
  <2>6. Spends(t) \/ Sends(t)
    BY <1>16, <2>4 DEF Gate, Moves, Moved, Spends, Sends, Paid, ownVars
  <2> QED
    BY <1>16, <2>4, <2>5, <2>6 DEF Gate, Effect, Moves, Moved, TaskPc, Ending, TaskFrame, turnVars, ownVars
<1>17. CASE ResolveChannel(t)
  <2>1. Become(t, [task[t] EXCEPT !.pc = "answer", !.tx = ChannelOf(t)])
           => Moved(t, "answer", ChannelOf(t))
    BY TaskFields DEF Become, Moved, Task
  <2>2. Moves(t, {"answer"})
    BY <1>17, <2>1, MoveIs DEF ResolveChannel, ChannelOf, Moves
  <2>3. Tells(t)
    BY <1>17 DEF ResolveChannel, Tells
  <2>4. Spends(t) \/ Sends(t)
    BY <1>17, <2>2 DEF ResolveChannel, Moves, Moved, Spends, Sends, Paid, ownVars
  <2> QED
    BY <1>17, <2>2, <2>3, <2>4 DEF ResolveChannel, Effect, Moves, Moved, TaskPc, Ending, TaskFrame, turnVars, ownVars
<1>18. CASE HandleApproval(t)
  <2>1. Become(t, [task[t] EXCEPT !.pc = "run", !.asked = TRUE, !.again = TRUE])
           => Moved(t, "run", task[t].tx)
    BY TaskFields DEF Become, Moved, Task
  <2>2. Moves(t, {"run", "drop"})
    BY <1>18, <2>1, MoveIs DEF HandleApproval, Moves
  <2>3. Tells(t)
    BY <1>18 DEF HandleApproval, Tells
  <2>4. Spends(t) \/ Sends(t)
    BY <1>18, <2>2 DEF HandleApproval, Moves, Moved, Spends, Sends, Paid, ownVars
  <2> QED
    BY <1>18, <2>2, <2>3, <2>4 DEF HandleApproval, Effect, Moves, Moved, TaskPc, Ending, TaskFrame, turnVars, ownVars
<1>19. CASE RecordResult(t)
  <2>1. \A k : Become(t, [task[t] EXCEPT !.k = k])
           => Moved(t, task[t].pc, task[t].tx)
    BY TaskFields DEF Become, Moved, Task
  <2>2. \A pc, st, n, k, ag : Become(t, [Fresh(pc, task[t].tx) EXCEPT !.k = k, !.n = n, !.step = st, !.again = ag])
           => Moved(t, pc, task[t].tx)
    BY TaskFields DEF Become, Moved, Fresh
  <2>3. Moves(t, {"record", "resume", "batch"})
    BY <1>19, <2>1, <2>2, MoveIs DEF RecordResult, RestOf, Moves
  <2>4. Tells(t)
    BY <1>19 DEF RecordResult, Tells
  <2>5. Spends(t) \/ Sends(t)
    BY <1>19, <2>3 DEF RecordResult, Moves, Moved, Spends, Sends, Paid, ownVars
  <2> QED
    BY <1>19, <2>3, <2>4, <2>5 DEF RecordResult, Effect, Moves, Moved, TaskPc, Ending, TaskFrame, turnVars, ownVars
<1>20. CASE Resume(t)
  <2>1. Moves(t, {"batch", "drop"})
    BY <1>20, MoveIs DEF Resume, Moves
  <2>2. Tells(t)
    BY <1>20 DEF Resume, Tells
  <2>3. Spends(t) \/ Sends(t)
    BY <1>20, <2>1 DEF Resume, Moves, Moved, Spends, Sends, Paid, ownVars
  <2> QED
    BY <1>20, <2>1, <2>2, <2>3 DEF Resume, Effect, Moves, Moved, TaskPc, Ending, TaskFrame, turnVars, ownVars
<1>21. CASE DropCalls(t)
  <2>1. \A k : Become(t, [task[t] EXCEPT !.k = k])
           => Moved(t, task[t].pc, task[t].tx)
    BY TaskFields DEF Become, Moved, Task
  <2>2. Moves(t, {"drop", "finC"})
    BY <1>21, <2>1, MoveIs DEF DropCalls, Moves
  <2>3. Tells(t)
    BY <1>21 DEF DropCalls, Tells
  <2>4. Spends(t) \/ Sends(t)
    BY <1>21, <2>2 DEF DropCalls, Moves, Moved, Spends, Sends, Paid, ownVars
  <2> QED
    BY <1>21, <2>2, <2>3, <2>4 DEF DropCalls, Effect, Moves, Moved, TaskPc, Ending, TaskFrame, turnVars, ownVars
<1>22. CASE Breaker(t)
  <2>1. Moves(t, {"abort", "entry", "spend"})
    BY <1>22, MoveIs DEF Breaker, Moves
  <2>2. Tells(t)
    BY <1>22, MoveIs DEF Breaker, Tells, Emit, Ending, Moved
  <2>3. Spends(t) \/ Sends(t)
    BY <1>22, <2>1 DEF Breaker, Moves, Moved, Spends, Sends, Paid, ownVars
  <2> QED
    BY <1>22, <2>1, <2>2, <2>3 DEF Breaker, Effect, Moves, Moved, TaskPc, Ending, TaskFrame, turnVars, ownVars
<1>23. CASE EmitTerminal(t)
  <2>1. Moves(t, {"done"})
    BY <1>23, MoveIs DEF EmitTerminal, Moves
  <2>2. Tells(t)
    BY <1>23, MoveIs DEF EmitTerminal, Tells, Emit, Ending, Moved
  <2>3. Spends(t) \/ Sends(t)
    BY <1>23, <2>1 DEF EmitTerminal, Moves, Moved, Spends, Sends, Paid, stateVars, askVars
  <2> QED
    BY <1>23, <2>1, <2>2, <2>3 DEF EmitTerminal, Effect, Moves, Moved, TaskPc, Ending, stateVars, askVars
<1> QED
  BY <1>1, <1>2, <1>3, <1>4, <1>5, <1>6, <1>7, <1>8, <1>9, <1>10, <1>11, <1>12, <1>13, <1>14, <1>15, <1>16, <1>17, <1>18, <1>19, <1>20, <1>21, <1>22, <1>23 DEF TaskStep, LoopStep, BatchStep

-----------------------------------------------------------------------------
(* Steps that keep the invariant *)

LEMMA DeliveredTo ==
    ASSUME TypeOK, NEW c \in Turn \cup {NoTurn}, NEW t, NEW event
    PROVE  \A u \in Turn : /\ u # c => Delivered(c, t, event)[u] = out[u]
                           /\ Delivered(c, t, event)[u].of \in {out[u].of, t}
<1>1. out \in [Turn -> Outcome]
  BY DEF TypeOK, SeenType
<1> QED
  BY <1>1 DEF Delivered

(* The variables the invariant looks at, the types apart. *)
invVars == <<current_turn_id, turn_events, pending, cancelled, turn_budget,
             boot, task, handle, out, requests>>

LEMMA IdleInv ==
    ASSUME Inv, TypeOK', UNCHANGED invVars
    PROVE  Inv'
  BY DEF Inv, invVars, NotStarted, LiveTurn, ParkedWaits, ParkedIsCancellable, Senders,
         OwnOutcome, ToldIsOver, OwnsTurn, StepsCount, Owed

LEMMA EffectInv ==
    ASSUME Inv, TypeOK', NEW t \in Turn, Effect(t)
    PROVE  Inv'
<1> USE DEF Inv
<1>1. /\ UNCHANGED <<current_turn_id, turn_events, cancelled, boot, handle, pending>>
      /\ turn_budget'.turn = turn_budget.turn
      /\ task[t].pc \notin {"none", "parked", "done"}
      /\ task'[t].pc \notin {"none", "parked"}
      /\ task'[t].tx \in {t, NoTurn}
      /\ \A u \in Turn \ {t} : task'[u] = task[u]
  BY DEF Effect, Moves, Moved, Senders
<1>2. boot[t].pc = "done"
  BY <1>1 DEF NotStarted
<1>3. \A u \in Turn \ {t} : out'[u] = out[u] /\ requests'[u] = requests[u]
  <2>1. task[t].tx \in {t, NoTurn}
    BY DEF Senders
  <2>2. \A u \in Turn \ {t} : out'[u] = out[u]
    BY <2>1, DeliveredTo, TurnAssumption DEF Effect, Tells
  <2>3. \A u \in Turn \ {t} : requests'[u] = requests[u]
    BY DEF Effect, Sends, Spends, TypeOK, SeenType
  <2> QED
    BY <2>2, <2>3
<1>4. NotStarted'
  BY <1>1, <1>2, <1>3 DEF NotStarted
<1>5. LiveTurn'
  BY <1>1 DEF LiveTurn
<1>6. ParkedWaits' /\ ParkedIsCancellable'
  BY <1>1 DEF ParkedWaits, ParkedIsCancellable
<1>7. Senders'
  BY <1>1 DEF Senders
<1>8. OwnOutcome'
  <2>1. out'[t].of \in {t, NoTurn}
    BY DeliveredTo, TaskFields DEF Effect, Tells, OwnOutcome
  <2> QED
    BY <1>3, <2>1 DEF OwnOutcome
<1>9. ToldIsOver'
  <2>1. ASSUME out'[t] # NoOutcome
        PROVE  ~OwnsTurn(t)' \/ task'[t].pc \in Ending
    BY <1>1, <2>1 DEF Effect, Tells, ToldIsOver, OwnsTurn
  <2> QED
    BY <1>1, <1>3, <2>1 DEF ToldIsOver, OwnsTurn
<1>10. StepsCount'
  <2>1. \A u \in Turn : requests[u] \in Nat /\ requests'[u] \in Nat
    BY DEF TypeOK, SeenType
  <2>2. turn_budget.steps \in Nat /\ turn_budget'.steps \in Nat /\ StepCap \in Nat
    BY BoundAssumption DEF TypeOK, StateType
  <2>3. \A u \in Turn \ {t} : Owed(u)' = Owed(u)
    BY <1>1 DEF Owed
  <2>4. \A u \in Turn \ {t} : turn_budget.turn = u => turn_budget'.steps = turn_budget.steps
    BY DEF Effect, Spends, Sends
  <2>5. CASE Spends(t)
    <3>1. requests'[t] = requests[t] /\ Owed(t) = 0 /\ Owed(t)' \in {0, 1}
      BY <2>5 DEF Spends, Owed
    <3>2. requests[t] + 0 <= turn_budget.steps
      BY <2>5, <3>1 DEF Spends, StepsCount
    <3>3. Owed(t)' = 1 => StepCap = 0 \/ turn_budget.steps + 1 <= StepCap
      BY <2>2, <2>5 DEF Spends, OverCap, Owed
    <3>4. /\ requests'[t] + Owed(t)' <= turn_budget'.steps
          /\ StepCap > 0 => requests'[t] + Owed(t)' <= StepCap
      <4>1. turn_budget'.steps = turn_budget.steps + 1
        BY <2>5 DEF Spends
      <4>2. StepCap > 0 => requests[t] + 0 <= StepCap
        BY <3>1 DEF StepsCount
      <4> QED
        BY <2>1, <2>2, <3>1, <3>2, <3>3, <4>1, <4>2
    <3> QED
      BY <1>1, <1>3, <2>3, <2>4, <3>4 DEF StepsCount
  <2>6. CASE Sends(t)
    <3>1. requests'[t] + Owed(t)' <= requests[t] + Owed(t)
      <4>1. CASE requests' = requests /\ (task'[t].pc \in Paid => task[t].pc \in Paid)
        BY <2>1, <4>1 DEF Owed
      <4>2. CASE /\ task[t].pc = "open" /\ task'[t].pc \notin Paid
                 /\ requests' = [requests EXCEPT ![t] = @ + 1]
        <5>1. requests'[t] = requests[t] + 1 /\ Owed(t)' = 0 /\ Owed(t) = 1
          BY <4>2 DEF Owed, Paid, TypeOK, SeenType
        <5> QED
          BY <2>1, <5>1
      <4> QED
        BY <2>6, <4>1, <4>2 DEF Sends
    <3>2. turn_budget'.steps = turn_budget.steps
      BY <2>6 DEF Sends
    <3>3. Owed(t) \in {0, 1} /\ Owed(t)' \in {0, 1}
      BY DEF Owed
    <3>4. /\ turn_budget.turn = t => requests'[t] + Owed(t)' <= turn_budget'.steps
          /\ StepCap > 0 => requests'[t] + Owed(t)' <= StepCap
      BY <2>1, <2>2, <3>1, <3>2, <3>3 DEF StepsCount
    <3> QED
      BY <1>1, <1>3, <2>3, <2>4, <3>4 DEF StepsCount
  <2> QED
    BY <2>5, <2>6 DEF Effect
<1> QED
  BY <1>4, <1>5, <1>6, <1>7, <1>8, <1>9, <1>10

LEMMA ParkInv ==
    ASSUME Inv, TypeOK', NEW t \in Turn, Park(t)
    PROVE  Inv'
<1> USE DEF Inv
<1>1. CASE MayPark(t)
  <2>1. /\ pending'.turn = t /\ current_turn_id = t /\ ~cancelled[t]
        /\ Moved(t, "parked", task[t].tx)
    BY <1>1, MoveIs DEF Park, MayPark
  <2>2. UNCHANGED <<current_turn_id, turn_events, cancelled, turn_budget, boot, handle, out, requests>>
    BY DEF Park, TaskFrame, turnVars, ownVars
  <2>3. task[t].pc = "park" /\ boot[t].pc = "done"
    BY DEF Park, NotStarted
  <2>4. turn_events = t
    BY <2>1, <2>3 DEF LiveTurn
  <2>5. NotStarted' /\ LiveTurn'
    BY <2>1, <2>2, <2>3 DEF NotStarted, LiveTurn, Moved
  <2>6. ParkedWaits' /\ ParkedIsCancellable'
    BY <2>1, <2>2, <2>4 DEF ParkedWaits, ParkedIsCancellable, Moved
  <2>7. Senders' /\ OwnOutcome'
    BY <2>1, <2>2 DEF Senders, OwnOutcome, Moved
  <2>8. ToldIsOver'
    BY <2>1, <2>2, <2>3 DEF ToldIsOver, OwnsTurn, Moved, Ending
  <2>9. StepsCount'
    <3>1. \A u \in Turn : Owed(u)' = Owed(u)
      BY <2>1, <2>3 DEF Owed, Moved, Paid
    <3> QED
      BY <2>2, <3>1 DEF StepsCount
  <2> QED
    BY <2>5, <2>6, <2>7, <2>8, <2>9
<1>2. CASE ~MayPark(t)
  <2>1. Moved(t, "drop", task[t].tx)
    BY <1>2, MoveIs DEF Park
  <2>2. Effect(t)
    BY <1>2, <2>1
    DEF Park, Effect, Moves, Moved, Spends, Sends, Tells, Paid, Ending, TaskPc,
        TaskFrame, turnVars, ownVars
  <2> QED
    BY <2>2, EffectInv
<1> QED
  BY <1>1, <1>2

LEMMA FinishInv ==
    ASSUME Inv, TypeOK', NEW t \in Turn, Finish(t)
    PROVE  Inv'
<1> USE DEF Inv
<1>1. /\ task[t].pc \in {"finC", "finF", "abort"}
      /\ \E pc \in {"emitC", "emitF", "done"}, tx \in {t, NoTurn} : Moved(t, pc, tx)
      /\ task[t].pc = "abort" => Moved(t, "done", NoTurn)
  BY MoveIs DEF Finish, Senders
<1>2. /\ UNCHANGED <<cancelled, turn_budget, boot, handle, pending, out, requests>>
      /\ \/ current_turn_id = t /\ current_turn_id' = NoTurn /\ turn_events' = NoTurn
         \/ UNCHANGED <<current_turn_id, turn_events>>
  BY DEF Finish, FinishTurn, TaskFrame, ownVars
<1>3. boot[t].pc = "done" /\ pending.turn # t
  BY <1>1 DEF NotStarted, ParkedWaits
<1>4. NotStarted' /\ LiveTurn'
  BY <1>1, <1>2, <1>3, TurnAssumption DEF NotStarted, LiveTurn, Moved
<1>5. ParkedWaits' /\ ParkedIsCancellable'
  BY <1>1, <1>2, <1>3 DEF ParkedWaits, ParkedIsCancellable, Moved
<1>6. Senders' /\ OwnOutcome'
  BY <1>1, <1>2 DEF Senders, OwnOutcome, Moved
<1>7. ToldIsOver'
  BY <1>1, <1>2, TurnAssumption DEF ToldIsOver, OwnsTurn, Moved, Ending
<1>8. StepsCount'
  <2>1. \A u \in Turn : Owed(u)' = Owed(u)
    BY <1>1 DEF Owed, Moved, Paid
  <2> QED
    BY <1>2, <2>1 DEF StepsCount
<1> QED
  BY <1>4, <1>5, <1>6, <1>7, <1>8

(* cancel_turn_inner: the one place where a task's sender is whatever       *)
(* channel is installed.                                                    *)
LEMMA CancelInnerInv ==
    ASSUME Inv, TypeOK', CancelInner,
           UNCHANGED <<current_turn_id, turn_events, turn_budget, boot, out, requests>>
    PROVE  Inv'
<1> USE DEF Inv
<1>1. pending'.turn = NoTurn
  BY DEF CancelInner, TakePending, NoPending
<1>2. \A u \in Turn : cancelled[u] => cancelled'[u]
  BY DEF CancelInner, CancelToken, TypeOK, StateType
<1>3. ASSUME NEW u \in Turn, u = pending.turn
      PROVE  /\ task[u].pc = "parked" /\ boot[u].pc = "done"
             /\ task'[u].pc = "drop" /\ task'[u].tx \in {u, NoTurn}
  <2>1. task[u].pc = "parked" /\ boot[u].pc = "done"
    BY <1>3 DEF ParkedWaits, NotStarted
  <2>2. turn_events \in {u, NoTurn}
    BY <1>3, TurnAssumption DEF ParkedIsCancellable, LiveTurn
  <2>3. task'[u] = [Dropping(task[u]) EXCEPT !.tx = turn_events]
    BY <1>3 DEF CancelInner
  <2> QED
    BY <2>1, <2>2, <2>3 DEF Dropping, Fresh
<1>4. \A u \in Turn : u # pending.turn => task'[u] = task[u]
  BY DEF CancelInner
<1>5. NotStarted' /\ LiveTurn'
  BY <1>3, <1>4 DEF NotStarted, LiveTurn
<1>6. ParkedWaits' /\ ParkedIsCancellable'
  BY <1>1, TurnAssumption DEF ParkedWaits, ParkedIsCancellable
<1>7. Senders' /\ OwnOutcome'
  BY <1>3, <1>4 DEF Senders, OwnOutcome
<1>8. ToldIsOver'
  BY <1>2, <1>3, <1>4 DEF ToldIsOver, OwnsTurn, Ending
<1>9. StepsCount'
  <2>1. \A u \in Turn : Owed(u)' = Owed(u)
    BY <1>3, <1>4 DEF Owed, Paid
  <2> QED
    BY <2>1 DEF StepsCount
<1> QED
  BY <1>5, <1>6, <1>7, <1>8, <1>9

LEMMA SubmitInv ==
    ASSUME Inv, TypeOK', NEW a \in raised, NEW d \in {"approved", "denied"}, SubmitApproval(a, d)
    PROVE  Inv'
<1> USE DEF Inv
<1> DEFINE t == a.turn
<1>1. t \in Turn /\ pending.turn = t
  BY DEF SubmitApproval, AnswersPending, TypeOK, SeenType
<1>2. /\ pending'.turn = NoTurn
      /\ UNCHANGED <<current_turn_id, turn_events, cancelled, turn_budget, boot, handle, out, requests>>
  BY DEF SubmitApproval, TakePending, NoPending, TaskFrame, turnVars, ownVars
<1>3. Moved(t, "channel", task[t].tx)
  BY <1>1, TaskFields DEF SubmitApproval, Become, Moved, Task
<1>4. task[t].pc = "parked" /\ boot[t].pc = "done"
  BY <1>1 DEF ParkedWaits, NotStarted
<1> HIDE DEF t
<1>5. NotStarted' /\ LiveTurn'
  BY <1>1, <1>2, <1>3, <1>4 DEF NotStarted, LiveTurn, Moved
<1>6. ParkedWaits' /\ ParkedIsCancellable'
  BY <1>2, TurnAssumption DEF ParkedWaits, ParkedIsCancellable
<1>7. Senders' /\ OwnOutcome'
  BY <1>1, <1>2, <1>3 DEF Senders, OwnOutcome, Moved
<1>8. ToldIsOver'
  BY <1>1, <1>2, <1>3, <1>4 DEF ToldIsOver, OwnsTurn, Moved, Ending
<1>9. StepsCount'
  <2>1. \A u \in Turn : Owed(u)' = Owed(u)
    BY <1>1, <1>3, <1>4 DEF Owed, Moved, Paid
  <2> QED
    BY <1>2, <2>1 DEF StepsCount
<1> QED
  BY <1>5, <1>6, <1>7, <1>8, <1>9

LEMMA BootInv ==
    ASSUME Inv, TypeOK', NEW t \in Turn, BootStep(t)
    PROVE  Inv'
<1> USE DEF Inv
<1>0. boot \in [Turn -> [pc : BootPc, orphan : Turn \cup {NoTurn}]]
  BY DEF TypeOK, TasksType
<1>1. CASE BeginSupersede(t)
  <2>1. /\ boot[t].pc = "idle" /\ boot'[t].pc = "orphan"
        /\ \A u \in Turn \ {t} : boot'[u] = boot[u]
        /\ UNCHANGED <<current_turn_id, turn_events, pending, turn_budget, task, handle, requests>>
    BY <1>0, <1>1 DEF BeginSupersede, BootFrame, turnVars
  <2>2. /\ \A u \in Turn : cancelled[u] => cancelled'[u]
        /\ \A u \in Turn : current_turn_id = u => cancelled'[u]
    BY <1>1, TurnAssumption DEF BeginSupersede, CancelToken, LiveTurn, TypeOK, StateType
  <2>3. turn_events \in Turn \cup {NoTurn}
    BY DEF TypeOK, StateType
  <2>4. /\ \A u \in Turn : u # turn_events => out'[u] = out[u]
        /\ \A u \in Turn : out'[u].of \in {out[u].of, turn_events}
    BY <1>1, <2>3, DeliveredTo DEF BeginSupersede, TellLive
  <2>5. NotStarted'
    BY <2>1, <2>4 DEF NotStarted, LiveTurn
  <2>6. LiveTurn'
    BY <2>1 DEF LiveTurn
  <2>7. ParkedWaits' /\ ParkedIsCancellable'
    BY <2>1 DEF ParkedWaits, ParkedIsCancellable
  <2>8. Senders'
    BY <2>1 DEF Senders
  <2>9. OwnOutcome'
    BY <2>4 DEF OwnOutcome
  <2>10. ToldIsOver'
    BY <2>1, <2>2, <2>4 DEF ToldIsOver, OwnsTurn
  <2>11. StepsCount'
    BY <2>1 DEF StepsCount, Owed
  <2> QED
    BY <2>5, <2>6, <2>7, <2>8, <2>9, <2>10, <2>11
<1>2. CASE OrphanRead(t)
  <2>1. /\ boot[t].pc = "orphan"
        /\ boot'[t].pc \in {"install", "finish"}
        /\ \A u \in Turn \ {t} : boot'[u] = boot[u]
        /\ UNCHANGED <<current_turn_id, turn_events, pending, cancelled, turn_budget, task, handle,
                       out, requests>>
    BY <1>0, <1>2 DEF OrphanRead, BootFrame, turnVars, ownVars
  <2>2. NotStarted' /\ LiveTurn'
    BY <2>1 DEF NotStarted, LiveTurn
  <2>3. ParkedWaits' /\ ParkedIsCancellable'
    BY <2>1 DEF ParkedWaits, ParkedIsCancellable
  <2>4. Senders' /\ OwnOutcome' /\ ToldIsOver' /\ StepsCount'
    BY <2>1 DEF Senders, OwnOutcome, ToldIsOver, OwnsTurn, StepsCount, Owed
  <2> QED
    BY <2>2, <2>3, <2>4
<1>3. CASE OrphanFinish(t)
  <2>1. /\ boot[t].pc = "finish" /\ boot'[t].pc = "install"
        /\ \A u \in Turn \ {t} : boot'[u] = boot[u]
        /\ UNCHANGED <<pending, cancelled, turn_budget, task, handle, out, requests>>
        /\ \/ current_turn_id' = NoTurn /\ turn_events' = NoTurn
           \/ UNCHANGED <<current_turn_id, turn_events>>
    BY <1>0, <1>3 DEF OrphanFinish, FinishTurn, BootFrame, ownVars
  <2>2. NotStarted' /\ LiveTurn'
    BY <2>1, TurnAssumption DEF NotStarted, LiveTurn
  <2>3. ParkedWaits' /\ ParkedIsCancellable'
    BY <2>1 DEF ParkedWaits, ParkedIsCancellable
  <2>4. Senders' /\ OwnOutcome' /\ ToldIsOver' /\ StepsCount'
    BY <2>1, TurnAssumption DEF Senders, OwnOutcome, ToldIsOver, OwnsTurn, StepsCount, Owed
  <2> QED
    BY <2>2, <2>3, <2>4
<1>4. CASE Install(t)
  <2>1. /\ boot[t].pc = "install" /\ boot'[t].pc = "drive"
        /\ \A u \in Turn \ {t} : boot'[u] = boot[u]
        /\ current_turn_id' = t /\ pending'.turn = NoTurn
        /\ turn_budget'.turn = t /\ turn_budget'.steps = 0
        /\ UNCHANGED <<turn_events, cancelled, handle, out, requests>>
    BY <1>0, <1>4 DEF Install, BootFrame, NoPending, NoBudget
  <2>2. ASSUME NEW u \in Turn, u = pending.turn
        PROVE  /\ task[u].pc = "parked" /\ boot[u].pc = "done"
               /\ task'[u].pc = "done" /\ task'[u].tx = NoTurn
    BY <1>4, <2>2, FreshFields DEF Install, ParkedWaits, NotStarted
  <2>3. \A u \in Turn : u # pending.turn => task'[u] = task[u]
    BY <1>4 DEF Install
  <2>4. task[t].pc = "none" /\ task'[t] = task[t] /\ requests[t] = 0 /\ out[t] = NoOutcome
    BY <2>1, <2>2, <2>3 DEF NotStarted
  <2>5. NotStarted'
    BY <2>1, <2>2, <2>3 DEF NotStarted
  <2>6. LiveTurn'
    BY <2>1, TurnAssumption DEF LiveTurn
  <2>7. ParkedWaits' /\ ParkedIsCancellable'
    BY <2>1, TurnAssumption DEF ParkedWaits, ParkedIsCancellable
  <2>8. Senders' /\ OwnOutcome'
    BY <2>1, <2>2, <2>3 DEF Senders, OwnOutcome
  <2>9. ToldIsOver'
    BY <2>1, <2>2, <2>3, <2>4 DEF ToldIsOver, OwnsTurn, Ending
  <2>10. StepsCount'
    <3>1. \A u \in Turn : Owed(u)' = Owed(u)
      BY <2>2, <2>3 DEF Owed, Paid
    <3>2. Owed(t) = 0
      BY <2>4 DEF Owed, Paid
    <3> QED
      BY <2>1, <2>4, <3>1, <3>2 DEF StepsCount
  <2> QED
    BY <2>5, <2>6, <2>7, <2>8, <2>9, <2>10
<1>5. CASE Drive(t)
  <2>1. /\ boot[t].pc = "drive" /\ boot'[t].pc = "done"
        /\ \A u \in Turn \ {t} : boot'[u] = boot[u]
        /\ UNCHANGED <<current_turn_id, pending, cancelled, turn_budget, requests>>
    BY <1>0, <1>5 DEF Drive, BootFrame, ownVars
  <2>2. task[t].pc = "none" /\ requests[t] = 0 /\ out[t] = NoOutcome /\ pending.turn # t
    BY <2>1 DEF NotStarted, ParkedWaits
  <2>3. CASE current_turn_id = t
    <3>1. turn_events' = t /\ out' = out /\ handle' = [handle EXCEPT ![t] = "open"]
      BY <1>5, <2>3 DEF Drive
    <3>2. Moved(t, "entry", t)
      BY <1>5, <2>3, FreshFields, TaskFields DEF Drive, Become, Moved
    <3>3. NotStarted' /\ LiveTurn'
      BY <2>1, <2>3, <3>1, <3>2, TurnAssumption DEF NotStarted, LiveTurn, Moved
    <3>4. ParkedWaits' /\ ParkedIsCancellable'
      <4>1. ParkedWaits'
        BY <2>1, <2>2, <3>2 DEF ParkedWaits, Moved
      <4>2. pending.turn = NoTurn
        BY <2>2, <2>3, TurnAssumption DEF ParkedIsCancellable
      <4> QED
        BY <2>1, <4>1, <4>2 DEF ParkedIsCancellable
    <3>5. Senders' /\ OwnOutcome'
      BY <3>1, <3>2 DEF Senders, OwnOutcome, Moved
    <3>6. ToldIsOver'
      BY <2>1, <2>2, <3>1, <3>2 DEF ToldIsOver, OwnsTurn, Moved
    <3>7. StepsCount'
      <4>1. \A u \in Turn : Owed(u)' = Owed(u)
        BY <2>2, <3>2 DEF Owed, Paid, Moved
      <4> QED
        BY <2>1, <4>1 DEF StepsCount
    <3> QED
      BY <3>3, <3>4, <3>5, <3>6, <3>7
  <2>4. CASE current_turn_id # t
    <3>1. UNCHANGED <<turn_events, task, handle>> /\ out' = Delivered(t, t, "cancelled")
      BY <1>5, <2>4 DEF Drive
    <3>2. /\ \A u \in Turn \ {t} : out'[u] = out[u]
          /\ \A u \in Turn : out'[u].of \in {out[u].of, t}
      BY <3>1, DeliveredTo
    <3>3. NotStarted' /\ LiveTurn'
      BY <2>1, <2>4, <3>1, <3>2 DEF NotStarted, LiveTurn
    <3>4. ParkedWaits' /\ ParkedIsCancellable'
      BY <2>1, <3>1 DEF ParkedWaits, ParkedIsCancellable
    <3>5. Senders' /\ OwnOutcome'
      BY <3>1, <3>2 DEF Senders, OwnOutcome
    <3>6. ToldIsOver'
      BY <2>1, <2>4, <3>1, <3>2 DEF ToldIsOver, OwnsTurn
    <3>7. StepsCount'
      BY <2>1, <3>1 DEF StepsCount, Owed
    <3> QED
      BY <3>3, <3>4, <3>5, <3>6, <3>7
  <2> QED
    BY <2>3, <2>4
<1> QED
  BY <1>1, <1>2, <1>3, <1>4, <1>5 DEF BootStep

LEMMA FrontInv ==
    ASSUME Inv, TypeOK', FrontEnd
    PROVE  Inv'
<1>1. CASE CancelTurn
  BY <1>1, CancelInnerInv DEF CancelTurn, turnVars, seenVars
<1>2. CASE SteerUser \/ RestoreBegin \/ RestoreEnd
  <2>1. UNCHANGED invVars
    BY <1>2 DEF SteerUser, RestoreBegin, RestoreEnd, invVars, turnVars, ownVars, taskVars, seenVars
  <2> QED
    BY <2>1, IdleInv
<1>3. ASSUME NEW t \in Turn, HandleFlip(t)
      PROVE  Inv'
  <2> USE DEF Inv
  <2>1. UNCHANGED <<current_turn_id, turn_events, pending, turn_budget, boot, task, out, requests>>
    BY <1>3 DEF HandleFlip, turnVars, seenVars
  <2>2. handle'[t] = "flipped" /\ \A u \in Turn \ {t} : handle'[u] = handle[u]
    BY <1>3 DEF HandleFlip, TypeOK, TasksType
  <2>3. /\ \A u \in Turn \ {t} : cancelled'[u] = cancelled[u]
        /\ \A u \in Turn : cancelled[u] => cancelled'[u]
    BY <1>3 DEF HandleFlip, TypeOK, StateType
  <2>4. pending.turn \in Turn \cup {NoTurn}
    BY DEF TypeOK, StateType
  <2>5. ParkedIsCancellable'
    BY <2>1, <2>2, <2>3, <2>4 DEF ParkedIsCancellable
  <2>6. ToldIsOver'
    BY <2>1, <2>3 DEF ToldIsOver, OwnsTurn
  <2>7. NotStarted' /\ LiveTurn' /\ ParkedWaits' /\ Senders' /\ OwnOutcome' /\ StepsCount'
    BY <2>1 DEF NotStarted, LiveTurn, ParkedWaits, Senders, OwnOutcome, StepsCount, Owed
  <2> QED
    BY <2>5, <2>6, <2>7
<1>4. ASSUME NEW t \in Turn, HandleCancelIf(t)
      PROVE  Inv'
  <2>1. UNCHANGED <<current_turn_id, turn_events, turn_budget, boot, out, requests>>
    BY <1>4 DEF HandleCancelIf, turnVars, seenVars
  <2>2. CASE current_turn_id = t
    BY <1>4, <2>1, <2>2, CancelInnerInv DEF HandleCancelIf
  <2>3. CASE current_turn_id # t
    <3> USE DEF Inv
    <3>1. /\ UNCHANGED <<pending, cancelled, task>>
          /\ \A u \in Turn \ {t} : handle'[u] = handle[u]
      BY <1>4, <2>3 DEF HandleCancelIf, TypeOK, TasksType
    <3>2. pending.turn \in Turn \cup {NoTurn}
      BY DEF TypeOK, StateType
    <3>3. ParkedIsCancellable'
      BY <2>1, <2>3, <3>1, <3>2 DEF ParkedIsCancellable
    <3>4. NotStarted' /\ LiveTurn' /\ ParkedWaits' /\ Senders' /\ OwnOutcome'
      BY <2>1, <3>1 DEF NotStarted, LiveTurn, ParkedWaits, Senders, OwnOutcome
    <3>5. ToldIsOver' /\ StepsCount'
      BY <2>1, <3>1 DEF ToldIsOver, OwnsTurn, StepsCount, Owed
    <3> QED
      BY <3>3, <3>4, <3>5
  <2> QED
    BY <2>2, <2>3
<1> QED
  BY <1>1, <1>2, <1>3, <1>4, SubmitInv DEF FrontEnd

LEMMA InitInv ==
    ASSUME Init
    PROVE  Inv
<1>1. TypeOK
  BY InitType
<1>2. \A t \in Turn : task[t].pc = "none" /\ task[t].tx = NoTurn
  BY FreshFields DEF Init
<1>3. \A t \in Turn : boot[t].pc = "idle" /\ requests[t] = 0 /\ out[t] = NoOutcome
  BY DEF Init
<1>4. /\ current_turn_id = NoTurn /\ turn_events = NoTurn
      /\ pending.turn = NoTurn /\ turn_budget.turn = NoTurn
  BY DEF Init, NoPending, NoBudget
<1>5. NotStarted /\ LiveTurn /\ ParkedWaits /\ ParkedIsCancellable
  BY <1>2, <1>3, <1>4, TurnAssumption DEF NotStarted, LiveTurn, ParkedWaits, ParkedIsCancellable
<1>6. Senders /\ OwnOutcome /\ ToldIsOver
  BY <1>2, <1>3 DEF Senders, OwnOutcome, ToldIsOver, NoOutcome
<1>7. StepsCount
  BY <1>2, <1>3, <1>4, TurnAssumption, BoundAssumption DEF StepsCount, Owed, Paid
<1> QED
  BY <1>1, <1>5, <1>6, <1>7 DEF Inv

LEMMA NextInv ==
    ASSUME Inv, [Next]_vars
    PROVE  Inv'
<1>1. TypeOK'
  BY NextType DEF Inv
<1>2. ASSUME NEW t \in Turn, BootStep(t)
      PROVE  Inv'
  BY <1>1, <1>2, BootInv
<1>3. ASSUME NEW t \in Turn, TaskStep(t)
      PROVE  Inv'
  BY <1>1, <1>3, ParkInv, FinishInv, TaskEffect, EffectInv DEF Inv
<1>4. ASSUME NEW t \in Turn, EmitAsk(t)
      PROVE  Inv'
  BY <1>1, <1>4, IdleInv DEF EmitAsk, stateVars, seenVars, invVars
<1>5. CASE UNCHANGED vars
  BY <1>1, <1>5, IdleInv DEF vars, stateVars, taskVars, seenVars, invVars
<1> QED
  BY <1>1, <1>2, <1>3, <1>4, <1>5, FrontInv DEF Next

(* Inv holds in every reachable state. *)
THEOREM Invariance == Spec => []Inv
<1>1. Init => Inv
  BY InitInv
<1>2. Inv /\ [Next]_vars => Inv'
  BY NextInv
<1> QED
  BY <1>1, <1>2, PTL DEF Spec

-----------------------------------------------------------------------------
(* The properties *)

(* A parked approval always has a live owner with an installed channel, or  *)
(* somebody on the way to clear it: cancel_turn_inner, begin_turn and the   *)
(* park's re-check under the lock together leave no prompt that no answer,  *)
(* cancel or later prompt can resolve.                                      *)
THEOREM ParkedCancellable == Spec => []ParkedIsCancellable
<1>1. Inv => ParkedIsCancellable
  BY DEF Inv
<1> QED
  BY <1>1, Invariance, PTL

(* A handle only ever hears the end of its own turn, although begin_turn    *)
(* and cancel_turn_inner send on whichever channel is installed.            *)
THEOREM OutcomesAreOwn == Spec => []OwnOutcome
<1>1. Inv => OwnOutcome
  BY DEF Inv
<1> QED
  BY <1>1, Invariance, PTL

(* One turn never sends more model requests than turn_steps allows, however *)
(* many parks, resumes and overflow rescues split its loop (spend_step).    *)
THEOREM BudgetIsKept == Spec => []BudgetHolds
<1>1. Inv => BudgetHolds
  <2> SUFFICES ASSUME Inv, NEW t \in Turn, StepCap > 0
               PROVE  requests[t] <= StepCap
    BY DEF BudgetHolds
  <2>1. requests[t] + Owed(t) <= StepCap
    BY DEF Inv, StepsCount
  <2>2. Owed(t) \in {0, 1} /\ requests[t] \in Nat /\ StepCap \in Nat
    BY BoundAssumption DEF Owed, Inv, TypeOK, SeenType
  <2> QED
    BY <2>1, <2>2
<1> QED
  BY <1>1, Invariance, PTL

(* Once a consumer has been told its turn is over, no tool of the turn is   *)
(* started any more: run_tool's ownership check and the token flipped by    *)
(* begin_turn hold the superseded loop back.                                *)
THEOREM NothingRunsLate == Spec => NothingRunsAfterTheEnd
<1>1. ASSUME Inv, [Next]_vars, NEW t \in Turn, out[t] # NoOutcome
      PROVE  ran'[t] = ran[t]
  <2>1. ran \in [Turn -> Seq(Started)]
    BY <1>1 DEF Inv, TypeOK, SeenType
  <2>2. ASSUME NEW u \in Turn, RunTool(u)
        PROVE  ran'[t] = ran[t]
    <3>1. CASE u # t
      BY <2>1, <2>2, <3>1 DEF RunTool
    <3>2. CASE u = t
      <4>1. task[t].pc = "run"
        BY <2>2, <3>2 DEF RunTool
      <4>2. ~OwnsTurn(t)
        BY <1>1, <4>1 DEF Inv, ToldIsOver, Ending
      <4> QED
        BY <2>2, <3>2, <4>2 DEF RunTool
    <3> QED
      BY <3>1, <3>2
  <2>3. ASSUME NEW u \in Turn, BootStep(u)
        PROVE  ran' = ran
    BY <2>3 DEF BootStep, BeginSupersede, OrphanRead, OrphanFinish, Install, Drive, BootFrame
  <2>4. ASSUME NEW u \in Turn, LoopStep(u)
        PROVE  ran' = ran
    BY <2>4 DEF LoopStep, Enter, Check0, SpendStep, Check, SteerNotice, DrainSteering,
                ReadAnchor, Open, RescueFold, Stream, Push, RecordPartial
  <2>5. ASSUME NEW u \in Turn, BatchStep(u), ~RunTool(u)
        PROVE  ran' = ran
    BY <2>5 DEF BatchStep, Batch, ToolReturns, Gate, Park, ResolveChannel, HandleApproval,
                RecordResult, Resume, DropCalls, Breaker
  <2>6. ASSUME NEW u \in Turn, Finish(u) \/ EmitTerminal(u) \/ EmitAsk(u)
        PROVE  ran' = ran
    BY <2>6 DEF Finish, EmitTerminal, EmitAsk, seenVars
  <2>7. CASE FrontEnd
    BY <2>7 DEF FrontEnd, CancelTurn, SteerUser, RestoreBegin, RestoreEnd, HandleFlip,
                HandleCancelIf, SubmitApproval, seenVars
  <2>8. CASE UNCHANGED vars
    BY <2>8 DEF vars, seenVars
  <2> QED
    BY <1>1, <2>2, <2>3, <2>4, <2>5, <2>6, <2>7, <2>8 DEF Next, TaskStep
<1>2. Inv /\ [Next]_vars => [\A t \in Turn : out[t] # NoOutcome => ran'[t] = ran[t]]_vars
  BY <1>1
<1> QED
  BY <1>2, Invariance, PTL DEF Spec, NothingRunsAfterTheEnd

-----------------------------------------------------------------------------
(* Steered prompts *)

Lands(e) == e.kind = "steer" => e.of = e.turn

(* Entries whose prompts are filed under the turn they were meant for. *)
Landed == {e \in Entry : Lands(e)}

(* The prompts in the queue were steered into the live turn. *)
QueueIsLive ==
    current_turn_id # NoTurn =>
        \A i \in 1..Len(steering) : steering[i].kind = "steer" => steering[i].of = current_turn_id

SteerInv == TypeOK /\ QueueIsLive /\ entries \in Seq(Landed)

LEMMA RecordedLanded ==
    ASSUME NEW es \in Seq(Landed), NEW t, NEW step, NEW k, NEW result \in Result
    PROVE  Recorded(es, t, step, k, result) \in Seq(Landed)
<1> DEFINE r(i) == IF /\ IsNewest(es, i, {"assistant", "partial"})
                      /\ es[i].turn = t /\ es[i].n = step
                      /\ k \in DOMAIN es[i].res /\ es[i].res[k] = "pending"
                   THEN [es[i] EXCEPT !.res[k] = result]
                   ELSE es[i]
<1>1. ASSUME NEW i \in 1..Len(es)
      PROVE  r(i) \in Landed
  <2>1. es[i] \in Landed /\ es[i] \in Entry
    BY DEF Landed
  <2>2. ASSUME k \in DOMAIN es[i].res
        PROVE  [es[i] EXCEPT !.res[k] = result] \in Landed
    <3>1. [es[i].res EXCEPT ![k] = result] \in Seq(Result)
      BY <2>1, <2>2 DEF Entry
    <3>2. [es[i] EXCEPT !.res[k] = result] \in Entry
      BY <2>1, <3>1 DEF Entry
    <3>3. Lands([es[i] EXCEPT !.res[k] = result])
      BY <2>1 DEF Lands, Landed, Entry
    <3> QED
      BY <3>2, <3>3 DEF Landed
  <2> QED
    BY <2>1, <2>2
<1> HIDE DEF r
<1>2. [i \in 1..Len(es) |-> r(i)] \in Seq(Landed)
  BY <1>1
<1> QED
  BY <1>2 DEF Recorded, r

LEMMA EntriesLand ==
    ASSUME NEW t \in Turn
    PROVE  /\ UserEntry(t) \in Landed
           /\ \A step \in Nat : PartialEntry(t, step) \in Landed
           /\ \A step, calls \in Nat : AssistantEntry(t, step, calls) \in Landed
           /\ \A s \in Steered : (s.kind = "steer" => s.of = t) => SteeredEntry(t, s) \in Landed
<1>1. Lands(UserEntry(t)) /\ \A step \in Nat : Lands(PartialEntry(t, step))
  BY DEF Lands, UserEntry, PartialEntry
<1>2. \A step, calls \in Nat : Lands(AssistantEntry(t, step, calls))
  BY DEF Lands, AssistantEntry
<1>3. \A s \in Steered : (s.kind = "steer" => s.of = t) => Lands(SteeredEntry(t, s))
  BY DEF Lands, SteeredEntry, Steered
<1> QED
  BY <1>1, <1>2, <1>3, EntryTypes DEF Landed

(* A step that adds no entry and no prompt, and at most ends the live turn. *)
LEMMA QuietSteer ==
    ASSUME SteerInv, TypeOK', entries' = entries,
           steering' \in {steering, <<>>}, current_turn_id' \in {current_turn_id, NoTurn}
    PROVE  SteerInv'
<1>1. QueueIsLive'
  BY DEF SteerInv, QueueIsLive
<1> QED
  BY <1>1 DEF SteerInv

LEMMA NextSteer ==
    ASSUME SteerInv, [Next]_vars
    PROVE  SteerInv'
<1>0. TypeOK' /\ TypeOK
  BY NextType DEF SteerInv
<1>q. entries \in Seq(Landed) /\ steering \in Seq(Steered)
  BY <1>0 DEF SteerInv, TypeOK, StateType
<1>1. ASSUME NEW t \in Turn, BootStep(t)
      PROVE  SteerInv'
  <2>1. CASE Install(t)
    <3>1. entries' = Append(entries, UserEntry(t)) /\ steering' = <<>>
      BY <2>1 DEF Install
    <3>2. entries' \in Seq(Landed)
      BY <1>q, <3>1, EntriesLand
    <3>3. QueueIsLive'
      BY <3>1 DEF QueueIsLive
    <3> QED
      BY <1>0, <3>2, <3>3 DEF SteerInv
  <2>2. CASE ~Install(t)
    <3>1. /\ entries' = entries /\ steering' = steering
          /\ current_turn_id' \in {current_turn_id, NoTurn}
      BY <1>1, <2>2 DEF BootStep, BeginSupersede, OrphanRead, OrphanFinish, FinishTurn, Drive, turnVars
    <3> QED
      BY <1>0, <3>1, QuietSteer
  <2> QED
    BY <2>1, <2>2
<1>2. ASSUME NEW t \in Turn, LoopStep(t)
      PROVE  SteerInv'
  <2>1. CASE SteerNotice(t)
    <3>1. entries' = entries /\ current_turn_id' = current_turn_id
      BY <2>1 DEF SteerNotice, turnVars
    <3> DEFINE notice == [kind |-> "notice", of |-> t, n |-> task[t].step]
    <3>2. notice.kind # "steer" /\ (steering' = steering \/ steering' = Append(steering, notice))
      BY <2>1 DEF SteerNotice
    <3> HIDE DEF notice
    <3>3. QueueIsLive'
      BY <1>q, <3>1, <3>2 DEF SteerInv, QueueIsLive
    <3> QED
      BY <1>0, <1>q, <3>1, <3>3 DEF SteerInv
  <2>2. CASE DrainSteering(t)
    <3>1. CASE current_turn_id = t
      <4>1. \A i \in 1..Len(steering) :
               steering[i] \in Steered /\ (steering[i].kind = "steer" => steering[i].of = t)
        BY <1>q, <3>1, TurnAssumption DEF SteerInv, QueueIsLive
      <4>2. \A i \in 1..Len(steering) : SteeredEntry(t, steering[i]) \in Landed
        BY <4>1, EntriesLand
      <4>3. Len(steering) \in Nat
        BY <1>q
      <4>4. [i \in 1..Len(steering) |-> SteeredEntry(t, steering[i])] \in Seq(Landed)
        BY <4>2, <4>3
      <4>5. entries \o [i \in 1..Len(steering) |-> SteeredEntry(t, steering[i])] \in Seq(Landed)
        BY <1>q, <4>4, ConcatProperties, Zenon
      <4>6. /\ entries' = entries \o [i \in 1..Len(steering) |-> SteeredEntry(t, steering[i])]
            /\ steering' = <<>>
        BY <2>2, <3>1, Zenon DEF DrainSteering, MayDrain
      <4>7. entries' \in Seq(Landed)
        BY <4>5, <4>6, Zenon
      <4>8. QueueIsLive'
        BY <4>6 DEF QueueIsLive
      <4> QED
        BY <1>0, <4>7, <4>8 DEF SteerInv
    <3>2. CASE current_turn_id # t
      BY <1>0, <2>2, <3>2, QuietSteer DEF DrainSteering, MayDrain, turnVars
    <3> QED
      BY <3>1, <3>2
  <2>3. CASE Push(t)
    <3>1. steering' = steering /\ current_turn_id' = current_turn_id
      BY <2>3 DEF Push, turnVars
    <3>2. AssistantEntry(t, task[t].step, task[t].n) \in Landed
      BY <1>0, TaskFields, EntriesLand
    <3>3. Append(entries, AssistantEntry(t, task[t].step, task[t].n)) \in Seq(Landed)
      BY <1>q, <3>2
    <3>4. entries' \in Seq(Landed)
      BY <1>q, <2>3, <3>3, Zenon DEF Push
    <3> QED
      BY <1>0, <3>1, <3>4 DEF SteerInv, QueueIsLive
  <2>4. CASE RecordPartial(t)
    <3>1. steering' = steering /\ current_turn_id' = current_turn_id
      BY <2>4 DEF RecordPartial, turnVars
    <3>2. PartialEntry(t, task[t].step) \in Landed
      BY <1>0, TaskFields, EntriesLand
    <3>3. InsertAfter(entries, task[t].anchor, PartialEntry(t, task[t].step)) \in Seq(Landed)
      BY <1>q, <3>2, InsertAfterType
    <3>4. entries' \in Seq(Landed)
      BY <1>q, <2>4, <3>3, Zenon DEF RecordPartial
    <3> QED
      BY <1>0, <3>1, <3>4 DEF SteerInv, QueueIsLive
  <2>5. CASE ~SteerNotice(t) /\ ~DrainSteering(t) /\ ~Push(t) /\ ~RecordPartial(t)
    <3>1. entries' = entries /\ steering' = steering /\ current_turn_id' = current_turn_id
      BY <1>2, <2>5 DEF LoopStep, Enter, Check0, SpendStep, Check, ReadAnchor, Open, RescueFold,
                        Stream, turnVars
    <3> QED
      BY <1>0, <3>1, QuietSteer
  <2> QED
    BY <2>1, <2>2, <2>3, <2>4, <2>5
<1>3. ASSUME NEW t \in Turn, BatchStep(t)
      PROVE  SteerInv'
  <2>1. steering' = steering /\ current_turn_id' = current_turn_id
    BY <1>3 DEF BatchStep, Batch, RunTool, ToolReturns, Gate, Park, ResolveChannel, HandleApproval,
                RecordResult, Resume, DropCalls, Breaker, turnVars
  <2>2. entries' \in Seq(Landed)
    <3>1. CASE RecordResult(t)
      <4>1. ResultOf(task[t]) \in Result
        BY <1>0, TaskFields DEF ResultOf, Result, Returned
      <4>2. entries' = Recorded(entries, t, task[t].step, task[t].k, ResultOf(task[t]))
        BY <3>1 DEF RecordResult
      <4> QED
        BY <1>q, <4>1, <4>2, RecordedLanded
    <3>2. CASE DropCalls(t)
      <4>1. \/ entries' = entries
            \/ entries' = Recorded(entries, t, task[t].step, task[t].k, "cancelled")
        BY <3>2 DEF DropCalls
      <4>2. "cancelled" \in Result
        BY DEF Result
      <4> QED
        BY <1>q, <4>1, <4>2, RecordedLanded
    <3>3. CASE ~RecordResult(t) /\ ~DropCalls(t)
      BY <1>q, <1>3, <3>3
      DEF BatchStep, Batch, RunTool, ToolReturns, Gate, Park, ResolveChannel, HandleApproval,
          Resume, Breaker
    <3> QED
      BY <3>1, <3>2, <3>3
  <2> QED
    BY <1>0, <2>1, <2>2 DEF SteerInv, QueueIsLive
<1>4. ASSUME NEW t \in Turn, Finish(t) \/ EmitTerminal(t) \/ EmitAsk(t)
      PROVE  SteerInv'
  BY <1>0, <1>4, QuietSteer DEF Finish, FinishTurn, EmitTerminal, EmitAsk, stateVars
<1>5. CASE FrontEnd
  <2>1. CASE SteerUser
    <3>1. entries' = entries /\ current_turn_id' = current_turn_id
      BY <2>1 DEF SteerUser, turnVars
    <3> DEFINE s == [kind |-> "steer", of |-> current_turn_id, n |-> steered + 1]
    <3>2. s.of = current_turn_id /\ steering' = Append(steering, s)
      BY <2>1 DEF SteerUser
    <3> HIDE DEF s
    <3>3. QueueIsLive'
      BY <1>q, <3>1, <3>2 DEF SteerInv, QueueIsLive
    <3> QED
      BY <1>0, <1>q, <3>1, <3>3 DEF SteerInv
  <2>2. CASE ~SteerUser
    <3>1. /\ entries' = entries /\ steering' \in {steering, <<>>}
          /\ current_turn_id' = current_turn_id
      BY <1>5, <2>2 DEF FrontEnd, CancelTurn, RestoreBegin, RestoreEnd, HandleFlip, HandleCancelIf,
                        SubmitApproval, CancelInner, turnVars
    <3> QED
      BY <1>0, <3>1, QuietSteer
  <2> QED
    BY <2>1, <2>2
<1>6. CASE UNCHANGED vars
  BY <1>0, <1>6, QuietSteer DEF vars, stateVars
<1> QED
  BY <1>1, <1>2, <1>3, <1>4, <1>5, <1>6 DEF Next, TaskStep

(* A prompt steered into a turn is recorded in that turn or not at all:     *)
(* drain_steering's ownership check, and the clears in begin_turn and       *)
(* cancel_turn_inner, keep it out of the next turn's transcript.            *)
THEOREM SteersLand == Spec => []SteerLandsInItsTurn
<1>1. Init => SteerInv
  <2>1. ASSUME Init
        PROVE  entries \in Seq(Landed) /\ steering = <<>>
    BY <2>1 DEF Init
  <2> QED
    BY <2>1, InitType DEF SteerInv, QueueIsLive
<1>2. SteerInv /\ [Next]_vars => SteerInv'
  BY NextSteer
<1>3. SteerInv => SteerLandsInItsTurn
  <2> SUFFICES ASSUME entries \in Seq(Landed), NEW i \in 1..Len(entries)
               PROVE  entries[i].kind = "steer" => entries[i].of = entries[i].turn
    BY DEF SteerInv, SteerLandsInItsTurn
  <2>1. entries[i] \in Landed
    OBVIOUS
  <2> QED
    BY <2>1 DEF Landed, Lands
<1> QED
  BY <1>1, <1>2, <1>3, PTL DEF Spec

-----------------------------------------------------------------------------
(* Turns that follow one another *)

(* Callers that wait for one begin_turn before the next, or a single turn. *)
SerialCallers == MaxBegin = 1 \/ \A t, u \in Turn : t = u

Told(t) == out[t] # NoOutcome

(* No two begin_turn calls are under way. *)
OneBegins == \A t, u \in InFlight : t = u

(* A task that has not come to its end. *)
Working(t) == task[t].pc \notin {"none", "entry", "finC", "finF", "abort", "emitC", "emitF", "done"}

(* Whoever lost the runtime while it worked has a cancelled token, and a    *)
(* successor.                                                               *)
LosersAreWoken ==
    \A t \in Turn : Working(t) /\ current_turn_id # t =>
        cancelled[t] /\ \E u \in Turn \ {t} : boot[u].pc # "idle"

(* A bootstrap has cancelled and told the live turn before it closes it, and *)
(* installs its own only once none is live.                                 *)
Handover ==
    \A u \in Turn :
        /\ boot[u].pc \in {"orphan", "finish"} /\ current_turn_id # NoTurn =>
             cancelled[current_turn_id] /\ Told(current_turn_id)
        /\ boot[u].pc = "finish" => current_turn_id \in {boot[u].orphan, NoTurn}
        /\ boot[u].pc = "install" => current_turn_id = NoTurn

(* A task whose consumer does not know the outcome yet can still tell it. *)
TellsYet ==
    \A t \in Turn : task[t].pc # "none" /\ ~Told(t) =>
        /\ task[t].tx = t /\ task[t].pc \notin Ending
        /\ task[t].pc \in {"emitC", "emitF"} \/ current_turn_id = t

SerialInv ==
    /\ Inv /\ OneBegins /\ LosersAreWoken /\ Handover /\ TellsYet
    /\ restoring => current_turn_id = NoTurn

-----------------------------------------------------------------------------
(* Entry i lies among those of turn t: after one of them, with nothing of   *)
(* another turn in between.                                                 *)
Within(es, i, t) ==
    \E j \in 1..i : es[j].turn = t /\ \A m \in j..i : es[m].turn \in {t, NoTurn}

Contiguous(es) ==
    \A i, j \in 1..Len(es) :
        (i < j /\ es[i].turn = es[j].turn /\ es[i].turn # NoTurn) =>
            \A m \in i..j : es[m].turn \in {es[i].turn, NoTurn}

(* A turn that is not installed has no entries. *)
NoneYet == \A t \in Turn : boot[t].pc \notin {"drive", "done"} =>
    \A i \in 1..Len(entries) : entries[i].turn # t

(* The transcript ends with the live turn. *)
LiveIsLast == current_turn_id # NoTurn => Within(entries, Len(entries), current_turn_id)

(* A task that may still record a partial reply holds an anchor. *)
Anchors(t) ==
    \/ task[t].pc \in {"stream", "push", "partialC", "partialE"}
    \/ task[t].pc = "open" /\ ~cancelled[t]

(* An anchor a of turn t is an entry of the turn, or a notice that lies     *)
(* among them.                                                              *)
AnchorAt(es, t, a) ==
    \/ a.turn = t
    \/ a.kind = "notice" /\ \E i \in 1..Len(es) : es[i] = a /\ Within(es, i, t)

AnchorsHold == \A t \in Turn : Anchors(t) => AnchorAt(entries, t, task[t].anchor)

(* Only a notice is filed under no turn. *)
Filed(es) == \A i \in 1..Len(es) : es[i].turn = NoTurn => es[i].kind = "notice"

(* The wrap-up notice of a turn that may still be sent. *)
Unsent(t) ==
    \/ task[t].pc = "notice"
    \/ task[t].pc = "check" /\ task[t].due
    \/ turn_budget.turn = t /\ ~turn_budget.wrap_up_sent
    \/ boot[t].pc \notin {"drive", "done"}

(* The notices in a sequence: of one turn, and of no turn more than one. *)
NoticeOf(es, t) == \E i \in 1..Len(es) : es[i].kind = "notice" /\ es[i].of = t

AtMostOne(es) ==
    \A i, j \in 1..Len(es) :
        es[i].kind = "notice" /\ es[j].kind = "notice" /\ es[i].of = es[j].of => i = j

(* Each turn's notice is in the queue or in the transcript, once. *)
OneNotice ==
    /\ AtMostOne(entries) /\ AtMostOne(steering)
    /\ \A t \in Turn : ~(NoticeOf(entries, t) /\ NoticeOf(steering, t))
    /\ \A t \in Turn : Unsent(t) => ~NoticeOf(entries, t) /\ ~NoticeOf(steering, t)
    /\ \A t \in Turn : task[t].pc = "notice" /\ turn_budget.turn = t => turn_budget.wrap_up_sent

OrderInv ==
    /\ SerialInv /\ Contiguous(entries) /\ NoneYet /\ LiveIsLast
    /\ AnchorsHold /\ Filed(entries) /\ OneNotice
-----------------------------------------------------------------------------
(* What a step of a task does to its place and to its consumer *)

(* The pcs between finish_turn and the terminal event. *)
Emitting == {"emitC", "emitF"}

(* The task works on, and tells its consumer nothing. *)
WorksOn(t) == task'[t].tx = task[t].tx /\ task'[t].pc \notin Ending \cup Emitting \cup {"none"}

(* The consumer is told an outcome, on the channel of c. *)
TellsOn(t, c) == \E event : event # "none" /\ out' = Delivered(c.tx, t, event)

Goes(t) ==
    LET c == task[t]
        d == task'[t]
    IN  \/ /\ WorksOn(t) /\ out' = out
           /\ Working(t) \/ (c.pc = "entry" /\ current_turn_id = t)
           /\ c.pc \notin Ending
        \/ d.tx = c.tx /\ d.pc \in {"abort", "partialE"} /\ TellsOn(t, c) /\ Working(t)
        \/ c.pc = "channel" /\ d.pc = "answer" /\ d.tx = ChannelOf(t) /\ out' = out
        \/ /\ d.pc = "done" /\ out' = out
           /\ \/ c.pc = "entry" /\ current_turn_id # t
              \/ c.pc = "spend" /\ turn_budget.turn # t
        \/ c.pc = "partialE" /\ d.pc = "abort" /\ d.tx = c.tx /\ out' = out
        \/ c.pc = "abort" /\ d.pc = "done" /\ out' = out
        \/ c.pc \in {"finC", "finF"} /\ d.pc \in Emitting /\ d.tx = c.tx /\ out' = out
        \/ c.pc \in Emitting /\ d.pc = "done" /\ TellsOn(t, c)

LEMMA QuietGoes ==
    ASSUME NEW t \in Turn, WorksOn(t), out' = out,
           Working(t), task[t].pc # "partialE"
    PROVE  Goes(t)
  BY DEF Goes, Working, Ending

LEMMA FailGoes ==
    ASSUME NEW t \in Turn, Working(t), Emit(t, "failed") \/ Emit(t, "step_limit"),
           task'[t].tx = task[t].tx, task'[t].pc \in {"abort", "partialE"}
    PROVE  Goes(t)
  BY DEF Goes, Emit, TellsOn

LEMMA LoopGoes ==
    ASSUME TypeOK, NEW t \in Turn, LoopStep(t)
    PROVE  Goes(t)
<1>0. task[t] \in Task /\ \A d : Become(t, d) => task'[t] = d
  BY TaskFields DEF Become
<1>q. \A pc : pc \notin Ending \cup Emitting \cup {"none"} /\ (Goto(t, pc) \/ Leave(t, pc)) => WorksOn(t)
  BY MoveIs DEF Moved, WorksOn
<1>e. \A pc : Leave(t, pc) \/ Goto(t, pc) => task'[t].pc = pc /\ task'[t].tx = task[t].tx
  BY MoveIs DEF Moved
<1>p. Become(t, Dropping(task[t])) => WorksOn(t)
  BY MoveIs DEF Moved, WorksOn, Ending, Emitting
<1> USE DEF Ending, Emitting
<1>1. CASE Enter(t)
  <2>1. task[t].pc = "entry" /\ out' = out
    BY <1>1 DEF Enter
  <2>2. CASE current_turn_id = t
    <3>1. WorksOn(t)
      BY <1>1, <2>2, <1>q DEF Enter
    <3> QED
      BY <2>1, <2>2, <3>1 DEF Goes
  <2>3. CASE current_turn_id # t
    <3>1. task'[t].pc = "done"
      BY <1>1, <2>3, MoveIs DEF Enter, Moved
    <3> QED
      BY <2>1, <2>3, <3>1 DEF Goes
  <2> QED
    BY <2>2, <2>3
<1>2. CASE Check0(t)
  <2>1. WorksOn(t)
    <3>1. CASE cancelled[t]
      BY <1>2, <1>q, <3>1 DEF Check0
    <3>2. CASE ~cancelled[t]
      BY <1>2, <1>q, <3>2 DEF Check0
    <3> QED
      BY <3>1, <3>2
  <2>2. out' = out /\ Working(t) /\ task[t].pc # "partialE"
    BY <1>2 DEF Check0, Working
  <2> QED
    BY <2>1, <2>2, QuietGoes
<1>3. CASE SpendStep(t)
  <2>0. task[t].pc = "spend" /\ Working(t)
    BY <1>3 DEF SpendStep, Working
  <2>1. CASE turn_budget.turn # t
    <3>1. task'[t].pc = "done" /\ out' = out
      BY <1>3, <2>1, MoveIs DEF SpendStep, Moved
    <3> QED
      BY <2>0, <2>1, <3>1 DEF Goes
  <2>2. CASE turn_budget.turn = t /\ OverCap(turn_budget.steps + 1)
    <3>1. Leave(t, "abort") /\ Emit(t, "step_limit")
      BY <1>3, <2>2 DEF SpendStep
    <3> QED
      BY <2>0, <3>1, <1>e, FailGoes
  <2>3. CASE turn_budget.turn = t /\ ~OverCap(turn_budget.steps + 1)
    <3>1. \A st, re, du : Become(t, [task[t] EXCEPT !.pc = "check", !.step = st, !.rescued = re, !.due = du])
            => WorksOn(t)
      BY ZenonT(40), <1>0 DEF Task, WorksOn
    <3>2. WorksOn(t) /\ out' = out
      BY <1>3, <2>3, <3>1 DEF SpendStep
    <3> QED
      BY <2>0, <3>2, QuietGoes
  <2> QED
    BY <2>1, <2>2, <2>3
<1>4. CASE Check(t)
  <2>1. \A pc \in {"notice", "drain"} :
          Become(t, [task[t] EXCEPT !.pc = pc, !.due = FALSE]) => WorksOn(t)
    BY <1>0 DEF Task, WorksOn
  <2>2. WorksOn(t)
    <3>1. CASE cancelled[t]
      BY <1>4, <1>q, <3>1 DEF Check
    <3>2. CASE ~cancelled[t]
      BY <1>4, <2>1, <3>2 DEF Check
    <3> QED
      BY <3>1, <3>2
  <2>3. out' = out /\ Working(t) /\ task[t].pc # "partialE"
    BY <1>4 DEF Check, Working
  <2> QED
    BY <2>2, <2>3, QuietGoes
<1>5. CASE SteerNotice(t)
  <2>1. WorksOn(t)
    BY <1>5, <1>q DEF SteerNotice
  <2>2. out' = out /\ Working(t) /\ task[t].pc # "partialE"
    BY <1>5 DEF SteerNotice, Working
  <2> QED
    BY <2>1, <2>2, QuietGoes
<1>6. CASE DrainSteering(t)
  <2>1. WorksOn(t)
    BY <1>6, <1>q DEF DrainSteering
  <2>2. out' = out /\ Working(t) /\ task[t].pc # "partialE"
    BY <1>6 DEF DrainSteering, Working
  <2> QED
    BY <2>1, <2>2, QuietGoes
<1>7. CASE ReadAnchor(t)
  <2>1. \A e : Become(t, [task[t] EXCEPT !.pc = "open", !.anchor = e]) => WorksOn(t)
    BY <1>0 DEF Task, WorksOn
  <2>2. WorksOn(t)
    BY <1>7, <1>q, <2>1 DEF ReadAnchor
  <2>3. out' = out /\ Working(t) /\ task[t].pc # "partialE"
    BY <1>7 DEF ReadAnchor, Working
  <2> QED
    BY <2>2, <2>3, QuietGoes
<1>8. CASE Open(t)
  <2>0. Working(t) /\ task[t].pc # "partialE"
    BY <1>8 DEF Open, Working
  <2>1. Become(t, [task[t] EXCEPT !.pc = "stream", !.rescued = FALSE]) => WorksOn(t)
    BY <1>0 DEF Task, WorksOn
  <2>2. \/ /\ \/ Leave(t, "finC") \/ Leave(t, "rescue")
              \/ Become(t, [task[t] EXCEPT !.pc = "stream", !.rescued = FALSE])
           /\ out' = out
        \/ Leave(t, "abort") /\ Emit(t, "failed")
    BY <1>8 DEF Open
  <2>3. CASE out' = out /\ WorksOn(t)
    BY <2>0, <2>3, QuietGoes
  <2>4. CASE Leave(t, "abort") /\ Emit(t, "failed")
    BY <2>0, <2>4, <1>e, FailGoes
  <2> QED
    BY <2>1, <2>2, <2>3, <2>4, <1>q
<1>9. CASE RescueFold(t)
  <2>0. Working(t) /\ task[t].pc # "partialE"
    BY <1>9 DEF RescueFold, Working
  <2>1. CASE (Leave(t, "finC") \/ Leave(t, "spend")) /\ out' = out
    <3>1. WorksOn(t)
      BY <2>1, <1>q
    <3> QED
      BY <2>0, <2>1, <3>1, QuietGoes
  <2>2. CASE (Leave(t, "abort")) /\ Emit(t, "failed")
    BY <2>0, <2>2, <1>e, FailGoes
  <2> QED
    BY <1>9, <2>1, <2>2 DEF RescueFold
<1>10. CASE Stream(t)
  <2>0. Working(t) /\ task[t].pc # "partialE"
    BY <1>10 DEF Stream, Working
  <2>1. CASE (Goto(t, "partialC")) /\ out' = out
    <3>1. WorksOn(t)
      BY <2>1, <1>q
    <3> QED
      BY <2>0, <2>1, <3>1, QuietGoes
  <2>2. CASE (\E n \in 0..MaxCalls : Become(t, [task[t] EXCEPT !.pc = "push", !.n = n])) /\ out' = out
    <3>1. WorksOn(t)
      BY <2>2, <1>0 DEF Task, WorksOn
    <3> QED
      BY <2>0, <2>2, <3>1, QuietGoes
  <2>3. CASE (Goto(t, "partialE") \/ Leave(t, "abort")) /\ Emit(t, "failed")
    BY <2>0, <2>3, <1>e, FailGoes
  <2> QED
    BY <1>10, <2>1, <2>2, <2>3 DEF Stream
<1>11. CASE Push(t)
  <2>1. Become(t, [task[t] EXCEPT !.pc = "batch", !.anchor = NoEntry]) => WorksOn(t)
    BY <1>0 DEF Task, WorksOn
  <2>2. WorksOn(t)
    BY <1>11, <1>q, <2>1 DEF Push
  <2>3. out' = out /\ Working(t) /\ task[t].pc # "partialE"
    BY <1>11 DEF Push, Working
  <2> QED
    BY <2>2, <2>3, QuietGoes
<1>12. CASE RecordPartial(t)
  <2>1. CASE task[t].pc = "partialC"
    <3>1. WorksOn(t) /\ out' = out /\ Working(t)
      BY <1>12, <2>1, <1>q DEF RecordPartial, Working
    <3> QED
      BY <2>1, <3>1, QuietGoes
  <2>2. CASE task[t].pc = "partialE"
    <3>1. Leave(t, "abort") /\ out' = out
      BY <1>12, <2>2 DEF RecordPartial
    <3> QED
      BY <2>2, <3>1, <1>e DEF Goes
  <2> QED
    BY <1>12, <2>1, <2>2 DEF RecordPartial
<1> QED
  BY <1>1, <1>2, <1>3, <1>4, <1>5, <1>6, <1>7, <1>8, <1>9, <1>10, <1>11, <1>12 DEF LoopStep

LEMMA BatchGoes ==
    ASSUME TypeOK, NEW t \in Turn, BatchStep(t)
    PROVE  Goes(t)
<1>0. task[t] \in Task /\ \A d : Become(t, d) => task'[t] = d
  BY TaskFields DEF Become
<1>q. \A pc : pc \notin Ending \cup Emitting \cup {"none"} /\ (Goto(t, pc) \/ Leave(t, pc)) => WorksOn(t)
  BY MoveIs DEF Moved, WorksOn
<1>e. \A pc : Leave(t, pc) \/ Goto(t, pc) => task'[t].pc = pc /\ task'[t].tx = task[t].tx
  BY MoveIs DEF Moved
<1>p. Become(t, Dropping(task[t])) => WorksOn(t)
  BY MoveIs DEF Moved, WorksOn, Ending, Emitting
<1> USE DEF Ending, Emitting
<1>1. CASE Batch(t)
  <2>1. \A hi, at : Become(t, [task[t] EXCEPT !.pc = "run", !.hi = hi, !.at = at]) => WorksOn(t)
    BY <1>0 DEF Task, WorksOn
  <2>2. WorksOn(t)
    BY <1>1, <1>q, <1>p, <2>1 DEF Batch
  <2>3. out' = out /\ Working(t) /\ task[t].pc # "partialE"
    BY <1>1 DEF Batch, Working
  <2> QED
    BY <2>2, <2>3, QuietGoes
<1>2. CASE RunTool(t)
  <2>1. \A got : Become(t, [task[t] EXCEPT !.pc = "record", !.at = @ + 1, !.got = got]) => WorksOn(t)
    BY <1>0 DEF Task, WorksOn
  <2>2. \A pc \in {"exec", "run"} : Become(t, [task[t] EXCEPT !.at = @ + 1, !.pc = pc]) => WorksOn(t)
    BY <1>0 DEF Task, WorksOn
  <2>3. WorksOn(t)
    BY <1>2, <1>q, <2>1, <2>2 DEF RunTool
  <2>4. out' = out /\ Working(t) /\ task[t].pc # "partialE"
    BY <1>2 DEF RunTool, Working
  <2> QED
    BY <2>3, <2>4, QuietGoes
<1>3. CASE ToolReturns(t)
  <2>0. Working(t) /\ task[t].pc # "partialE"
    BY <1>3 DEF ToolReturns, Working
  <2>1. CASE (\E got : Become(t, [task[t] EXCEPT !.pc = "record", !.got = got])) /\ out' = out
    <3>1. WorksOn(t)
      BY <2>1, <1>0 DEF Task, WorksOn
    <3> QED
      BY <2>0, <2>1, <3>1, QuietGoes
  <2>2. CASE (Leave(t, "abort")) /\ Emit(t, "failed")
    BY <2>0, <2>2, <1>e, FailGoes
  <2> QED
    BY <1>3, <2>1, <2>2 DEF ToolReturns
<1>4. CASE Gate(t)
  <2>1. \A a : Become(t, [task[t] EXCEPT !.pc = "run", !.auth = a]) => WorksOn(t)
    BY <1>0 DEF Task, WorksOn
  <2>2. \A g : Become(t, [task[t] EXCEPT !.pc = "record", !.at = @ + 1, !.got = g]) => WorksOn(t)
    BY <1>0 DEF Task, WorksOn
  <2>3. \A a : Become(t, [task[t] EXCEPT !.pc = "park", !.ask = a]) => WorksOn(t)
    BY <1>0 DEF Task, WorksOn
  <2>4. WorksOn(t)
    BY <1>4, <1>q, <2>1, <2>2, <2>3 DEF Gate
  <2>5. out' = out /\ Working(t) /\ task[t].pc # "partialE"
    BY <1>4 DEF Gate, Working
  <2> QED
    BY <2>4, <2>5, QuietGoes
<1>5. CASE Park(t)
  <2>1. WorksOn(t)
    BY <1>5, <1>q, <1>p DEF Park
  <2>2. out' = out /\ Working(t) /\ task[t].pc # "partialE"
    BY <1>5 DEF Park, Working
  <2> QED
    BY <2>1, <2>2, QuietGoes
<1>6. CASE ResolveChannel(t)
  <2>1. task'[t].pc = "answer" /\ task'[t].tx = ChannelOf(t)
    BY <1>6, <1>0 DEF ResolveChannel, Task
  <2>2. task[t].pc = "channel" /\ out' = out
    BY <1>6 DEF ResolveChannel
  <2> QED
    BY <2>1, <2>2 DEF Goes
<1>7. CASE HandleApproval(t)
  <2>1. Become(t, [task[t] EXCEPT !.pc = "run", !.asked = TRUE, !.again = TRUE]) => WorksOn(t)
    BY ZenonT(40), <1>0 DEF Task, WorksOn
  <2>2. WorksOn(t)
    BY <1>7, <1>q, <1>p, <2>1 DEF HandleApproval
  <2>3. out' = out /\ Working(t) /\ task[t].pc # "partialE"
    BY <1>7 DEF HandleApproval, Working
  <2> QED
    BY <2>2, <2>3, QuietGoes
<1>8. CASE RecordResult(t)
  <2>1. \A pc \in {"resume", "batch"} : \A k, n, s, a :
          Become(t, [Fresh(pc, task[t].tx) EXCEPT !.k = k, !.n = n, !.step = s, !.again = a])
            => WorksOn(t)
    BY ZenonT(40), <1>0 DEF Fresh, WorksOn
  <2>2. Become(t, [task[t] EXCEPT !.k = @ + 1]) /\ task[t].pc = "record" => WorksOn(t)
    BY <1>0 DEF Task, WorksOn
  <2>3. WorksOn(t)
    BY <1>8, <1>q, <2>1, <2>2 DEF RecordResult
  <2>4. out' = out /\ Working(t) /\ task[t].pc # "partialE"
    BY <1>8 DEF RecordResult, Working
  <2> QED
    BY <2>3, <2>4, QuietGoes
<1>9. CASE Resume(t)
  <2>1. WorksOn(t)
    BY <1>9, <1>q, <1>p DEF Resume
  <2>2. out' = out /\ Working(t) /\ task[t].pc # "partialE"
    BY <1>9 DEF Resume, Working
  <2> QED
    BY <2>1, <2>2, QuietGoes
<1>10. CASE DropCalls(t)
  <2>1. Become(t, [task[t] EXCEPT !.k = @ + 1]) /\ task[t].pc = "drop" => WorksOn(t)
    BY <1>0 DEF Task, WorksOn
  <2>2. WorksOn(t)
    BY <1>10, <1>q, <2>1 DEF DropCalls
  <2>3. out' = out /\ Working(t) /\ task[t].pc # "partialE"
    BY <1>10 DEF DropCalls, Working
  <2> QED
    BY <2>2, <2>3, QuietGoes
<1>11. CASE Breaker(t)
  <2>0. Working(t) /\ task[t].pc # "partialE"
    BY <1>11 DEF Breaker, Working
  <2>1. CASE (Leave(t, "entry") \/ Leave(t, "spend")) /\ out' = out
    <3>1. WorksOn(t)
      BY <2>1, <1>q
    <3> QED
      BY <2>0, <2>1, <3>1, QuietGoes
  <2>2. CASE (Leave(t, "abort")) /\ Emit(t, "failed")
    BY <2>0, <2>2, <1>e, FailGoes
  <2> QED
    BY <1>11, <2>1, <2>2 DEF Breaker
<1> QED
  BY <1>1, <1>2, <1>3, <1>4, <1>5, <1>6, <1>7, <1>8, <1>9, <1>10, <1>11 DEF BatchStep

LEMMA TaskGoes ==
    ASSUME TypeOK, NEW t \in Turn, TaskStep(t)
    PROVE  Goes(t)
<1>1. CASE Finish(t)
  <2>1. out' = out /\ task[t].pc \in {"finC", "finF", "abort"}
    BY <1>1 DEF Finish
  <2>2. CASE task[t].pc = "abort"
    <3>1. task'[t].pc = "done"
      BY <1>1, <2>2, MoveIs DEF Finish, Moved
    <3> QED
      BY <2>1, <2>2, <3>1 DEF Goes
  <2>3. CASE task[t].pc # "abort"
    <3>1. task'[t].pc \in Emitting /\ task'[t].tx = task[t].tx
      BY <1>1, <2>3, MoveIs DEF Finish, Moved, Emitting
    <3> QED
      BY <2>1, <2>3, <3>1 DEF Goes
  <2> QED
    BY <2>2, <2>3
<1>2. CASE EmitTerminal(t)
  <2>1. task[t].pc \in Emitting /\ task'[t].pc = "done"
    BY <1>2, MoveIs DEF EmitTerminal, Moved, Emitting
  <2>2. Emit(t, "cancelled") \/ Emit(t, "finished")
    BY <1>2 DEF EmitTerminal
  <2>3. TellsOn(t, task[t])
    BY <2>2 DEF Emit, TellsOn
  <2> QED
    BY <2>1, <2>3 DEF Goes
<1> QED
  BY <1>1, <1>2, LoopGoes, BatchGoes DEF TaskStep

-----------------------------------------------------------------------------
(* Serial callers: what the steps keep *)

LEMMA Tellings ==
    ASSUME TypeOK, NEW t \in Turn, NEW c \in Turn \cup {NoTurn}, NEW event, event # "none",
           out' = Delivered(c, t, event)
    PROVE  /\ \A u \in Turn : Told(u) => out'[u] # NoOutcome
           /\ c \in Turn => out'[c] # NoOutcome
           /\ \A u \in Turn : u # c => out'[u] = out[u]
<1>1. out \in [Turn -> Outcome]
  BY DEF TypeOK, SeenType
<1>2. [event |-> event, of |-> t] # NoOutcome
  BY DEF NoOutcome
<1>3. CASE c # NoTurn /\ out[c] = NoOutcome
  <2>1. out' = [out EXCEPT ![c] = [event |-> event, of |-> t]] /\ c \in Turn
    BY <1>3 DEF Delivered
  <2> HIDE DEF NoOutcome
  <2> QED
    BY <1>1, <1>2, <1>3, <2>1 DEF Told
<1>4. CASE ~(c # NoTurn /\ out[c] = NoOutcome)
  <2>1. out' = out
    BY <1>4 DEF Delivered
  <2> QED
    BY <1>4, <2>1, TurnAssumption DEF Told
<1> QED
  BY <1>3, <1>4

(* A begin_turn call begins while no other is under way. *)
LEMMA BeginsAlone ==
    ASSUME SerialCallers, Inv, OneBegins, NEW t \in Turn, BeginSupersede(t)
    PROVE  InFlight = {}
<1>1. boot[t].pc = "idle" /\ t \notin InFlight /\ Cardinality(InFlight) < MaxBegin
  BY DEF BeginSupersede, InFlight
<1>2. CASE \A u, v \in Turn : u = v
  BY <1>1, <1>2 DEF InFlight
<1>3. CASE MaxBegin = 1
  <2>1. ASSUME NEW u \in InFlight
        PROVE  FALSE
    <3>1. InFlight = {u}
      BY <2>1 DEF OneBegins
    <3>2. Cardinality(InFlight) = 1
      BY <3>1, FS_Singleton
    <3> QED
      BY <1>1, <1>3, <3>2
  <2> QED
    BY <2>1
<1> QED
  BY <1>2, <1>3 DEF SerialCallers

LEMMA BeginSerial ==
    ASSUME SerialCallers, SerialInv, Inv', NEW t \in Turn, BeginSupersede(t)
    PROVE  SerialInv'
<1> DEFINE c == current_turn_id
<1>0. /\ Inv /\ TypeOK /\ OneBegins /\ LosersAreWoken /\ Handover /\ TellsYet
      /\ boot \in [Turn -> [pc : BootPc, orphan : Turn \cup {NoTurn}]]
      /\ cancelled \in [Turn -> BOOLEAN] /\ c \in Turn \cup {NoTurn}
  BY DEF SerialInv, Inv, TypeOK, TasksType, StateType
<1>1. InFlight = {}
  BY <1>0, BeginsAlone
<1>2. /\ boot[t].pc = "idle" /\ boot' = [boot EXCEPT ![t].pc = "orphan"]
      /\ UNCHANGED <<current_turn_id, turn_events, turn_budget, task, restoring>>
      /\ c # NoTurn => CancelToken /\ TellLive
      /\ c = NoTurn => UNCHANGED <<cancelled, out>>
  BY DEF BeginSupersede, turnVars, BootFrame
<1>3. \A u \in Turn \ {t} : boot[u].pc \in {"idle", "done"} /\ boot'[u] = boot[u]
  BY <1>0, <1>1, <1>2 DEF InFlight
<1>4. boot'[t].pc = "orphan"
  BY <1>0, <1>2
<1>5. /\ \A u \in Turn : cancelled[u] => cancelled'[u]
      /\ \A u \in Turn : Told(u) => Told(u)'
      /\ c # NoTurn => cancelled'[c] /\ Told(c)'
  <2>1. CASE c = NoTurn
    BY <1>2, <2>1 DEF Told
  <2>2. CASE c # NoTurn
    <3>1. c \in Turn /\ boot[c].pc = "done"
      BY <1>0, <1>2, <1>3, <2>2 DEF Inv, NotStarted
    <3>2. turn_budget.turn = c /\ turn_events = c
      BY <1>0, <2>2, <3>1 DEF Inv, LiveTurn
    <3>3. cancelled' = [cancelled EXCEPT ![c] = TRUE] /\ out' = Delivered(c, c, "cancelled")
      BY <1>2, <2>2, <3>2 DEF CancelToken, TellLive
    <3>4. \A u \in Turn : Told(u) => Told(u)'
      BY <1>0, <3>1, <3>3, Tellings DEF Told
    <3>5. Told(c)'
      BY <1>0, <1>2, <3>1, <3>3, Tellings DEF Told
    <3> QED
      BY <1>0, <3>1, <3>3, <3>4, <3>5
  <2> QED
    BY <2>1, <2>2
<1>6. OneBegins'
  BY <1>1, <1>3 DEF OneBegins, InFlight
<1>7. LosersAreWoken'
  <2>1. \A u \in Turn : Working(u)' = Working(u)
    BY <1>2 DEF Working
  <2>2. \A u \in Turn : boot[u].pc # "idle" => boot'[u].pc # "idle"
    BY <1>2, <1>3
  <2> QED
    BY <1>0, <1>2, <1>5, <2>1, <2>2 DEF LosersAreWoken
<1>8. Handover'
  <2>1. current_turn_id' = c
    BY <1>2
  <2>2. c # NoTurn => cancelled'[current_turn_id'] /\ Told(current_turn_id)'
    BY <1>5, <2>1 DEF Told
  <2>3. \A u \in Turn : boot'[u].pc \notin {"finish", "install"}
    BY <1>3, <1>4
  <2> QED
    BY <2>1, <2>2, <2>3 DEF Handover
<1>9. TellsYet'
  BY <1>0, <1>2, <1>5 DEF TellsYet
<1> QED
  BY <1>2, <1>6, <1>7, <1>8, <1>9 DEF SerialInv

LEMMA OrphanSerial ==
    ASSUME SerialInv, Inv', NEW t \in Turn, OrphanRead(t) \/ OrphanFinish(t)
    PROVE  SerialInv'
<1>0. /\ Inv /\ TypeOK /\ OneBegins /\ LosersAreWoken /\ Handover /\ TellsYet
      /\ restoring => current_turn_id = NoTurn
      /\ boot \in [Turn -> [pc : BootPc, orphan : Turn \cup {NoTurn}]]
      /\ current_turn_id \in Turn \cup {NoTurn}
  BY DEF SerialInv, Inv, TypeOK, TasksType, StateType
<1>1. /\ boot[t].pc \in {"orphan", "finish"} /\ UNCHANGED <<cancelled, task, restoring, out>>
      /\ \A u \in Turn \ {t} : boot'[u] = boot[u]
      /\ boot'[t].pc \in {"finish", "install"}
  BY <1>0 DEF OrphanRead, OrphanFinish, BootFrame, ownVars
<1>2. \A u \in Turn \ {t} : boot[u].pc \in {"idle", "done"}
  BY <1>0, <1>1 DEF OneBegins, InFlight
<1>3. \A u \in Turn : Working(u)' = Working(u) /\ Told(u)' = Told(u)
  BY <1>1 DEF Working, Told
<1>4. OneBegins'
  BY <1>1, <1>2 DEF OneBegins, InFlight
<1>5. current_turn_id # t
  BY <1>0, <1>1 DEF Inv, NotStarted
<1>6. CASE OrphanRead(t)
  <2>1. /\ current_turn_id' = current_turn_id
        /\ boot'[t].pc = "install" => current_turn_id = NoTurn
        /\ boot'[t].pc = "finish" => boot'[t].orphan = current_turn_id
    BY <1>0, <1>6 DEF OrphanRead, turnVars
  <2>2. LosersAreWoken' /\ TellsYet'
    BY <1>0, <1>1, <1>3, <2>1 DEF LosersAreWoken, TellsYet
  <2>3. current_turn_id # NoTurn => cancelled[current_turn_id] /\ Told(current_turn_id)
    BY <1>0, <1>1 DEF Handover
  <2>4. current_turn_id # NoTurn => (cancelled[current_turn_id] /\ Told(current_turn_id))'
    BY <1>1, <2>1, <2>3 DEF Told
  <2>5. Handover'
    BY <1>1, <1>2, <2>1, <2>4 DEF Handover
  <2> QED
    BY <1>0, <1>1, <1>4, <2>1, <2>2, <2>5 DEF SerialInv
<1>7. CASE OrphanFinish(t)
  <2>1. boot[t].pc = "finish" /\ boot'[t].pc = "install" /\ FinishTurn(boot[t].orphan)
    BY <1>0, <1>7 DEF OrphanFinish
  <2>2. current_turn_id \in {boot[t].orphan, NoTurn}
    BY <1>0, <2>1 DEF Handover
  <2>3. current_turn_id' = NoTurn
    BY <2>1, <2>2 DEF FinishTurn
  <2>4. current_turn_id # NoTurn => cancelled[current_turn_id] /\ Told(current_turn_id)
    BY <1>0, <2>1 DEF Handover
  <2>5. Handover'
    BY <1>1, <1>2, <2>1, <2>3 DEF Handover
  <2>6. LosersAreWoken'
    <3> SUFFICES ASSUME NEW u \in Turn, Working(u)
                 PROVE  cancelled[u] /\ \E v \in Turn \ {u} : boot'[v].pc # "idle"
      BY <1>1, <1>3 DEF LosersAreWoken
    <3>1. CASE current_turn_id = u
      BY <1>0, <1>1, <1>5, <2>4, <3>1, TurnAssumption
    <3>2. CASE current_turn_id # u
      BY <1>0, <1>1, <3>2 DEF LosersAreWoken
    <3> QED
      BY <3>1, <3>2
  <2>7. TellsYet'
    BY <1>0, <1>1, <1>3, <2>3, <2>4, TurnAssumption DEF TellsYet
  <2> QED
    BY <1>4, <2>3, <2>5, <2>6, <2>7 DEF SerialInv
<1> QED
  BY <1>6, <1>7

LEMMA InstallSerial ==
    ASSUME SerialInv, Inv', NEW t \in Turn, Install(t)
    PROVE  SerialInv'
<1>0. /\ Inv /\ TypeOK /\ OneBegins /\ LosersAreWoken /\ Handover /\ TellsYet
      /\ boot \in [Turn -> [pc : BootPc, orphan : Turn \cup {NoTurn}]]
  BY DEF SerialInv, Inv, TypeOK, TasksType
<1>1. /\ boot[t].pc = "install" /\ boot' = [boot EXCEPT ![t].pc = "drive"]
      /\ current_turn_id' = t /\ UNCHANGED <<cancelled, restoring, out>> /\ ~restoring
      /\ task' = [u \in Turn |-> IF u = pending.turn THEN Fresh("done", NoTurn) ELSE task[u]]
  BY DEF Install, BootFrame
<1>2. boot'[t].pc = "drive" /\ \A u \in Turn \ {t} : boot'[u] = boot[u] /\ boot[u].pc \in {"idle", "done"}
  BY <1>0, <1>1 DEF OneBegins, InFlight
<1>3. current_turn_id = NoTurn
  BY <1>0, <1>1 DEF Handover
<1>4. \A u \in Turn : Told(u)' = Told(u)
  BY <1>1 DEF Told
<1>5. \A u \in Turn : \/ task'[u] = task[u]
                      \/ task[u].pc = "parked" /\ task'[u].pc = "done"
  BY <1>0, <1>1, FreshFields DEF Inv, ParkedWaits
<1>6. OneBegins' /\ Handover'
  BY <1>2 DEF OneBegins, InFlight, Handover
<1>7. LosersAreWoken'
  <2>1. \A u \in Turn : Working(u)' => Working(u)
    BY <1>5 DEF Working
  <2> QED
    BY <1>0, <1>1, <1>2, <1>3, <2>1, TurnAssumption DEF LosersAreWoken
<1>8. TellsYet'
  <2> SUFFICES ASSUME NEW u \in Turn, task'[u].pc # "none", ~Told(u)
               PROVE  /\ task'[u].tx = u /\ task'[u].pc \notin Ending
                      /\ task'[u].pc \in {"emitC", "emitF"}
    BY <1>4 DEF TellsYet
  <2>1. task[u].pc # "none" /\ current_turn_id # u
    BY <1>3, <1>5, TurnAssumption
  <2>2. task[u].tx = u /\ task[u].pc \notin Ending /\ task[u].pc \in {"emitC", "emitF"}
    BY <1>0, <2>1 DEF TellsYet
  <2> QED
    BY <1>5, <2>2
<1> QED
  BY <1>1, <1>6, <1>7, <1>8 DEF SerialInv

LEMMA DriveSerial ==
    ASSUME SerialInv, Inv', NEW t \in Turn, Drive(t)
    PROVE  SerialInv'
<1>0. /\ Inv /\ TypeOK /\ OneBegins /\ LosersAreWoken /\ Handover /\ TellsYet
      /\ restoring => current_turn_id = NoTurn
      /\ boot \in [Turn -> [pc : BootPc, orphan : Turn \cup {NoTurn}]]
  BY DEF SerialInv, Inv, TypeOK, TasksType
<1>1. /\ boot[t].pc = "drive" /\ boot' = [boot EXCEPT ![t].pc = "done"]
      /\ UNCHANGED <<current_turn_id, cancelled, restoring>>
  BY DEF Drive, BootFrame, ownVars
<1>2. boot'[t].pc = "done" /\ \A u \in Turn \ {t} : boot'[u] = boot[u] /\ boot[u].pc \in {"idle", "done"}
  BY <1>0, <1>1 DEF OneBegins, InFlight
<1>3. task[t].pc = "none"
  BY <1>0, <1>1 DEF Inv, NotStarted
<1>4. OneBegins' /\ Handover'
  BY <1>2 DEF OneBegins, InFlight, Handover
<1>5. CASE current_turn_id = t
  <2>1. /\ out' = out /\ \A u \in Turn \ {t} : task'[u] = task[u]
        /\ task'[t].pc = "entry" /\ task'[t].tx = t
    BY <1>0, <1>5, TaskFields, FreshFields DEF Drive, Become
  <2>2. LosersAreWoken'
    BY <1>0, <1>1, <1>2, <2>1 DEF LosersAreWoken, Working
  <2>3. TellsYet'
    BY <1>0, <1>1, <1>5, <2>1 DEF TellsYet, Told, Ending
  <2> QED
    BY <1>0, <1>1, <1>4, <2>2, <2>3 DEF SerialInv
<1>6. CASE current_turn_id # t
  <2>1. task' = task /\ out' = Delivered(t, t, "cancelled")
    BY <1>6 DEF Drive
  <2>2. \A u \in Turn : Told(u) => Told(u)'
    BY <1>0, <2>1, Tellings DEF Told
  <2>3. LosersAreWoken'
    BY <1>0, <1>1, <1>2, <2>1 DEF LosersAreWoken, Working
  <2>4. TellsYet'
    BY <1>0, <1>1, <2>1, <2>2 DEF TellsYet
  <2> QED
    BY <1>0, <1>1, <1>4, <2>3, <2>4 DEF SerialInv
<1> QED
  BY <1>5, <1>6

LEMMA TaskSerial ==
    ASSUME SerialInv, Inv', NEW t \in Turn, TaskStep(t)
    PROVE  SerialInv'
<1>0. /\ Inv /\ TypeOK /\ OneBegins /\ LosersAreWoken /\ Handover /\ TellsYet /\ LiveTurn /\ NotStarted
      /\ restoring => current_turn_id = NoTurn
      /\ current_turn_id \in Turn \cup {NoTurn}
      /\ task[t].tx \in Turn \cup {NoTurn}
  BY TaskFields DEF SerialInv, Inv, TypeOK, StateType
<1>1. Goes(t)
  BY <1>0, TaskGoes
<1>2. /\ UNCHANGED <<cancelled, boot, restoring>> /\ \A u \in Turn \ {t} : task'[u] = task[u]
      /\ task[t].pc # "none"
      /\ current_turn_id' = current_turn_id \/ (current_turn_id' = NoTurn /\ current_turn_id = t /\ Finish(t))
      /\ Finish(t) => task'[t].pc \in Emitting \cup {"done"} /\ task[t].pc \in {"finC", "finF", "abort"}
  <2>1. CASE Finish(t)
    <3>1. current_turn_id' = current_turn_id \/ (current_turn_id' = NoTurn /\ current_turn_id = t)
      BY <2>1 DEF Finish, FinishTurn
    <3>2. \A u \in Turn \ {t} : task'[u] = task[u]
      BY <1>0, <2>1, MoveIs DEF Finish, Moved
    <3>3. task'[t].pc \in Emitting \cup {"done"}
      BY <1>0, <2>1, MoveIs DEF Finish, Moved, Emitting
    <3> QED
      BY <2>1, <3>1, <3>2, <3>3 DEF Finish, ownVars, TaskFrame
  <2>2. CASE Park(t)
    <3>1. \A u \in Turn \ {t} : task'[u] = task[u]
      BY <1>0, <2>2, MoveIs DEF Park, Moved
    <3> QED
      BY <2>2, <3>1 DEF Park, Finish, ownVars, turnVars, TaskFrame
  <2>3. CASE ~Finish(t) /\ ~Park(t)
    <3>1. Effect(t)
      BY <1>0, <2>3, TaskEffect
    <3>2. restoring' = restoring
      BY DEF TaskStep, LoopStep, BatchStep, Enter, Check0, SpendStep, Check, SteerNotice, DrainSteering,
         ReadAnchor, Open, RescueFold, Stream, Push, RecordPartial, Batch, RunTool, ToolReturns, Gate,
         Park, ResolveChannel, HandleApproval, RecordResult, Resume, DropCalls, Breaker, Finish,
         EmitTerminal, TaskFrame, stateVars
    <3> QED
      BY <2>3, <3>1, <3>2 DEF Effect, Moves, Moved
  <2> QED
    BY <2>1, <2>2, <2>3
<1>3. boot[t].pc = "done"
  BY <1>0, <1>2 DEF NotStarted
<1>4. /\ \A u \in Turn : Told(u) => Told(u)'
      /\ \A u \in Turn \ {t} : Told(u)' => Told(u) \/ u = task[t].tx
  <2>1. CASE out' = out
    BY <2>1 DEF Told
  <2>2. CASE TellsOn(t, task[t])
    BY <1>0, <2>2, Tellings DEF TellsOn, Told
  <2> QED
    BY <1>1, <2>1, <2>2 DEF Goes
<1>5. task[t].tx = t /\ TellsOn(t, task[t]) => Told(t)'
  BY <1>0, Tellings DEF TellsOn, Told
<1>6. current_turn_id = t => turn_budget.turn = t /\ turn_events = t
  BY <1>0, <1>3, TurnAssumption DEF LiveTurn
<1>7. ~Told(t) => /\ task[t].tx = t /\ task[t].pc \notin Ending
                  /\ task[t].pc \in Emitting \/ current_turn_id = t
  BY <1>0, <1>2 DEF TellsYet, Emitting
<1>8. OneBegins' /\ (restoring => current_turn_id = NoTurn)'
  BY <1>0, <1>2 DEF OneBegins, InFlight
<1>9. Handover'
  <2>1. CASE current_turn_id' = NoTurn
    BY <1>0, <1>2, <2>1 DEF Handover
  <2>2. CASE current_turn_id' = current_turn_id
    <3>1. ASSUME current_turn_id # NoTurn, cancelled[current_turn_id] /\ Told(current_turn_id)
          PROVE  (cancelled[current_turn_id] /\ Told(current_turn_id))'
      BY <1>0, <1>2, <1>4, <2>2, <3>1 DEF Told
    <3> QED
      BY <1>0, <1>2, <2>2, <3>1 DEF Handover
  <2> QED
    BY <1>2, <2>1, <2>2
<1>10. LosersAreWoken'
  <2>1. ASSUME NEW u \in Turn \ {t}, Working(u)', current_turn_id' # u
        PROVE  (cancelled[u] /\ \E v \in Turn \ {u} : boot[v].pc # "idle")'
    <3>1. Working(u) /\ current_turn_id # u
      BY <1>2, <2>1 DEF Working
    <3> QED
      BY <1>0, <1>2, <3>1 DEF LosersAreWoken
  <2>2. ASSUME Working(t)', current_turn_id' # t
        PROVE  (cancelled[t] /\ \E v \in Turn \ {t} : boot[v].pc # "idle")'
    <3>1. ~Finish(t) /\ current_turn_id # t
      BY <1>2, <2>2 DEF Working, Emitting
    <3>2. Working(t)
      BY <1>1, <2>2, <3>1 DEF Goes, Working, Emitting
    <3> QED
      BY <1>0, <1>2, <3>1, <3>2 DEF LosersAreWoken
  <2> QED
    BY <2>1, <2>2 DEF LosersAreWoken
<1>11. TellsYet'
  <2>1. ASSUME NEW u \in Turn \ {t}, task'[u].pc # "none", ~Told(u)'
        PROVE  /\ task'[u].tx = u /\ task'[u].pc \notin Ending
               /\ task'[u].pc \in {"emitC", "emitF"} \/ current_turn_id' = u
    BY <1>0, <1>2, <1>4, <2>1 DEF TellsYet
  <2>2. ASSUME ~Told(t)'
        PROVE  /\ task'[t].tx = t /\ task'[t].pc \notin Ending
               /\ task'[t].pc \in {"emitC", "emitF"} \/ current_turn_id' = t
    <3>1. /\ task[t].tx = t /\ task[t].pc \notin Ending /\ ~TellsOn(t, task[t])
          /\ task[t].pc \in Emitting \/ current_turn_id = t
      BY <1>4, <1>5, <1>7, <2>2
    <3>2. CASE task[t].pc \in Emitting
      BY <1>1, <3>1, <3>2 DEF Goes, Emitting, Working
    <3>3. CASE task[t].pc \notin Emitting
      <4>1. current_turn_id = t /\ ChannelOf(t) = t
        BY <1>6, <3>1, <3>3 DEF ChannelOf
      <4>2. \/ WorksOn(t) /\ ~Finish(t)
            \/ task'[t].pc = "answer" /\ task'[t].tx = t /\ ~Finish(t)
            \/ task'[t].pc \in Emitting /\ task'[t].tx = t
        <5>1. CASE Finish(t)
          <6>1. task[t].pc \in {"finC", "finF"}
            BY <1>2, <3>1, <5>1 DEF Ending
          <6>2. ~WorksOn(t)
            BY <1>2, <5>1 DEF WorksOn, Ending, Emitting
          <6> QED
            BY <1>1, <1>6, <3>1, <4>1, <6>1, <6>2 DEF Goes, Working, Ending, Emitting
        <5>2. CASE ~Finish(t)
          BY <1>1, <1>6, <3>1, <3>3, <4>1, <5>2 DEF Goes, Ending
        <5> QED
          BY <5>1, <5>2
      <4> QED
        BY <1>2, <3>1, <4>1, <4>2 DEF WorksOn, Ending, Emitting
    <3> QED
      BY <3>2, <3>3
  <2> QED
    BY <2>1, <2>2 DEF TellsYet
<1> QED
  BY <1>8, <1>9, <1>10, <1>11 DEF SerialInv

(* The live turn stays, tokens are only cancelled, outcomes only told. *)
LEMMA StillSerial ==
    ASSUME SerialInv, Inv', UNCHANGED <<current_turn_id, boot, out>>,
           \A u \in Turn : cancelled[u] => cancelled'[u],
           restoring' => current_turn_id = NoTurn,
           \A u \in Turn : task'[u] = task[u] \/
               (/\ task[u].pc = "parked" /\ task'[u].pc \in {"drop", "channel"}
                /\ task'[u].tx = task[u].tx \/ (task'[u].tx = turn_events))
    PROVE  SerialInv'
<1>0. /\ Inv /\ OneBegins /\ LosersAreWoken /\ Handover /\ TellsYet /\ LiveTurn /\ NotStarted
      /\ current_turn_id \in Turn \cup {NoTurn}
  BY DEF SerialInv, Inv, TypeOK, StateType
<1>1. OneBegins'
  BY <1>0 DEF OneBegins, InFlight
<1>2. \A u \in Turn : Working(u)' => Working(u)
  BY DEF Working
<1>3. LosersAreWoken'
  BY <1>0, <1>2 DEF LosersAreWoken
<1>4. Handover'
  <2>1. current_turn_id # NoTurn /\ cancelled[current_turn_id] /\ Told(current_turn_id)
          => (cancelled[current_turn_id] /\ Told(current_turn_id))'
    BY <1>0 DEF Told
  <2> QED
    BY <1>0, <2>1 DEF Handover
<1>5. TellsYet'
  <2> SUFFICES ASSUME NEW u \in Turn, task'[u].pc # "none", ~Told(u)
               PROVE  /\ task'[u].tx = u /\ task'[u].pc \notin Ending
                      /\ task'[u].pc \in {"emitC", "emitF"} \/ current_turn_id = u
    BY DEF TellsYet, Told
  <2>1. /\ task[u].tx = u /\ task[u].pc \notin Ending
        /\ task[u].pc \in {"emitC", "emitF"} \/ current_turn_id = u
    BY <1>0 DEF TellsYet
  <2>2. CASE task'[u] = task[u]
    BY <2>1, <2>2
  <2>3. CASE task'[u] # task[u]
    <3>1. /\ task[u].pc = "parked" /\ task'[u].pc \in {"drop", "channel"} /\ current_turn_id = u
          /\ task'[u].tx = task[u].tx \/ task'[u].tx = turn_events
      BY <2>1, <2>3
    <3>2. turn_events = u
      BY <1>0, <3>1 DEF LiveTurn, NotStarted
    <3> QED
      BY <2>1, <3>1, <3>2 DEF Ending
  <2> QED
    BY <2>2, <2>3
<1> QED
  BY <1>1, <1>3, <1>4, <1>5 DEF SerialInv

LEMMA CancelMoves ==
    ASSUME Inv, CancelInner
    PROVE  /\ \A u \in Turn : cancelled[u] => cancelled'[u]
           /\ \A u \in Turn : task'[u] = task[u] \/
               (/\ task[u].pc = "parked" /\ task'[u].pc \in {"drop", "channel"}
                /\ task'[u].tx = task[u].tx \/ (task'[u].tx = turn_events))
<1>1. \A u \in Turn : cancelled[u] => cancelled'[u]
  BY DEF Inv, CancelInner, CancelToken, TypeOK, StateType
<1>2. ASSUME NEW u \in Turn, u = pending.turn
      PROVE  task[u].pc = "parked" /\ task'[u].pc = "drop" /\ task'[u].tx = turn_events
  <2>1. task'[u] = [Dropping(task[u]) EXCEPT !.tx = turn_events]
    BY <1>2 DEF CancelInner
  <2> QED
    BY <1>2, <2>1 DEF Inv, ParkedWaits, Dropping, Fresh
<1>3. \A u \in Turn : u # pending.turn => task'[u] = task[u]
  BY DEF CancelInner
<1> QED
  BY <1>1, <1>2, <1>3

LEMMA FrontSerial ==
    ASSUME SerialInv, Inv', FrontEnd
    PROVE  SerialInv'
<1>0. Inv /\ (restoring => current_turn_id = NoTurn)
  BY DEF SerialInv
<1>1. CASE CancelTurn
  <2>1. UNCHANGED <<current_turn_id, boot, out, restoring>> /\ CancelInner
    BY <1>1 DEF CancelTurn, turnVars, seenVars
  <2> QED
    BY <1>0, <2>1, CancelMoves, StillSerial
<1>2. CASE SteerUser \/ RestoreBegin \/ RestoreEnd
  <2>1. UNCHANGED <<current_turn_id, boot, out, cancelled, task>>
    BY <1>2 DEF SteerUser, RestoreBegin, RestoreEnd, turnVars, ownVars, taskVars, seenVars
  <2>2. restoring' => current_turn_id = NoTurn
    BY <1>0, <1>2 DEF SteerUser, RestoreBegin, RestoreEnd, RestoreRefused
  <2> QED
    BY <2>1, <2>2, StillSerial
<1>3. ASSUME NEW t \in Turn, HandleFlip(t)
      PROVE  SerialInv'
  <2>1. UNCHANGED <<current_turn_id, boot, out, restoring, task>>
    BY <1>3 DEF HandleFlip, turnVars, seenVars
  <2>2. \A u \in Turn : cancelled[u] => cancelled'[u]
    BY <1>0, <1>3 DEF HandleFlip, Inv, TypeOK, StateType
  <2> QED
    BY <1>0, <2>1, <2>2, StillSerial
<1>4. ASSUME NEW t \in Turn, HandleCancelIf(t)
      PROVE  SerialInv'
  <2>1. UNCHANGED <<current_turn_id, boot, out, restoring>>
    BY <1>4 DEF HandleCancelIf, turnVars, seenVars
  <2>2. CASE current_turn_id = t
    <3>1. CancelInner
      BY <1>4, <2>2 DEF HandleCancelIf
    <3> QED
      BY <1>0, <2>1, <3>1, CancelMoves, StillSerial
  <2>3. CASE current_turn_id # t
    <3>1. UNCHANGED <<cancelled, task>>
      BY <1>4, <2>3 DEF HandleCancelIf
    <3> QED
      BY <1>0, <2>1, <3>1, StillSerial
  <2> QED
    BY <2>2, <2>3
<1>5. ASSUME NEW a \in raised, NEW d \in {"approved", "denied"}, SubmitApproval(a, d)
      PROVE  SerialInv'
  <2>1. a.turn \in Turn /\ pending.turn = a.turn /\ task[a.turn].pc = "parked"
    BY <1>0, <1>5 DEF SubmitApproval, AnswersPending, Inv, TypeOK, SeenType, ParkedWaits
  <2>2. UNCHANGED <<current_turn_id, boot, out, restoring, cancelled>>
    BY <1>5 DEF SubmitApproval, turnVars, ownVars, TaskFrame
  <2>3. Moved(a.turn, "channel", task[a.turn].tx)
    <3>1. TypeOK
      BY <1>0 DEF Inv
    <3> QED
      BY <1>5, <2>1, <3>1, TaskFields DEF SubmitApproval, Become, Moved, Task
  <2> QED
    BY <1>0, <2>1, <2>2, <2>3, StillSerial DEF Moved
<1> QED
  BY <1>1, <1>2, <1>3, <1>4, <1>5 DEF FrontEnd

LEMMA InitSerial ==
    ASSUME Init
    PROVE  SerialInv
<1>1. Inv
  BY InitInv
<1>2. /\ \A t \in Turn : boot[t].pc = "idle" /\ task[t].pc = "none"
      /\ restoring = FALSE
  BY DEF Init, Fresh
<1>3. OneBegins /\ LosersAreWoken /\ Handover /\ TellsYet
  BY <1>2 DEF OneBegins, InFlight, LosersAreWoken, Working, Handover, TellsYet
<1> QED
  BY <1>1, <1>2, <1>3 DEF SerialInv

LEMMA NextSerial ==
    ASSUME SerialCallers, SerialInv, [Next]_vars
    PROVE  SerialInv'
<1>0. Inv /\ Inv' /\ (restoring => current_turn_id = NoTurn)
  BY NextInv DEF SerialInv
<1>1. ASSUME NEW t \in Turn, EmitAsk(t)
      PROVE  SerialInv'
  BY <1>0, <1>1, StillSerial DEF EmitAsk, stateVars, seenVars
<1>2. CASE UNCHANGED vars
  BY <1>0, <1>2, StillSerial DEF vars, stateVars, taskVars, seenVars
<1>3. ASSUME NEW t \in Turn, BootStep(t)
      PROVE  SerialInv'
  BY <1>0, <1>3, BeginSerial, OrphanSerial, InstallSerial, DriveSerial DEF BootStep
<1> QED
  BY <1>0, <1>1, <1>2, <1>3, TaskSerial, FrontSerial DEF Next

-----------------------------------------------------------------------------
(* The order of a transcript *)

(* The entry is the same one, or the same with another result. *)
Same(e, f) ==
    /\ e.turn = f.turn /\ e.kind = f.kind /\ e.of = f.of
    /\ e.kind = "notice" => e = f

(* fs is es with n entries of turn t put in after place at. *)
Puts(es, fs, at, n, t) ==
    /\ Len(fs) = Len(es) + n
    /\ \A m \in 1..at : Same(es[m], fs[m])
    /\ \A m \in at+1..Len(es) : Same(es[m], fs[m + n])
    /\ \A m \in at+1..at+n : /\ fs[m].turn \in {t, NoTurn}
                             /\ fs[m].turn = NoTurn => fs[m].kind = "notice"

(* Entries put in among those of their turn leave every turn together. *)
LEMMA PutsWithin ==
    ASSUME NEW es \in Seq(Entry), NEW fs \in Seq(Entry), NEW t \in Turn,
           NEW at \in Nat, at <= Len(es), NEW n \in Nat, Puts(es, fs, at, n, t),
           n = 0 \/ (at \in 1..Len(es) /\ Within(es, at, t)),
           NEW u \in Turn, NEW k \in 1..Len(es), Within(es, k, u)
    PROVE  Within(fs, IF k <= at THEN k ELSE k + n, u)
<1>0. Len(es) \in Nat /\ NoTurn \notin Turn /\ Len(fs) = Len(es) + n
  BY TurnAssumption DEF Puts
<1>t. /\ \A m \in 1..at : fs[m].turn = es[m].turn
      /\ \A m \in at+1..Len(es) : fs[m + n].turn = es[m].turn
      /\ \A m \in at+1..at+n : fs[m].turn \in {t, NoTurn}
  BY DEF Puts, Same
<1>1. PICK j \in 1..k : es[j].turn = u /\ \A m \in j..k : es[m].turn \in {u, NoTurn}
  BY DEF Within
<1>2. CASE k <= at
  <2>1. j \in 1..k /\ fs[j].turn = u /\ \A m \in j..k : fs[m].turn \in {u, NoTurn}
    BY SMTT(30), <1>0, <1>t, <1>1, <1>2
  <2> QED
    BY <1>2, <2>1 DEF Within
<1>3. CASE k > at /\ j > at
  <2>1. j + n \in 1..(k + n) /\ fs[j + n].turn = u
    BY <1>0, <1>t, <1>1, <1>3
  <2>2. ASSUME NEW m \in (j + n)..(k + n)
        PROVE  fs[m].turn \in {u, NoTurn}
    <3>1. m - n \in j..k /\ m - n \in at+1..Len(es) /\ (m - n) + n = m
      BY <1>0, <1>1, <1>3, <2>2
    <3> QED
      BY <1>t, <1>1, <3>1
  <2> QED
    BY <1>3, <2>1, <2>2 DEF Within
<1>4. CASE k > at /\ j <= at
  <2>1. n = 0 \/ u = t
    <3> SUFFICES ASSUME n # 0, u # t
                 PROVE  FALSE
      OBVIOUS
    <3>1. at \in 1..Len(es) /\ Within(es, at, t)
      OBVIOUS
    <3>2. PICK i \in 1..at : es[i].turn = t /\ \A m \in i..at : es[m].turn \in {t, NoTurn}
      BY <3>1 DEF Within
    <3>3. CASE i >= j
      BY <1>0, <1>1, <1>4, <3>2, <3>3
    <3>4. CASE i < j
      BY <1>0, <1>1, <1>4, <3>2, <3>4
    <3> QED
      BY <3>3, <3>4
  <2>2. j \in 1..(k + n) /\ fs[j].turn = u
    BY <1>0, <1>t, <1>1, <1>4
  <2>3. ASSUME NEW m \in j..(k + n)
        PROVE  fs[m].turn \in {u, NoTurn}
    <3>1. CASE m <= at
      <4>1. m \in 1..at /\ m \in j..k
        BY <1>0, <1>1, <1>4, <3>1
      <4>2. fs[m].turn = es[m].turn
        BY <1>t, <4>1
      <4> QED
        BY <1>1, <4>1, <4>2
    <3>2. CASE m > at /\ m <= at + n
      BY <1>0, <1>t, <2>1, <3>2
    <3>3. CASE m > at + n
      <4>1. m - n \in j..k /\ m - n \in at+1..Len(es) /\ (m - n) + n = m
        BY <1>0, <1>1, <1>4, <3>3
      <4> QED
        BY <1>t, <1>1, <4>1
    <3> QED
      BY <3>1, <3>2, <3>3
  <2> QED
    BY <1>4, <2>2, <2>3 DEF Within
<1> QED
  BY <1>2, <1>3, <1>4

LEMMA PutsNew ==
    ASSUME NEW es \in Seq(Entry), NEW fs \in Seq(Entry), NEW t \in Turn,
           NEW at \in 1..Len(es), NEW n \in Nat, Puts(es, fs, at, n, t), Within(es, at, t),
           NEW k \in at..(at + n)
    PROVE  Within(fs, k, t)
<1>0. Len(es) \in Nat /\ at \in Nat
  OBVIOUS
<1>t. /\ \A m \in 1..at : fs[m].turn = es[m].turn
      /\ \A m \in at+1..at+n : fs[m].turn \in {t, NoTurn}
  BY DEF Puts, Same
<1>1. PICK j \in 1..at : es[j].turn = t /\ \A m \in j..at : es[m].turn \in {t, NoTurn}
  BY DEF Within
<1>2. j \in 1..k /\ fs[j].turn = t
  BY <1>0, <1>t, <1>1
<1>3. ASSUME NEW m \in j..k
      PROVE  fs[m].turn \in {t, NoTurn}
  <2>1. CASE m <= at
    <3>1. m \in 1..at /\ m \in j..at
      BY <1>0, <1>1, <2>1
    <3> QED
      BY <1>t, <1>1, <3>1
  <2>2. CASE m > at
    <3>1. m \in at+1..at+n
      BY <1>0, <1>1, <2>2
    <3> QED
      BY <1>t, <3>1
  <2> QED
    BY <1>0, <1>1, <2>1, <2>2
<1> QED
  BY <1>2, <1>3 DEF Within

LEMMA PutsContiguous ==
    ASSUME NEW es \in Seq(Entry), NEW fs \in Seq(Entry), NEW t \in Turn,
           NEW at \in Nat, at <= Len(es), NEW n \in Nat, Puts(es, fs, at, n, t),
           n = 0 \/ (at \in 1..Len(es) /\ Within(es, at, t)), Contiguous(es)
    PROVE  Contiguous(fs)
<1>0. Len(es) \in Nat /\ NoTurn \notin Turn /\ Len(fs) = Len(es) + n
  BY TurnAssumption DEF Puts
<1>t. /\ \A m \in 1..at : fs[m].turn = es[m].turn
      /\ \A m \in at+1..Len(es) : fs[m + n].turn = es[m].turn
      /\ \A m \in at+1..at+n : fs[m].turn \in {t, NoTurn}
  BY DEF Puts, Same
<1> DEFINE from(m) == IF m <= at THEN m ELSE m - n
           New == at+1..at+n
<1>f. \A m \in (1..Len(fs)) \ New : from(m) \in 1..Len(es) /\ fs[m].turn = es[from(m)].turn
  <2> SUFFICES ASSUME NEW m \in (1..Len(fs)) \ New
               PROVE  from(m) \in 1..Len(es) /\ fs[m].turn = es[from(m)].turn
    OBVIOUS
  <2>1. CASE m <= at
    BY <1>0, <1>t, <2>1
  <2>2. CASE m > at + n
    <3>1. m - n \in at+1..Len(es) /\ (m - n) + n = m
      BY <1>0, <2>2
    <3> QED
      BY <1>0, <1>t, <2>2, <3>1
  <2> QED
    BY <1>0, <2>1, <2>2
<1>m. \A a, b \in (1..Len(fs)) \ New : a <= b => from(a) <= from(b) /\ (a < b => from(a) < from(b))
  BY <1>0
<1>b. \A m \in (1..Len(fs)) \ New : (m <= at => from(m) = m) /\ (m > at + n => from(m) = m - n /\ from(m) > at)
  BY <1>0
<1>c. \A a, b, m \in 1..Len(es) : a <= m /\ m <= b /\ es[a].turn = es[b].turn /\ es[a].turn # NoTurn
         => es[m].turn \in {es[a].turn, NoTurn}
  <2> SUFFICES ASSUME NEW a \in 1..Len(es), NEW b \in 1..Len(es), NEW m \in 1..Len(es),
                      a <= m, m <= b, es[a].turn = es[b].turn, es[a].turn # NoTurn
               PROVE  es[m].turn \in {es[a].turn, NoTurn}
    OBVIOUS
  <2>1. CASE a = b
    BY <1>0, <2>1
  <2>2. CASE a < b
    BY <1>0, <2>2 DEF Contiguous
  <2> QED
    BY <1>0, <2>1, <2>2
<1> HIDE DEF from
<1> SUFFICES ASSUME NEW a \in 1..Len(fs), NEW b \in 1..Len(fs), a < b,
                    fs[a].turn = fs[b].turn, fs[a].turn # NoTurn, NEW m \in a..b
             PROVE  fs[m].turn \in {fs[a].turn, NoTurn}
  BY DEF Contiguous
<1>1. m \in 1..Len(fs) /\ a <= m /\ m <= b
  BY <1>0
<1>2. CASE a \notin New /\ b \notin New /\ m \notin New
  <2>1. from(a) <= from(m) /\ from(m) <= from(b)
    BY <1>1, <1>2, <1>m
  <2>2. /\ from(a) \in 1..Len(es) /\ from(b) \in 1..Len(es) /\ from(m) \in 1..Len(es)
        /\ es[from(a)].turn = fs[a].turn /\ es[from(b)].turn = fs[b].turn
        /\ es[from(m)].turn = fs[m].turn
    BY <1>1, <1>2, <1>f
  <2>3. es[from(m)].turn \in {es[from(a)].turn, NoTurn}
    BY <1>c, <2>1, <2>2
  <2> QED
    BY <2>2, <2>3
<1>3. CASE a \in New \/ b \in New \/ m \in New
  <2>1. at \in 1..Len(es) /\ Within(es, at, t)
    BY <1>0, <1>1, <1>3
  <2>2. PICK i \in 1..at : es[i].turn = t /\ \A x \in i..at : es[x].turn \in {t, NoTurn}
    BY <2>1 DEF Within
  <2>3. CASE a \in New \/ b \in New
    <3>1. fs[a].turn = t /\ fs[b].turn = t
      BY <1>t, <2>3
    <3>2. CASE m \in New
      BY <1>t, <3>1, <3>2
    <3>3. CASE m \notin New /\ m <= at
      <4>1. a \notin New /\ a <= at /\ b > at
        BY <1>0, <1>1, <2>1, <2>3, <3>3
      <4>2. from(a) = a /\ from(m) = m /\ es[a].turn = t /\ fs[m].turn = es[m].turn
        BY <1>1, <1>f, <1>b, <3>1, <3>3, <4>1
      <4>3. CASE m >= i
        BY <1>0, <2>1, <2>2, <3>1, <3>3, <4>2, <4>3
      <4>4. CASE m < i
        <5>1. a \in 1..Len(es) /\ m \in 1..Len(es) /\ i \in 1..Len(es) /\ a <= m /\ m <= i
          BY <1>0, <1>1, <2>1, <2>2, <3>3, <4>4
        <5> QED
          BY <1>0, <1>c, <2>2, <3>1, <4>2, <5>1
      <4> QED
        BY <1>0, <1>1, <2>2, <4>3, <4>4
    <3>4. CASE m \notin New /\ m > at
      <4>1. m > at + n /\ b \notin New /\ b > at + n
        BY <1>0, <1>1, <2>1, <3>4
      <4>2. from(b) \in 1..Len(es) /\ from(m) \in 1..Len(es) /\ from(m) <= from(b) /\ from(m) > at
        BY <1>1, <1>f, <1>m, <1>b, <3>4, <4>1
      <4>3. es[from(b)].turn = t /\ fs[m].turn = es[from(m)].turn
        BY <1>1, <1>f, <3>1, <3>4, <4>1
      <4>4. i \in 1..Len(es) /\ i <= from(m)
        BY <1>0, <2>1, <2>2, <4>2
      <4> QED
        BY <1>0, <1>c, <2>2, <3>1, <4>2, <4>3, <4>4
    <3> QED
      BY <1>0, <1>1, <2>1, <3>2, <3>3, <3>4
  <2>4. CASE a \notin New /\ b \notin New /\ m \in New
    <3>1. a <= at /\ b > at + n
      BY <1>0, <1>1, <2>1, <2>4
    <3>2. from(a) = a /\ from(b) > at /\ from(b) \in 1..Len(es) /\ es[a].turn = fs[a].turn /\ es[from(b)].turn = fs[a].turn
      BY <1>f, <1>b, <2>4, <3>1
    <3>3. es[i].turn = t /\ i \in 1..Len(es) /\ i <= from(b) /\ a \in 1..Len(es)
      BY <1>0, <2>1, <2>2, <3>1, <3>2
    <3>4. fs[a].turn = t
      <4>1. CASE i >= a
        BY <1>0, <1>c, <3>2, <3>3, <4>1
      <4>2. CASE i < a
        BY <1>0, <2>2, <3>1, <3>2, <4>2
      <4> QED
        BY <1>0, <2>1, <2>2, <4>1, <4>2
    <3> QED
      BY <1>t, <2>4, <3>4
  <2> QED
    BY <1>3, <2>3, <2>4
<1> QED
  BY <1>2, <1>3

(* The notices of a sequence that only gets other entries are the same. *)
LEMMA PutsNotices ==
    ASSUME NEW es \in Seq(Entry), NEW fs \in Seq(Entry), NEW t \in Turn,
           NEW at \in Nat, at <= Len(es), NEW n \in Nat, Puts(es, fs, at, n, t),
           \A m \in at+1..at+n : fs[m].kind # "notice", AtMostOne(es)
    PROVE  AtMostOne(fs) /\ \A u : NoticeOf(fs, u) => NoticeOf(es, u)
<1>0. Len(es) \in Nat /\ Len(fs) = Len(es) + n
  BY DEF Puts
<1> DEFINE from(m) == IF m <= at THEN m ELSE m - n
<1>f. ASSUME NEW m \in 1..Len(fs), fs[m].kind = "notice"
      PROVE  /\ from(m) \in 1..Len(es) /\ es[from(m)].kind = "notice" /\ es[from(m)].of = fs[m].of
             /\ m <= at \/ m > at + n
  <2>1. CASE m <= at
    BY <1>0, <1>f, <2>1 DEF Puts, Same
  <2>2. CASE m > at
    <3>1. m > at + n
      BY <1>0, <1>f, <2>2
    <3>2. m - n \in at+1..Len(es) /\ (m - n) + n = m
      BY <1>0, <3>1
    <3>3. Same(es[m - n], fs[m])
      BY <3>2 DEF Puts
    <3> QED
      BY <1>0, <1>f, <3>1, <3>2, <3>3, <2>2 DEF Same
  <2> QED
    BY <1>0, <2>1, <2>2
<1>1. ASSUME NEW a \in 1..Len(fs), NEW b \in 1..Len(fs),
             fs[a].kind = "notice", fs[b].kind = "notice", fs[a].of = fs[b].of
      PROVE  a = b
  <2>1. from(a) = from(b)
    <3> HIDE DEF from
    <3> QED
      BY <1>1, <1>f DEF AtMostOne
  <2>2. (a <= at \/ a > at + n) /\ (b <= at \/ b > at + n)
    BY <1>1, <1>f
  <2> QED
    BY <1>0, <2>1, <2>2
<1>2. ASSUME NEW u, NoticeOf(fs, u)
      PROVE  NoticeOf(es, u)
  <2>1. PICK m \in 1..Len(fs) : fs[m].kind = "notice" /\ fs[m].of = u
    BY <1>2 DEF NoticeOf
  <2> HIDE DEF from
  <2> QED
    BY <1>f, <2>1 DEF NoticeOf
<1> QED
  BY <1>1, <1>2 DEF AtMostOne

LEMMA PutsFiled ==
    ASSUME NEW es \in Seq(Entry), NEW fs \in Seq(Entry), NEW t \in Turn,
           NEW at \in Nat, at <= Len(es), NEW n \in Nat, Puts(es, fs, at, n, t), Filed(es)
    PROVE  Filed(fs)
<1>0. Len(es) \in Nat /\ Len(fs) = Len(es) + n
  BY DEF Puts
<1> SUFFICES ASSUME NEW m \in 1..Len(fs), fs[m].turn = NoTurn
             PROVE  fs[m].kind = "notice"
  BY DEF Filed
<1>1. CASE m <= at
  BY <1>0, <1>1 DEF Puts, Same, Filed
<1>2. CASE m > at /\ m <= at + n
  BY <1>0, <1>2 DEF Puts
<1>3. CASE m > at + n
  <2>1. m - n \in at+1..Len(es) /\ (m - n) + n = m
    BY <1>0, <1>3
  <2>2. Same(es[m - n], fs[m])
    BY <2>1 DEF Puts
  <2> QED
    BY <2>1, <2>2 DEF Same, Filed
<1> QED
  BY <1>0, <1>1, <1>2, <1>3

(* The notice that stands at place k of es stands in fs, too. *)
LEMMA PutsKeeps ==
    ASSUME NEW es \in Seq(Entry), NEW fs \in Seq(Entry), NEW t \in Turn,
           NEW at \in Nat, at <= Len(es), NEW n \in Nat, Puts(es, fs, at, n, t),
           NEW k \in 1..Len(es), es[k].kind = "notice"
    PROVE  /\ (IF k <= at THEN k ELSE k + n) \in 1..Len(fs)
           /\ fs[IF k <= at THEN k ELSE k + n] = es[k]
<1>0. Len(es) \in Nat /\ Len(fs) = Len(es) + n
  BY DEF Puts
<1>1. CASE k <= at
  BY <1>0, <1>1 DEF Puts, Same
<1>2. CASE k > at
  <2>1. Same(es[k], fs[k + n])
    BY <1>0, <1>2 DEF Puts
  <2> QED
    BY <1>0, <1>2, <2>1 DEF Same
<1> QED
  BY <1>1, <1>2

-----------------------------------------------------------------------------
(* The edits of a transcript put entries in *)

LEMMA SamePuts ==
    ASSUME NEW es \in Seq(Entry), NEW t
    PROVE  Puts(es, es, Len(es), 0, t)
  BY DEF Puts, Same

LEMMA RecordedPuts ==
    ASSUME NEW es \in Seq(Entry), NEW t, NEW step, NEW k, NEW result \in Result
    PROVE  Puts(es, Recorded(es, t, step, k, result), Len(es), 0, t)
<1> DEFINE hit(i) == /\ IsNewest(es, i, {"assistant", "partial"})
                     /\ es[i].turn = t /\ es[i].n = step
                     /\ k \in DOMAIN es[i].res /\ es[i].res[k] = "pending"
           r(i) == IF hit(i) THEN [es[i] EXCEPT !.res[k] = result] ELSE es[i]
<1>1. ASSUME NEW i \in 1..Len(es)
      PROVE  Same(es[i], r(i))
  <2>1. es[i] \in Entry
    OBVIOUS
  <2>2. CASE hit(i)
    <3>1. es[i].kind \in {"assistant", "partial"}
      BY <2>2 DEF IsNewest
    <3>2. r(i) = [es[i] EXCEPT !.res = [es[i].res EXCEPT ![k] = result]]
      BY <2>2
    <3> HIDE DEF r, hit
    <3>3. r(i).turn = es[i].turn /\ r(i).kind = es[i].kind /\ r(i).of = es[i].of
      BY <2>1, <3>2 DEF Entry
    <3> QED
      BY <3>1, <3>3 DEF Same
  <2>3. CASE ~hit(i)
    BY <2>3 DEF Same
  <2> QED
    BY <2>2, <2>3
<1>2. Recorded(es, t, step, k, result) = [i \in 1..Len(es) |-> r(i)]
  BY DEF Recorded
<1> HIDE DEF r, hit
<1>3. Len(Recorded(es, t, step, k, result)) = Len(es) /\ Len(es) \in Nat
  BY <1>2
<1> QED
  BY <1>1, <1>2, <1>3 DEF Puts

LEMMA ConcatPuts ==
    ASSUME NEW es \in Seq(Entry), NEW add \in Seq(Entry), NEW t \in Turn,
           \A i \in 1..Len(add) : /\ add[i].turn \in {t, NoTurn}
                                  /\ add[i].turn = NoTurn => add[i].kind = "notice"
    PROVE  Puts(es, es \o add, Len(es), Len(add), t)
<1>1. /\ Len(es \o add) = Len(es) + Len(add) /\ Len(es) \in Nat /\ Len(add) \in Nat
      /\ \A i \in 1..Len(es) : (es \o add)[i] = es[i]
      /\ \A i \in Len(es)+1..Len(es)+Len(add) : (es \o add)[i] = add[i - Len(es)]
  BY ConcatProperties
<1>2. \A i \in Len(es)+1..Len(es)+Len(add) : i - Len(es) \in 1..Len(add)
  BY <1>1
<1> QED
  BY <1>1, <1>2 DEF Puts, Same

LEMMA AppendPuts ==
    ASSUME NEW es \in Seq(Entry), NEW e \in Entry, NEW t \in Turn, e.turn = t
    PROVE  /\ Puts(es, Append(es, e), Len(es), 1, t)
           /\ Append(es, e)[Len(es) + 1] = e
<1>1. /\ Len(Append(es, e)) = Len(es) + 1 /\ Len(es) \in Nat
      /\ \A i \in 1..Len(es) : Append(es, e)[i] = es[i]
      /\ Append(es, e)[Len(es) + 1] = e
  OBVIOUS
<1>2. \A i \in Len(es)+1..Len(es)+1 : i = Len(es) + 1
  BY <1>1
<1> QED
  BY <1>1, <1>2, TurnAssumption DEF Puts, Same

LEMMA SubSeqIs ==
    ASSUME NEW es \in Seq(Entry), NEW m \in Nat, NEW n \in Nat, 1 <= m, n <= Len(es), m <= n + 1
    PROVE  /\ SubSeq(es, m, n) \in Seq(Entry) /\ Len(SubSeq(es, m, n)) = n - m + 1
           /\ \A i \in 1..n - m + 1 : SubSeq(es, m, n)[i] = es[m + i - 1]
<1>1. m \in Int /\ n \in Int /\ \A i \in m..n : es[i] \in Entry
  BY Len(es) \in Nat
<1>2. /\ SubSeq(es, m, n) \in Seq(Entry)
      /\ Len(SubSeq(es, m, n)) = (IF m <= n THEN n - m + 1 ELSE 0)
      /\ \A i \in 1..n - m + 1 : SubSeq(es, m, n)[i] = es[m + i - 1]
  BY <1>1, SubSeqProperties
<1>3. (IF m <= n THEN n - m + 1 ELSE 0) = n - m + 1
  OBVIOUS
<1> QED
  BY <1>2, <1>3

LEMMA InsertPuts ==
    ASSUME NEW es \in Seq(Entry), NEW anchor, NEW e \in Entry, NEW t \in Turn, e.turn = t,
           e.kind # "notice"
    PROVE  \/ InsertAfter(es, anchor, e) = es
           \/ \E at \in 1..Len(es) :
                /\ es[at] = anchor
                /\ Puts(es, InsertAfter(es, anchor, e), at, 1, t)
                /\ InsertAfter(es, anchor, e)[at + 1].kind # "notice"
<1>1. CASE ~ \E i \in 1..Len(es) : es[i] = anchor
  BY <1>1 DEF InsertAfter
<1>2. CASE \E i \in 1..Len(es) : es[i] = anchor
  <2> DEFINE at == CHOOSE i \in 1..Len(es) : es[i] = anchor
             fs == SubSeq(es, 1, at) \o <<e>> \o SubSeq(es, at + 1, Len(es))
  <2>1. at \in 1..Len(es) /\ es[at] = anchor
    BY <1>2
  <2>2. InsertAfter(es, anchor, e) = fs
    BY <1>2 DEF InsertAfter
  <2> HIDE DEF at
  <2> DEFINE l == SubSeq(es, 1, at)
             r == SubSeq(es, at + 1, Len(es))
  <2>0. at \in Nat /\ Len(es) \in Nat /\ 1 <= at /\ at <= Len(es)
    BY <2>1
  <2>3. /\ l \in Seq(Entry) /\ Len(l) = at /\ \A i \in 1..at : l[i] = es[i]
    <3>1. 1 \in Nat /\ 1 <= 1 /\ at <= Len(es) /\ 1 <= at + 1 /\ at - 1 + 1 = at
      BY <2>0
    <3>2. /\ SubSeq(es, 1, at) \in Seq(Entry) /\ Len(SubSeq(es, 1, at)) = at - 1 + 1
          /\ \A i \in 1..at - 1 + 1 : SubSeq(es, 1, at)[i] = es[1 + i - 1]
      BY <2>0, <3>1, SubSeqIs
    <3>3. \A i \in 1..at : 1 + i - 1 = i
      BY <2>0
    <3> QED
      BY <3>1, <3>2, <3>3
  <2>4. /\ r \in Seq(Entry) /\ Len(r) = Len(es) - at
        /\ \A i \in 1..Len(es) - at : r[i] = es[at + i]
    <3>1. /\ at + 1 \in Nat /\ 1 <= at + 1 /\ at + 1 <= Len(es) + 1
          /\ Len(es) - (at + 1) + 1 = Len(es) - at
      BY <2>0
    <3>2. /\ SubSeq(es, at + 1, Len(es)) \in Seq(Entry)
          /\ Len(SubSeq(es, at + 1, Len(es))) = Len(es) - (at + 1) + 1
          /\ \A i \in 1..Len(es) - (at + 1) + 1 : SubSeq(es, at + 1, Len(es))[i] = es[at + 1 + i - 1]
      <4> DEFINE a == at + 1
                 n == Len(es)
      <4>1. a \in Nat /\ n \in Nat /\ 1 <= a /\ a <= n + 1 /\ n <= Len(es)
        BY <2>0, <3>1
      <4> HIDE DEF a, n
      <4>2. /\ SubSeq(es, a, n) \in Seq(Entry) /\ Len(SubSeq(es, a, n)) = n - a + 1
            /\ \A i \in 1..n - a + 1 : SubSeq(es, a, n)[i] = es[a + i - 1]
        BY <4>1, SubSeqIs
      <4> QED
        BY <4>2 DEF a, n
    <3>3. \A i \in 1..Len(es) - at : at + 1 + i - 1 = at + i
      BY <2>0
    <3> QED
      BY <3>1, <3>2, <3>3
  <2> HIDE DEF l, r
  <2>5. <<e>> \in Seq(Entry) /\ Len(<<e>>) = 1 /\ <<e>>[1] = e
    OBVIOUS
  <2>6. /\ l \o <<e>> \in Seq(Entry) /\ Len(l \o <<e>>) = at + 1
        /\ \A i \in 1..at : (l \o <<e>>)[i] = es[i]
        /\ (l \o <<e>>)[at + 1] = e
    BY <2>0, <2>3, <2>5, ConcatProperties
  <2> DEFINE le == l \o <<e>>
  <2> HIDE DEF le
  <2>7. /\ Len(le \o r) = Len(es) + 1
        /\ \A i \in 1..at : (le \o r)[i] = es[i]
        /\ (le \o r)[at + 1] = e
        /\ \A i \in at+2..Len(es)+1 : (le \o r)[i] = es[i - 1]
    <3>1. le \in Seq(Entry) /\ r \in Seq(Entry) /\ Len(le) = at + 1
      BY <2>4, <2>6 DEF le
    <3>2. /\ Len(le \o r) = Len(le) + Len(r)
          /\ \A i \in 1..Len(le) + Len(r) :
               (le \o r)[i] = IF i <= Len(le) THEN le[i] ELSE r[i - Len(le)]
      BY <3>1, ConcatProperties
    <3>3. \A i \in at+2..Len(es)+1 : i - (at + 1) \in 1..Len(es) - at /\ at + (i - (at + 1)) = i - 1
      BY <2>0
    <3>4. /\ \A i \in 1..at : le[i] = es[i]
          /\ le[at + 1] = e
      BY <2>6 DEF le
    <3>5. \A i \in at+2..Len(es)+1 : (le \o r)[i] = es[i - 1]
      <4> SUFFICES ASSUME NEW i \in at+2..Len(es)+1
                   PROVE  (le \o r)[i] = es[i - 1]
        OBVIOUS
      <4>1. i \in 1..Len(le) + Len(r) /\ ~(i <= Len(le))
        BY <2>0, <2>4, <3>1
      <4>2. (le \o r)[i] = r[i - (at + 1)]
        BY <3>1, <3>2, <4>1
      <4> QED
        BY <2>4, <3>3, <4>2
    <3>6. /\ \A i \in 1..at + 1 : (le \o r)[i] = le[i]
          /\ Len(le \o r) = Len(es) + 1
      BY <2>0, <2>4, <3>1, <3>2
    <3> QED
      BY <2>0, <3>4, <3>5, <3>6
  <2>8. fs = le \o r
    BY DEF le, l, r
  <2> HIDE DEF fs
  <2>9. Puts(es, fs, at, 1, t)
    <3>1. \A m \in at+1..Len(es) : m + 1 \in at+2..Len(es)+1 /\ (m + 1) - 1 = m
      BY <2>0
    <3>2. \A m \in at+1..Len(es) : fs[m + 1] = es[m]
      BY <2>7, <2>8, <3>1
    <3>3. \A m \in at+1..at+1 : m = at + 1
      BY <2>0
    <3> QED
      BY <2>0, <2>7, <2>8, <3>2, <3>3, TurnAssumption DEF Puts, Same
  <2> QED
    BY <2>1, <2>2, <2>7, <2>8, <2>9
<1> QED
  BY <1>1, <1>2

-----------------------------------------------------------------------------
(* Where the anchors and the notices of a task come from *)

Recording == {"stream", "push", "partialC", "partialE"}

Places(t) ==
    /\ task'[t].pc = "check" =>
         /\ SpendStep(t)
         /\ task'[t].due => turn_budget.turn = t /\ ~turn_budget.wrap_up_sent
    /\ task'[t].pc = "notice" => Check(t) /\ ~cancelled[t] /\ task[t].due
    /\ task'[t].pc = "open" => ReadAnchor(t)
    /\ task'[t].pc \in Recording => Anchors(t) /\ task'[t].anchor = task[t].anchor

LEMMA ElsewherePlaces ==
    ASSUME NEW t \in Turn, task'[t].pc \notin {"check", "notice", "open"} \cup Recording
    PROVE  Places(t)
  BY DEF Places

LEMMA LoopPlaces ==
    ASSUME TypeOK, NEW t \in Turn, LoopStep(t)
    PROVE  Places(t)
<1>0. task[t] \in Task /\ \A d : Become(t, d) => task'[t] = d
  BY TaskFields DEF Become
<1>e. \A pc : Leave(t, pc) => task'[t].pc = pc
  BY MoveIs DEF Moved
<1>g. \A pc : Goto(t, pc) => task'[t].pc = pc /\ task'[t].anchor = task[t].anchor
  BY <1>0 DEF Goto, Task
<1>d. End(t) => task'[t].pc = "done"
  BY MoveIs DEF Moved
<1>1. CASE Enter(t)
  <2>1. task'[t].pc \in {"check0", "done"}
    BY <1>1, <1>g, <1>d DEF Enter
  <2> QED
    BY <2>1, ElsewherePlaces DEF Recording
<1>2. CASE Check0(t)
  <2>1. task'[t].pc \in {"finC", "spend"}
    BY <1>2, <1>e DEF Check0
  <2> QED
    BY <2>1, ElsewherePlaces DEF Recording
<1>3. CASE SpendStep(t)
  <2>1. CASE task'[t].pc \in {"done", "abort"}
    BY <2>1, ElsewherePlaces DEF Recording
  <2>2. CASE task'[t].pc \notin {"done", "abort"}
    <3>1. turn_budget.turn = t /\ ~OverCap(turn_budget.steps + 1)
      BY <1>3, <2>2, <1>e, <1>d DEF SpendStep
    <3>2. task'[t] = [task[t] EXCEPT !.pc = "check", !.step = turn_budget.steps + 1,
                        !.rescued = turn_budget.overflow_rescued,
                        !.due = budget_wrap_up_due(turn_budget.steps + 1, StepCap, turn_budget.wrap_up_sent)]
      BY <1>0, <1>3, <3>1 DEF SpendStep
    <3>3. /\ task'[t].pc = "check"
          /\ task'[t].due = budget_wrap_up_due(turn_budget.steps + 1, StepCap, turn_budget.wrap_up_sent)
      BY <1>0, <3>2 DEF Task
    <3>4. task'[t].due => ~turn_budget.wrap_up_sent
      BY <3>3 DEF budget_wrap_up_due
    <3> QED
      BY <1>3, <3>1, <3>3, <3>4 DEF Places, Recording
  <2> QED
    BY <2>1, <2>2
<1>4. CASE Check(t)
  <2>1. CASE cancelled[t]
    BY <1>4, <1>e, <2>1, ElsewherePlaces DEF Check, Recording
  <2>2. CASE ~cancelled[t]
    <3>1. \A pc : LET d == [task[t] EXCEPT !.pc = pc, !.due = FALSE] IN d.pc = pc
      BY <1>0 DEF Task
    <3>2. task'[t].pc = IF task[t].due THEN "notice" ELSE "drain"
      BY <1>0, <1>4, <2>2, <3>1 DEF Check
    <3> QED
      BY <1>4, <2>2, <3>2 DEF Places, Recording
  <2> QED
    BY <2>1, <2>2
<1>5. CASE SteerNotice(t)
  BY <1>5, <1>g, ElsewherePlaces DEF SteerNotice, Recording
<1>6. CASE DrainSteering(t)
  BY <1>6, <1>g, ElsewherePlaces DEF DrainSteering, Recording
<1>7. CASE ReadAnchor(t)
  <2>1. task'[t].pc = "open"
    BY <1>0, <1>7 DEF ReadAnchor, Task
  <2> QED
    BY <1>7, <2>1 DEF Places, Recording
<1>8. CASE Open(t)
  <2>1. CASE \E pc \in {"finC", "rescue", "abort"} : Leave(t, pc)
    BY <1>e, <2>1, ElsewherePlaces DEF Recording
  <2>2. CASE ~cancelled[t] /\ Become(t, [task[t] EXCEPT !.pc = "stream", !.rescued = FALSE])
    <3>1. task'[t].pc = "stream" /\ task'[t].anchor = task[t].anchor
      BY <1>0, <2>2 DEF Task
    <3>2. Anchors(t)
      BY <1>8, <2>2 DEF Open, Anchors
    <3> QED
      BY <3>1, <3>2 DEF Places
  <2> QED
    BY <1>8, <2>1, <2>2 DEF Open
<1>9. CASE RescueFold(t)
  <2>1. task'[t].pc \in {"finC", "spend", "abort"}
    BY <1>9, <1>e DEF RescueFold
  <2> QED
    BY <2>1, ElsewherePlaces DEF Recording
<1>10. CASE Stream(t)
  <2>1. Anchors(t)
    BY <1>10 DEF Stream, Anchors
  <2>2. \A n : LET d == [task[t] EXCEPT !.pc = "push", !.n = n] IN d.pc = "push" /\ d.anchor = task[t].anchor
    BY <1>0 DEF Task
  <2>3. \/ task'[t].pc \in Recording /\ task'[t].anchor = task[t].anchor
        \/ task'[t].pc = "abort"
    BY <1>10, <1>0, <1>e, <1>g, <2>2 DEF Stream, Recording
  <2> QED
    BY <2>1, <2>3 DEF Places, Recording
<1>11. CASE Push(t)
  <2>1. Anchors(t)
    BY <1>11 DEF Push, Anchors
  <2>2. Become(t, [task[t] EXCEPT !.pc = "batch", !.anchor = NoEntry]) => task'[t].pc = "batch"
    BY <1>0 DEF Task
  <2>3. \/ task'[t].pc \in Recording /\ task'[t].anchor = task[t].anchor
        \/ task'[t].pc \in {"finF", "batch"}
    BY <1>11, <1>e, <1>g, <2>2 DEF Push, Recording
  <2> QED
    BY <2>1, <2>3 DEF Places, Recording
<1>12. CASE RecordPartial(t)
  <2>1. task'[t].pc \in {"finC", "abort"}
    BY <1>12, <1>e DEF RecordPartial
  <2> QED
    BY <2>1, ElsewherePlaces DEF Recording
<1> QED
  BY <1>1, <1>2, <1>3, <1>4, <1>5, <1>6, <1>7, <1>8, <1>9, <1>10, <1>11, <1>12 DEF LoopStep

LEMMA BatchPlaces ==
    ASSUME TypeOK, NEW t \in Turn, BatchStep(t)
    PROVE  Places(t)
<1>0. task[t] \in Task /\ \A d : Become(t, d) => task'[t] = d
  BY TaskFields DEF Become
<1>e. \A pc : Leave(t, pc) \/ Goto(t, pc) => task'[t].pc = pc
  BY MoveIs DEF Moved
<1>p. Become(t, Dropping(task[t])) => task'[t].pc = "drop"
  BY MoveIs DEF Moved
<1> SUFFICES task'[t].pc \notin {"check", "notice", "open"} \cup Recording
  BY ElsewherePlaces
<1> USE DEF Recording
<1>1. CASE Batch(t)
  <2>1. \A hi, at : Become(t, [task[t] EXCEPT !.pc = "run", !.hi = hi, !.at = at]) => task'[t].pc = "run"
    BY <1>0 DEF Task
  <2> QED
    BY <1>1, <1>e, <1>p, <2>1 DEF Batch
<1>2. CASE RunTool(t)
  <2>1. \A got : Become(t, [task[t] EXCEPT !.pc = "record", !.at = @ + 1, !.got = got]) => task'[t].pc = "record"
    BY <1>0 DEF Task
  <2>2. \A pc : Become(t, [task[t] EXCEPT !.at = @ + 1, !.pc = pc]) => task'[t].pc = pc
    BY <1>0 DEF Task
  <2>3. task'[t].pc \in {"record", "exec", "gate", "run"}
    BY <1>2, <1>e, <2>1, <2>2 DEF RunTool
  <2> QED
    BY <2>3
<1>3. CASE ToolReturns(t)
  <2>1. \A got : Become(t, [task[t] EXCEPT !.pc = "record", !.got = got]) => task'[t].pc = "record"
    BY <1>0 DEF Task
  <2> QED
    BY <1>3, <1>e, <2>1 DEF ToolReturns
<1>4. CASE Gate(t)
  <2>1. \A a : Become(t, [task[t] EXCEPT !.pc = "run", !.auth = a]) => task'[t].pc = "run"
    BY <1>0 DEF Task
  <2>2. \A g : Become(t, [task[t] EXCEPT !.pc = "record", !.at = @ + 1, !.got = g]) => task'[t].pc = "record"
    BY <1>0 DEF Task
  <2>3. \A a : Become(t, [task[t] EXCEPT !.pc = "park", !.ask = a]) => task'[t].pc = "park"
    BY <1>0 DEF Task
  <2> QED
    BY <1>4, <2>1, <2>2, <2>3 DEF Gate
<1>5. CASE Park(t)
  BY <1>5, <1>e, <1>p DEF Park
<1>6. CASE ResolveChannel(t)
  <2>1. task'[t].pc = "answer"
    BY <1>6, <1>0 DEF ResolveChannel, Task
  <2> QED
    BY <2>1
<1>7. CASE HandleApproval(t)
  <2>1. Become(t, [task[t] EXCEPT !.pc = "run", !.asked = TRUE, !.again = TRUE]) => task'[t].pc = "run"
    BY <1>0 DEF Task
  <2> QED
    BY <1>7, <1>p, <2>1 DEF HandleApproval
<1>8. CASE RecordResult(t)
  <2>1. \A pc \in {"resume", "batch"} : \A k, n, s, a :
          Become(t, [Fresh(pc, task[t].tx) EXCEPT !.k = k, !.n = n, !.step = s, !.again = a])
            => task'[t].pc = pc
    BY <1>0 DEF Fresh
  <2>2. Become(t, [task[t] EXCEPT !.k = @ + 1]) => task'[t].pc = task[t].pc
    BY <1>0 DEF Task
  <2>3. task'[t].pc \in {"resume", "batch", "record"}
    BY <1>8, <2>1, <2>2 DEF RecordResult
  <2> QED
    BY <2>3
<1>9. CASE Resume(t)
  BY <1>9, <1>e, <1>p DEF Resume
<1>10. CASE DropCalls(t)
  <2>1. Become(t, [task[t] EXCEPT !.k = @ + 1]) => task'[t].pc = task[t].pc
    BY <1>0 DEF Task
  <2>2. task'[t].pc \in {"drop", "finC"}
    BY <1>10, <1>e, <2>1 DEF DropCalls
  <2> QED
    BY <2>2
<1>11. CASE Breaker(t)
  <2>1. task'[t].pc \in {"abort", "entry", "spend"}
    BY <1>11, <1>e DEF Breaker
  <2> QED
    BY <2>1
<1> QED
  BY <1>1, <1>2, <1>3, <1>4, <1>5, <1>6, <1>7, <1>8, <1>9, <1>10, <1>11 DEF BatchStep

LEMMA TaskPlaces ==
    ASSUME TypeOK, NEW t \in Turn, TaskStep(t)
    PROVE  Places(t)
<1>1. CASE Finish(t) \/ EmitTerminal(t)
  <2>1. task'[t].pc \in {"emitC", "emitF", "done"}
    BY <1>1, MoveIs DEF Finish, EmitTerminal, Moved
  <2> QED
    BY <2>1, ElsewherePlaces DEF Recording
<1> QED
  BY <1>1, LoopPlaces, BatchPlaces DEF TaskStep

(* The budget's notice flag is only ever set, and set before the notice goes. *)
LEMMA FlagKept ==
    ASSUME TypeOK, NEW t \in Turn, TaskStep(t)
    PROVE  /\ turn_budget'.turn = turn_budget.turn
           /\ turn_budget.wrap_up_sent => turn_budget'.wrap_up_sent
           /\ Check(t) /\ ~cancelled[t] /\ task[t].due /\ turn_budget.turn = t => turn_budget'.wrap_up_sent
<1>0. turn_budget \in [turn : Turn \cup {NoTurn}, steps : Nat,
                       wrap_up_sent : BOOLEAN, overflow_rescued : BOOLEAN]
  BY DEF TypeOK, StateType
<1>1. turn_budget' = turn_budget \/ SpendStep(t) \/ Check(t) \/ Open(t)
  BY DEF TaskStep, LoopStep, BatchStep, Enter, Check0, SteerNotice, DrainSteering, ReadAnchor,
         RescueFold, Stream, Push, RecordPartial, Batch, RunTool, ToolReturns, Gate, Park,
         ResolveChannel, HandleApproval, RecordResult, Resume, DropCalls, Breaker, Finish,
         EmitTerminal, ownVars, stateVars
<1>2. Check(t) => turn_budget' = IF ~cancelled[t] /\ task[t].due /\ turn_budget.turn = t
                                 THEN [turn_budget EXCEPT !.wrap_up_sent = TRUE] ELSE turn_budget
  BY DEF Check
<1>3. CASE Check(t)
  BY <1>0, <1>2, <1>3
<1>4. CASE SpendStep(t) /\ ~Check(t)
  BY <1>0, <1>4 DEF SpendStep
<1>5. CASE Open(t) /\ ~Check(t)
  BY <1>0, <1>5 DEF Open
<1>6. CASE turn_budget' = turn_budget /\ ~Check(t)
  BY <1>6
<1> QED
  BY <1>1, <1>3, <1>4, <1>5, <1>6

(* A notice that was sent stays sent. *)
LEMMA UnsentKept ==
    ASSUME TypeOK, OneNotice, NEW t \in Turn, TaskStep(t), boot' = boot, boot[t].pc = "done",
           \A u \in Turn \ {t} : task'[u] = task[u]
    PROVE  /\ \A u \in Turn : Unsent(u)' => Unsent(u)
           /\ \A u \in Turn : task'[u].pc = "notice" /\ turn_budget'.turn = u => turn_budget'.wrap_up_sent
<1>1. Places(t)
  BY TaskPlaces
<1>2. /\ turn_budget'.turn = turn_budget.turn
      /\ turn_budget.wrap_up_sent => turn_budget'.wrap_up_sent
      /\ Check(t) /\ ~cancelled[t] /\ task[t].due /\ turn_budget.turn = t => turn_budget'.wrap_up_sent
  BY FlagKept
<1>3. ASSUME NEW u \in Turn \ {t}
      PROVE  /\ Unsent(u)' => Unsent(u)
             /\ task'[u].pc = "notice" /\ turn_budget'.turn = u => turn_budget'.wrap_up_sent
  BY <1>2, <1>3 DEF Unsent, OneNotice
<1>4. Unsent(t)' => Unsent(t)
  <2>1. CASE task'[t].pc = "notice"
    <3>1. task[t].pc = "check" /\ task[t].due
      BY <1>1, <2>1 DEF Places, Check
    <3> QED
      BY <3>1 DEF Unsent
  <2>2. CASE task'[t].pc = "check" /\ task'[t].due
    BY <1>1, <2>2 DEF Places, Unsent
  <2>3. CASE turn_budget'.turn = t /\ ~turn_budget'.wrap_up_sent
    BY <1>2, <2>3 DEF Unsent
  <2> QED
    BY <2>1, <2>2, <2>3 DEF Unsent
<1>5. task'[t].pc = "notice" /\ turn_budget'.turn = t => turn_budget'.wrap_up_sent
  BY <1>1, <1>2 DEF Places
<1> QED
  BY <1>3, <1>4, <1>5

-----------------------------------------------------------------------------
(* What a step may do to the transcript *)

(* fs is es with n entries of turn t put in among the turn's own. *)
Grows(es, fs, at, n, t) ==
    /\ at \in 0..Len(es) /\ n \in Nat /\ Puts(es, fs, at, n, t)
    /\ n = 0 \/ (at \in 1..Len(es) /\ Within(es, at, t))

LEMMA WithinOne ==
    ASSUME NEW es \in Seq(Entry), NEW k \in 1..Len(es), NEW t \in Turn, NEW u \in Turn,
           Within(es, k, t), Within(es, k, u)
    PROVE  t = u
<1>0. NoTurn \notin Turn /\ Len(es) \in Nat
  BY TurnAssumption
<1>1. PICK i \in 1..k : es[i].turn = t /\ \A m \in i..k : es[m].turn \in {t, NoTurn}
  BY DEF Within
<1>2. PICK j \in 1..k : es[j].turn = u /\ \A m \in j..k : es[m].turn \in {u, NoTurn}
  BY DEF Within
<1>3. CASE i <= j
  BY <1>0, <1>1, <1>2, <1>3
<1>4. CASE j <= i
  BY <1>0, <1>1, <1>2, <1>4
<1> QED
  BY <1>3, <1>4

LEMMA AnchorGrows ==
    ASSUME NEW es \in Seq(Entry), NEW fs \in Seq(Entry), NEW t \in Turn, NEW at, NEW n,
           Grows(es, fs, at, n, t), NEW u \in Turn, NEW a, AnchorAt(es, u, a)
    PROVE  AnchorAt(fs, u, a)
<1>1. CASE a.turn = u
  BY <1>1 DEF AnchorAt
<1>2. CASE a.turn # u
  <2>0. at \in Nat /\ at <= Len(es) /\ n \in Nat
    BY DEF Grows
  <2>1. PICK k \in 1..Len(es) : es[k] = a /\ Within(es, k, u) /\ a.kind = "notice"
    BY <1>2 DEF AnchorAt
  <2> DEFINE m == IF k <= at THEN k ELSE k + n
  <2>2. m \in 1..Len(fs) /\ fs[m] = a
    BY <2>0, <2>1, PutsKeeps DEF Grows
  <2>3. Within(fs, m, u)
    BY <2>0, <2>1, PutsWithin DEF Grows
  <2> QED
    BY <2>1, <2>2, <2>3 DEF AnchorAt
<1> QED
  BY <1>1, <1>2

LEMMA LastGrows ==
    ASSUME NEW es \in Seq(Entry), NEW fs \in Seq(Entry), NEW t \in Turn, NEW at, NEW n,
           Grows(es, fs, at, n, t), NEW u \in Turn, Within(es, Len(es), u)
    PROVE  Within(fs, Len(fs), u)
<1>0. /\ at \in Nat /\ at <= Len(es) /\ n \in Nat /\ Len(es) \in Nat /\ Len(fs) = Len(es) + n
      /\ Len(es) \in 1..Len(es)
  BY DEF Grows, Puts, Within
<1>1. Within(fs, IF Len(es) <= at THEN Len(es) ELSE Len(es) + n, u)
  BY <1>0, PutsWithin DEF Grows
<1>2. CASE n = 0 \/ at < Len(es)
  BY <1>0, <1>1, <1>2
<1>3. CASE n # 0 /\ at = Len(es)
  <2>1. at \in 1..Len(es) /\ Within(es, at, t) /\ Puts(es, fs, at, n, t)
    BY <1>3 DEF Grows
  <2>2. t = u
    BY <1>3, <2>1, WithinOne
  <2>3. at + n \in at..(at + n) /\ Len(fs) = at + n
    BY <1>0, <1>3
  <2>4. Within(fs, at + n, t)
    BY <1>0, <2>1, <2>3, PutsNew
  <2> QED
    BY <2>2, <2>3, <2>4
<1> QED
  BY <1>0, <1>2, <1>3

(* The order of the transcript survives entries put in where they belong. *)
LEMMA OrderGrows ==
    ASSUME TypeOK, TypeOK', NEW t \in Turn, NEW at, NEW n, Grows(entries, entries', at, n, t),
           Contiguous(entries), NoneYet, LiveIsLast, Filed(entries),
           boot' = boot, boot[t].pc = "done", current_turn_id' \in {current_turn_id, NoTurn}
    PROVE  Contiguous(entries)' /\ NoneYet' /\ LiveIsLast' /\ Filed(entries)'
<1>0. /\ entries \in Seq(Entry) /\ entries' \in Seq(Entry) /\ NoTurn \notin Turn
      /\ current_turn_id \in Turn \cup {NoTurn}
      /\ at \in Nat /\ at <= Len(entries) /\ n \in Nat /\ Len(entries) \in Nat
      /\ Puts(entries, entries', at, n, t) /\ Len(entries') = Len(entries) + n
  BY TurnAssumption DEF TypeOK, StateType, Grows, Puts
<1>1. Contiguous(entries')
  BY <1>0, PutsContiguous DEF Grows
<1>2. Filed(entries')
  BY <1>0, PutsFiled
<1>3. LiveIsLast'
  BY <1>0, LastGrows DEF LiveIsLast
<1>4. NoneYet'
  <2> SUFFICES ASSUME NEW u \in Turn, boot[u].pc \notin {"drive", "done"}, NEW m \in 1..Len(entries')
               PROVE  entries'[m].turn # u
    BY DEF NoneYet
  <2>0. u # t /\ \A k \in 1..Len(entries) : entries[k].turn # u
    BY DEF NoneYet
  <2>1. CASE m <= at
    <3>1. m \in 1..at /\ m \in 1..Len(entries)
      BY <1>0, <2>1
    <3>2. Same(entries[m], entries'[m])
      BY <1>0, <3>1 DEF Puts
    <3> QED
      BY <2>0, <3>1, <3>2 DEF Same
  <2>2. CASE m > at /\ m <= at + n
    BY <1>0, <2>0, <2>2 DEF Puts
  <2>3. CASE m > at + n
    <3>1. m - n \in at+1..Len(entries) /\ (m - n) + n = m
      BY <1>0, <2>3
    <3>2. Same(entries[m - n], entries'[m])
      BY <1>0, <3>1 DEF Puts
    <3> QED
      BY <1>0, <2>0, <3>1, <3>2 DEF Same
  <2> QED
    BY <1>0, <2>1, <2>2, <2>3
<1> QED
  BY <1>1, <1>2, <1>3, <1>4 DEF Contiguous, Filed

-----------------------------------------------------------------------------
(* The steps of a task *)

(* What a draining loop files of the queue. *)
DrainedOf(t) == [i \in 1..Len(steering) |-> SteeredEntry(t, steering[i])]

LEMMA DrainedIs ==
    ASSUME TypeOK, NEW t \in Turn
    PROVE  /\ DrainedOf(t) \in Seq(Entry) /\ Len(DrainedOf(t)) = Len(steering)
           /\ \A i \in 1..Len(steering) :
                /\ DrainedOf(t)[i].kind = steering[i].kind /\ DrainedOf(t)[i].of = steering[i].of
                /\ DrainedOf(t)[i].turn \in {t, NoTurn}
                /\ DrainedOf(t)[i].turn = NoTurn => DrainedOf(t)[i].kind = "notice"
<1>1. steering \in Seq(Steered) /\ Len(steering) \in Nat
  BY DEF TypeOK, StateType
<1>2. ASSUME NEW i \in 1..Len(steering)
      PROVE  SteeredEntry(t, steering[i]) \in Entry
  <2>1. steering[i] \in Steered
    BY <1>1
  <2> QED
    BY <2>1, EntryTypes
<1>3. DrainedOf(t) \in Seq(Entry) /\ Len(DrainedOf(t)) = Len(steering)
  BY <1>1, <1>2 DEF DrainedOf
<1>4. ASSUME NEW i \in 1..Len(steering)
      PROVE  /\ DrainedOf(t)[i].kind = steering[i].kind /\ DrainedOf(t)[i].of = steering[i].of
             /\ DrainedOf(t)[i].turn \in {t, NoTurn}
             /\ DrainedOf(t)[i].turn = NoTurn => DrainedOf(t)[i].kind = "notice"
  <2>1. steering[i] \in Steered
    BY <1>1
  <2>2. DrainedOf(t)[i] = SteeredEntry(t, steering[i])
    BY DEF DrainedOf
  <2> QED
    BY <2>1, <2>2, TurnAssumption DEF SteeredEntry, Steered
<1> QED
  BY <1>3, <1>4

(* Whatever a task writes, it writes among the entries of its own turn. *)
LEMMA TaskGrows ==
    ASSUME OrderInv, TypeOK', NEW t \in Turn, TaskStep(t)
    PROVE  \E at, n : /\ Grows(entries, entries', at, n, t)
                      /\ DrainSteering(t) \/ \A m \in at+1..at+n : entries'[m].kind # "notice"
<1>0. /\ TypeOK /\ entries \in Seq(Entry) /\ Len(entries) \in Nat /\ task[t] \in Task /\ task[t].step \in Nat
      /\ task[t].n \in Nat
  BY TaskFields DEF OrderInv, SerialInv, Inv, TypeOK, StateType
<1>s. ASSUME NEW fs, Puts(entries, fs, Len(entries), 0, t)
      PROVE  \E at, n : /\ Grows(entries, fs, at, n, t)
                        /\ \A m \in at+1..at+n : fs[m].kind # "notice"
  <2>1. Grows(entries, fs, Len(entries), 0, t)
    BY <1>0, <1>s DEF Grows
  <2>2. \A m \in Len(entries)+1..Len(entries)+0 : fs[m].kind # "notice"
    BY <1>0
  <2> QED
    BY <2>1, <2>2
<1>l. current_turn_id = t => Len(entries) \in 1..Len(entries) /\ Within(entries, Len(entries), t)
  BY <1>0, TurnAssumption DEF OrderInv, LiveIsLast, Within
<1>1. CASE DrainSteering(t) /\ current_turn_id = t
  <2>1. entries' = entries \o DrainedOf(t)
    BY <1>1 DEF DrainSteering, MayDrain, DrainedOf
  <2>2. Puts(entries, entries', Len(entries), Len(steering), t) /\ Len(steering) \in Nat
    <3>1. steering \in Seq(Steered) /\ Len(steering) \in Nat /\ entries \in Seq(Entry)
      BY <1>0 DEF TypeOK, StateType
    <3>2. /\ DrainedOf(t) \in Seq(Entry) /\ Len(DrainedOf(t)) = Len(steering)
          /\ \A i \in 1..Len(steering) :
               /\ DrainedOf(t)[i].turn \in {t, NoTurn}
               /\ DrainedOf(t)[i].turn = NoTurn => DrainedOf(t)[i].kind = "notice"
      BY <1>0, DrainedIs
    <3>3. PICK d \in Seq(Entry) : d = DrainedOf(t)
      BY <3>2
    <3>4. /\ Len(d) = Len(steering)
          /\ \A i \in 1..Len(d) :
               /\ d[i].turn \in {t, NoTurn}
               /\ d[i].turn = NoTurn => d[i].kind = "notice"
      BY <3>2, <3>3
    <3>5. Puts(entries, entries \o d, Len(entries), Len(d), t)
      BY <3>1, <3>4, ConcatPuts
    <3> QED
      BY <2>1, <3>1, <3>3, <3>4, <3>5
  <2>3. Grows(entries, entries', Len(entries), Len(steering), t)
    BY <1>0, <1>1, <1>l, <2>2 DEF Grows
  <2> QED
    BY <1>1, <2>3
<1>2. CASE Push(t) /\ OwnsTurn(t)
  <2> DEFINE e == AssistantEntry(t, task[t].step, task[t].n)
  <2>1. e \in Entry /\ e.turn = t /\ e.kind = "assistant"
    <3>1. e \in Entry
      BY <1>0, EntryTypes
    <3> QED
      BY <3>1 DEF AssistantEntry
  <2>2. entries' = Append(entries, e) /\ current_turn_id = t
    BY <1>2 DEF Push, OwnsTurn
  <2> HIDE DEF e
  <2>3. Puts(entries, entries', Len(entries), 1, t) /\ entries'[Len(entries) + 1] = e
    BY <1>0, <2>1, <2>2, AppendPuts
  <2>4. Grows(entries, entries', Len(entries), 1, t)
    BY <1>0, <1>l, <2>2, <2>3 DEF Grows
  <2>5. \A m \in Len(entries)+1..Len(entries)+1 : m = Len(entries) + 1
    BY <1>0
  <2> QED
    BY <2>1, <2>3, <2>4, <2>5
<1>3. CASE RecordPartial(t)
  <2> DEFINE e == PartialEntry(t, task[t].step)
             a == task[t].anchor
  <2>1. e \in Entry /\ e.turn = t /\ e.kind # "notice"
    <3>1. e \in Entry
      BY <1>0, EntryTypes
    <3> QED
      BY <3>1 DEF PartialEntry
  <2>2. entries' = entries \/ entries' = InsertAfter(entries, a, e)
    BY <1>3 DEF RecordPartial
  <2>3. AnchorAt(entries, t, a)
    BY <1>3 DEF RecordPartial, Anchors, OrderInv, AnchorsHold
  <2> HIDE DEF e, a
  <2>4. CASE entries' = entries
    BY <1>0, <1>s, <2>4, SamePuts
  <2>5. CASE entries' # entries
    <3>1. PICK at \in 1..Len(entries) :
             /\ entries[at] = a /\ Puts(entries, entries', at, 1, t)
             /\ entries'[at + 1].kind # "notice"
      BY <1>0, <2>1, <2>2, <2>5, InsertPuts
    <3>2. Within(entries, at, t)
      <4>1. CASE a.turn = t
        <5>1. at \in 1..at /\ \A m \in at..at : m = at
          OBVIOUS
        <5> QED
          BY <3>1, <4>1, <5>1 DEF Within
      <4>2. CASE a.turn # t
        <5>1. PICK i \in 1..Len(entries) : entries[i] = a /\ Within(entries, i, t) /\ a.kind = "notice"
          BY <2>3, <4>2 DEF AnchorAt
        <5>2. i = at
          BY <3>1, <5>1 DEF OrderInv, OneNotice, AtMostOne
        <5> QED
          BY <5>1, <5>2
      <4> QED
        BY <4>1, <4>2
    <3>3. Grows(entries, entries', at, 1, t)
      BY <1>0, <3>1, <3>2 DEF Grows
    <3>4. \A m \in at+1..at+1 : m = at + 1
      OBVIOUS
    <3> QED
      BY <3>1, <3>3, <3>4
  <2> QED
    BY <2>4, <2>5
<1>4. CASE RecordResult(t) \/ DropCalls(t)
  <2>1. \/ entries' = entries
        \/ \E result \in Result : entries' = Recorded(entries, t, task[t].step, task[t].k, result)
    <3>1. ResultOf(task[t]) \in Result /\ "cancelled" \in Result
      BY <1>0 DEF ResultOf, Task, Result, Returned
    <3> QED
      BY <1>4, <3>1 DEF RecordResult, DropCalls
  <2> QED
    BY <1>0, <1>s, <2>1, SamePuts, RecordedPuts
<1>5. CASE /\ ~(DrainSteering(t) /\ current_turn_id = t) /\ ~(Push(t) /\ OwnsTurn(t))
           /\ ~RecordPartial(t) /\ ~RecordResult(t) /\ ~DropCalls(t)
  <2>1. entries' = entries
    <3>1. DrainSteering(t) => entries' = entries
      BY <1>5 DEF DrainSteering, MayDrain
    <3>2. Push(t) => entries' = entries
      BY <1>5 DEF Push
    <3> QED
      BY <1>5, <3>1, <3>2 DEF TaskStep, LoopStep, BatchStep, Enter, Check0, SpendStep, Check,
         SteerNotice, ReadAnchor, Open, RescueFold, Stream, Batch, RunTool, ToolReturns, Gate, Park,
         ResolveChannel, HandleApproval, Resume, Breaker, Finish, EmitTerminal, stateVars
  <2> QED
    BY <1>0, <1>s, <2>1, SamePuts
<1> QED
  BY <1>1, <1>2, <1>3, <1>4, <1>5

LEMMA AnchorsMade ==
    ASSUME OrderInv, NEW t \in Turn, TaskStep(t), NEW u \in Turn, cancelled' = cancelled,
           \A v \in Turn \ {t} : task'[v] = task[v], Anchors(u)'
    PROVE  AnchorAt(entries, u, task'[u].anchor)
<1>0. /\ TypeOK /\ entries \in Seq(Entry) /\ Len(entries) \in Nat
      /\ LosersAreWoken /\ LiveIsLast /\ AnchorsHold /\ Filed(entries)
  BY DEF OrderInv, SerialInv, Inv, TypeOK, StateType
<1>1. CASE u # t
  BY <1>0, <1>1 DEF Anchors, AnchorsHold
<1>2. CASE u = t /\ task'[t].pc \in Recording
  <2>1. Anchors(t) /\ task'[t].anchor = task[t].anchor
    BY <1>0, <1>2, TaskPlaces DEF Places
  <2> QED
    BY <1>0, <1>2, <2>1 DEF AnchorsHold
<1>3. CASE u = t /\ task'[t].pc = "open" /\ ~cancelled[t]
  <2>1. ReadAnchor(t)
    BY <1>0, <1>3, TaskPlaces DEF Places
  <2>2. current_turn_id = t
    BY <1>0, <1>3, <2>1 DEF ReadAnchor, LosersAreWoken, Working
  <2>3. task'[t].anchor = entries[Len(entries)]
    BY <1>0, <2>1, TaskFields DEF ReadAnchor, Become, Task
  <2>4. Len(entries) \in 1..Len(entries) /\ Within(entries, Len(entries), t)
    BY <1>0, <2>2, TurnAssumption DEF LiveIsLast, Within
  <2>5. entries[Len(entries)].turn \in {t, NoTurn}
    <3>1. PICK j \in 1..Len(entries) : \A m \in j..Len(entries) : entries[m].turn \in {t, NoTurn}
      BY <2>4 DEF Within
    <3> QED
      BY <1>0, <3>1
  <2> QED
    BY <1>0, <1>3, <2>3, <2>4, <2>5 DEF AnchorAt, Filed
<1> QED
  BY <1>1, <1>2, <1>3 DEF Anchors, Recording

(* Draining moves the notices of the queue into the transcript. *)
LEMMA DrainNotices ==
    ASSUME TypeOK, NEW t \in Turn, OneNotice, entries' = entries \o DrainedOf(t)
    PROVE  /\ AtMostOne(entries')
           /\ \A u : NoticeOf(entries', u) => NoticeOf(entries, u) \/ NoticeOf(steering, u)
<1> DEFINE es == entries
           n == Len(es)
<1>1. /\ es \in Seq(Entry) /\ n \in Nat /\ DrainedOf(t) \in Seq(Entry) /\ Len(DrainedOf(t)) = Len(steering)
      /\ steering \in Seq(Steered) /\ Len(steering) \in Nat
  BY DrainedIs DEF TypeOK, StateType
<1>2. /\ Len(entries') = n + Len(steering)
      /\ \A i \in 1..n : entries'[i] = es[i]
      /\ \A i \in n+1..n+Len(steering) : entries'[i] = DrainedOf(t)[i - n]
  <2>1. /\ Len(entries') = n + Len(steering)
        /\ \A i \in 1..n + Len(steering) :
             entries'[i] = IF i <= n THEN es[i] ELSE DrainedOf(t)[i - n]
    <3> DEFINE d == DrainedOf(t)
               l == Len(steering)
    <3>1. es \in Seq(Entry) /\ d \in Seq(Entry) /\ Len(d) = l
      BY <1>1
    <3> HIDE DEF d, l
    <3>2. /\ Len(es \o d) = Len(es) + Len(d)
          /\ \A i \in 1..Len(es) + Len(d) :
               (es \o d)[i] = IF i <= Len(es) THEN es[i] ELSE d[i - Len(es)]
      BY <3>1, ConcatProperties
    <3> QED
      BY <3>1, <3>2 DEF d, l
  <2> HIDE DEF n
  <2> QED
    BY <1>1, <2>1
<1>3. \A i \in n+1..n+Len(steering) :
         /\ i - n \in 1..Len(steering) /\ (i - n) + n = i
         /\ entries'[i].kind = steering[i - n].kind /\ entries'[i].of = steering[i - n].of
  <2> SUFFICES ASSUME NEW i \in n+1..n+Len(steering)
               PROVE  /\ i - n \in 1..Len(steering) /\ (i - n) + n = i
                      /\ entries'[i].kind = steering[i - n].kind /\ entries'[i].of = steering[i - n].of
    OBVIOUS
  <2>1. i - n \in 1..Len(steering) /\ (i - n) + n = i
    BY <1>1
  <2> QED
    BY <1>2, <2>1, DrainedIs
<1>4. \A i \in 1..Len(entries') : i \in 1..n \/ i \in n+1..n+Len(steering)
  BY <1>1, <1>2
<1>5. ASSUME NEW i \in 1..Len(entries'), NEW j \in 1..Len(entries'),
             entries'[i].kind = "notice", entries'[j].kind = "notice", entries'[i].of = entries'[j].of
      PROVE  i = j
  <2>1. CASE i \in 1..n /\ j \in 1..n
    BY <1>2, <1>5, <2>1 DEF OneNotice, AtMostOne
  <2>2. CASE i \in n+1..n+Len(steering) /\ j \in n+1..n+Len(steering)
    <3>1. /\ i - n \in 1..Len(steering) /\ j - n \in 1..Len(steering)
          /\ steering[i - n].kind = "notice" /\ steering[j - n].kind = "notice"
          /\ steering[i - n].of = steering[j - n].of
          /\ (i - n) + n = i /\ (j - n) + n = j
      BY <1>3, <1>5, <2>2
    <3>2. i - n = j - n
      BY <3>1 DEF OneNotice, AtMostOne
    <3> QED
      BY <3>1, <3>2
  <2>3. ASSUME NEW a \in 1..n, NEW b \in n+1..n+Len(steering),
               entries'[a].kind = "notice", entries'[b].kind = "notice", entries'[a].of = entries'[b].of
        PROVE  FALSE
    <3>1. /\ b - n \in 1..Len(steering)
          /\ steering[b - n].kind = "notice" /\ steering[b - n].of = entries'[b].of
      BY <1>3, <2>3
    <3>2. steering[b - n] \in Steered
      BY <1>1, <3>1
    <3>3. steering[b - n].of \in Turn
      BY <3>2 DEF Steered
    <3>4. es[a].of = steering[b - n].of /\ es[a].kind = "notice"
      BY <1>2, <2>3, <3>1
    <3>5. NoticeOf(entries, steering[b - n].of) /\ NoticeOf(steering, steering[b - n].of)
      BY <3>1, <3>4 DEF NoticeOf
    <3> QED
      BY <3>3, <3>5 DEF OneNotice
  <2> QED
    BY <1>4, <1>5, <2>1, <2>2, <2>3
<1>6. ASSUME NEW u, NoticeOf(entries', u)
      PROVE  NoticeOf(entries, u) \/ NoticeOf(steering, u)
  <2>1. PICK i \in 1..Len(entries') : entries'[i].kind = "notice" /\ entries'[i].of = u
    BY <1>6 DEF NoticeOf
  <2> QED
    BY <1>2, <1>3, <1>4, <2>1 DEF NoticeOf
<1> QED
  BY <1>5, <1>6 DEF AtMostOne

LEMMA AppendNotices ==
    ASSUME NEW q \in Seq(Steered), NEW s \in Steered, AtMostOne(q),
           s.kind = "notice" => ~NoticeOf(q, s.of)
    PROVE  /\ AtMostOne(Append(q, s))
           /\ \A u : NoticeOf(Append(q, s), u) => NoticeOf(q, u) \/ (s.kind = "notice" /\ u = s.of)
<1> DEFINE r == Append(q, s)
<1>1. /\ Len(q) \in Nat /\ Len(r) = Len(q) + 1 /\ r[Len(q) + 1] = s
      /\ \A i \in 1..Len(q) : r[i] = q[i]
      /\ \A i \in 1..Len(r) : i \in 1..Len(q) \/ i = Len(q) + 1
  OBVIOUS
<1> HIDE DEF r
<1>2. ASSUME NEW i \in 1..Len(r), NEW j \in 1..Len(r),
             r[i].kind = "notice", r[j].kind = "notice", r[i].of = r[j].of
      PROVE  i = j
  <2>1. CASE i \in 1..Len(q) /\ j \in 1..Len(q)
    BY <1>1, <1>2, <2>1 DEF AtMostOne
  <2>2. CASE i \in 1..Len(q) /\ j = Len(q) + 1
    BY <1>1, <1>2, <2>2 DEF NoticeOf
  <2>3. CASE i = Len(q) + 1 /\ j \in 1..Len(q)
    BY <1>1, <1>2, <2>3 DEF NoticeOf
  <2> QED
    BY <1>1, <2>1, <2>2, <2>3
<1>3. ASSUME NEW u, NoticeOf(r, u)
      PROVE  NoticeOf(q, u) \/ (s.kind = "notice" /\ u = s.of)
  <2>1. PICK i \in 1..Len(r) : r[i].kind = "notice" /\ r[i].of = u
    BY <1>3 DEF NoticeOf
  <2> QED
    BY <1>1, <2>1 DEF NoticeOf
<1> QED
  BY <1>2, <1>3 DEF AtMostOne, r

LEMMA NoNotices == AtMostOne(<<>>) /\ \A u : ~NoticeOf(<<>>, u)
  BY DEF AtMostOne, NoticeOf

LEMMA TaskNotices ==
    ASSUME OrderInv, TypeOK', NEW t \in Turn, TaskStep(t), boot' = boot, boot[t].pc = "done",
           \A u \in Turn \ {t} : task'[u] = task[u],
           NEW at, NEW n, Grows(entries, entries', at, n, t),
           DrainSteering(t) \/ \A m \in at+1..at+n : entries'[m].kind # "notice"
    PROVE  OneNotice'
<1>0. /\ TypeOK /\ OneNotice /\ LiveIsLast /\ entries \in Seq(Entry) /\ entries' \in Seq(Entry)
      /\ steering \in Seq(Steered) /\ NoTurn \notin Turn
  BY TurnAssumption DEF OrderInv, SerialInv, Inv, TypeOK, StateType
<1>1. /\ \A u \in Turn : Unsent(u)' => Unsent(u)
      /\ \A u \in Turn : task'[u].pc = "notice" /\ turn_budget'.turn = u => turn_budget'.wrap_up_sent
  BY <1>0, UnsentKept
<1>a. /\ AtMostOne(entries) /\ AtMostOne(steering)
      /\ \A u \in Turn : ~(NoticeOf(entries, u) /\ NoticeOf(steering, u))
      /\ \A u \in Turn : Unsent(u) => ~NoticeOf(entries, u) /\ ~NoticeOf(steering, u)
  BY <1>0 DEF OneNotice
<1> SUFFICES /\ AtMostOne(entries') /\ AtMostOne(steering')
             /\ \A u \in Turn : ~(NoticeOf(entries', u) /\ NoticeOf(steering', u))
             /\ \A u \in Turn : Unsent(u)' => ~NoticeOf(entries', u) /\ ~NoticeOf(steering', u)
  BY <1>1 DEF OneNotice, AtMostOne, NoticeOf
<1>2. CASE DrainSteering(t)
  <2>1. CASE current_turn_id = t
    <3>1. entries' = entries \o DrainedOf(t) /\ steering' = <<>>
      BY <1>2, <2>1 DEF DrainSteering, MayDrain, DrainedOf
    <3>2. /\ AtMostOne(entries')
          /\ \A u : NoticeOf(entries', u) => NoticeOf(entries, u) \/ NoticeOf(steering, u)
      BY <1>0, <3>1, DrainNotices
    <3> QED
      BY <1>1, <1>a, <3>1, <3>2, NoNotices
  <2>2. CASE current_turn_id # t
    <3>1. entries' = entries /\ steering' = steering
      BY <1>2, <2>2 DEF DrainSteering, MayDrain
    <3> QED
      BY <1>1, <1>a, <3>1
  <2> QED
    BY <2>1, <2>2
<1>3. CASE SteerNotice(t)
  <2>1. entries' = entries /\ task[t].pc = "notice" /\ task'[t].pc = "drain" /\ turn_budget' = turn_budget
    BY <1>0, <1>3, MoveIs DEF SteerNotice, Moved, ownVars
  <2>2. ~NoticeOf(entries, t) /\ ~NoticeOf(steering, t)
    BY <1>a, <2>1 DEF Unsent
  <2>3. ~Unsent(t)'
    <3>1. ~(turn_budget.turn = t /\ ~turn_budget.wrap_up_sent)
      BY <1>0, <2>1 DEF OneNotice
    <3> QED
      BY <2>1, <3>1 DEF Unsent
  <2>4. CASE steering' = steering
    BY <1>1, <1>a, <2>1, <2>4
  <2>5. CASE steering' # steering
    <3> DEFINE s == [kind |-> "notice", of |-> t, n |-> task[t].step]
    <3>1. s \in Steered /\ s.kind = "notice" /\ s.of = t
      BY <1>0, TaskFields DEF Steered
    <3>2. steering' = Append(steering, s)
      BY <1>3, <2>5 DEF SteerNotice
    <3> HIDE DEF s
    <3>3. AtMostOne(steering') /\ \A u : NoticeOf(steering', u) => NoticeOf(steering, u) \/ u = t
      BY <1>0, <1>a, <2>2, <3>1, <3>2, AppendNotices
    <3> QED
      BY <1>1, <1>a, <2>1, <2>2, <2>3, <3>3
  <2> QED
    BY <2>4, <2>5
<1>4. CASE ~DrainSteering(t) /\ ~SteerNotice(t)
  <2>1. steering' = steering
    BY <1>4 DEF TaskStep, LoopStep, BatchStep, Enter, Check0, SpendStep, Check, ReadAnchor, Open,
       RescueFold, Stream, Push, RecordPartial, Batch, RunTool, ToolReturns, Gate, Park,
       ResolveChannel, HandleApproval, RecordResult, Resume, DropCalls, Breaker, Finish,
       EmitTerminal, stateVars
  <2>2. AtMostOne(entries') /\ \A u : NoticeOf(entries', u) => NoticeOf(entries, u)
    <3>1. at \in Nat /\ at <= Len(entries) /\ n \in Nat /\ Puts(entries, entries', at, n, t)
      BY <1>0 DEF Grows
    <3> QED
      BY <1>0, <1>4, <1>a, <3>1, PutsNotices
  <2> QED
    BY <1>1, <1>a, <2>1, <2>2
<1> QED
  BY <1>2, <1>3, <1>4

LEMMA TaskOrder ==
    ASSUME OrderInv, SerialInv', NEW t \in Turn, TaskStep(t)
    PROVE  OrderInv'
<1>0. /\ TypeOK /\ TypeOK' /\ SerialInv /\ NotStarted
      /\ entries \in Seq(Entry) /\ entries' \in Seq(Entry)
  BY DEF OrderInv, SerialInv, Inv, TypeOK, StateType
<1>1. /\ cancelled' = cancelled /\ boot' = boot /\ \A u \in Turn \ {t} : task'[u] = task[u]
      /\ current_turn_id' \in {current_turn_id, NoTurn} /\ task[t].pc # "none"
  <2>1. CASE Finish(t)
    <3>1. \A u \in Turn \ {t} : task'[u] = task[u]
      BY <1>0, <2>1, MoveIs DEF Finish, Moved
    <3> QED
      BY <2>1, <3>1 DEF Finish, FinishTurn, ownVars, TaskFrame
  <2>2. CASE Park(t)
    <3>1. \A u \in Turn \ {t} : task'[u] = task[u]
      BY <1>0, <2>2, MoveIs DEF Park, Moved
    <3> QED
      BY <2>2, <3>1 DEF Park, ownVars, turnVars, TaskFrame
  <2>3. CASE ~Finish(t) /\ ~Park(t)
    <3>1. Effect(t)
      BY <1>0, <2>3, TaskEffect DEF SerialInv, Inv
    <3> QED
      BY <3>1 DEF Effect, Moves, Moved
  <2> QED
    BY <2>1, <2>2, <2>3
<1>2. boot[t].pc = "done"
  BY <1>0, <1>1 DEF NotStarted
<1>3. PICK at, n : /\ Grows(entries, entries', at, n, t)
                   /\ DrainSteering(t) \/ \A m \in at+1..at+n : entries'[m].kind # "notice"
  BY <1>0, TaskGrows
<1>4. Contiguous(entries)' /\ NoneYet' /\ LiveIsLast' /\ Filed(entries)'
  BY <1>0, <1>1, <1>2, <1>3, OrderGrows DEF OrderInv
<1>5. OneNotice'
  BY <1>0, <1>1, <1>2, <1>3, TaskNotices
<1>6. AnchorsHold'
  <2> SUFFICES ASSUME NEW u \in Turn, Anchors(u)'
               PROVE  AnchorAt(entries', u, task'[u].anchor)
    BY DEF AnchorsHold, AnchorAt, Within
  <2>1. AnchorAt(entries, u, task'[u].anchor)
    BY <1>1, AnchorsMade
  <2> QED
    BY <1>0, <1>3, <2>1, AnchorGrows
<1> QED
  BY <1>4, <1>5, <1>6 DEF OrderInv

-----------------------------------------------------------------------------
(* The steps that write nothing, and begin_turn's entry *)

LEMMA StillOrder ==
    ASSUME OrderInv, SerialInv', entries' = entries, turn_budget' = turn_budget,
           current_turn_id' \in {current_turn_id, NoTurn},
           \A u \in Turn : cancelled[u] => cancelled'[u],
           \A u \in Turn : boot[u].pc \in {"drive", "done"} => boot'[u].pc \in {"drive", "done"},
           \A u \in Turn : task'[u] = task[u] \/ task'[u].pc \in {"drop", "channel", "entry"},
           AtMostOne(steering'), \A u : NoticeOf(steering', u) => NoticeOf(steering, u)
    PROVE  OrderInv'
<1>0. /\ Contiguous(entries) /\ NoneYet /\ LiveIsLast /\ AnchorsHold /\ Filed(entries) /\ OneNotice
  BY DEF OrderInv
<1>1. Contiguous(entries)' /\ Filed(entries)'
  BY <1>0 DEF Contiguous, Filed
<1>2. NoneYet' /\ LiveIsLast'
  BY <1>0 DEF NoneYet, LiveIsLast, Within
<1>3. AnchorsHold'
  <2> SUFFICES ASSUME NEW u \in Turn, Anchors(u)'
               PROVE  AnchorAt(entries, u, task'[u].anchor)
    BY DEF AnchorsHold, AnchorAt, Within
  <2>1. task'[u] = task[u]
    BY DEF Anchors
  <2>2. Anchors(u)
    BY <2>1 DEF Anchors
  <2> QED
    BY <1>0, <2>1, <2>2 DEF AnchorsHold
<1>4. OneNotice'
  <2>1. \A u \in Turn : Unsent(u)' => Unsent(u)
    BY DEF Unsent
  <2>2. AtMostOne(entries)' /\ AtMostOne(steering)'
    BY <1>0 DEF OneNotice, AtMostOne
  <2>3. \A u \in Turn : (~(NoticeOf(entries, u) /\ NoticeOf(steering, u)))'
    BY <1>0 DEF OneNotice, NoticeOf
  <2>4. \A u \in Turn : Unsent(u)' => (~NoticeOf(entries, u) /\ ~NoticeOf(steering, u))'
    BY <1>0, <2>1 DEF OneNotice, NoticeOf
  <2>5. \A u \in Turn : (task[u].pc = "notice" /\ turn_budget.turn = u => turn_budget.wrap_up_sent)'
    BY <1>0 DEF OneNotice
  <2> QED
    BY <2>2, <2>3, <2>4, <2>5 DEF OneNotice
<1> QED
  BY <1>1, <1>2, <1>3, <1>4 DEF OrderInv

LEMMA InstallOrder ==
    ASSUME OrderInv, SerialInv', NEW t \in Turn, Install(t)
    PROVE  OrderInv'
<1> DEFINE e == UserEntry(t)
<1>0. /\ TypeOK /\ NotStarted /\ ParkedWaits /\ entries \in Seq(Entry) /\ Len(entries) \in Nat
      /\ NoTurn \notin Turn
      /\ Contiguous(entries) /\ NoneYet /\ AnchorsHold /\ Filed(entries) /\ OneNotice
      /\ boot \in [Turn -> [pc : BootPc, orphan : Turn \cup {NoTurn}]]
  BY TurnAssumption DEF OrderInv, SerialInv, Inv, TypeOK, StateType, TasksType
<1>1. /\ entries' = Append(entries, e) /\ current_turn_id' = t /\ steering' = <<>>
      /\ turn_budget' = [NoBudget EXCEPT !.turn = t] /\ boot[t].pc = "install"
      /\ boot' = [boot EXCEPT ![t].pc = "drive"] /\ cancelled' = cancelled
      /\ \A u \in Turn : task'[u] = task[u] \/ task'[u].pc = "done"
  <2>1. \A u \in Turn : task'[u] = task[u] \/ task'[u] = Fresh("done", NoTurn)
    BY DEF Install
  <2> QED
    BY <2>1 DEF Install, Fresh, BootFrame
<1>2. /\ e \in Entry /\ e.turn = t /\ e.kind = "user"
  <2>1. e \in Entry
    BY EntryTypes
  <2> QED
    BY <2>1 DEF UserEntry
<1> HIDE DEF e
<1>3. /\ Len(entries') = Len(entries) + 1 /\ entries'[Len(entries) + 1] = e
      /\ \A i \in 1..Len(entries) : entries'[i] = entries[i] /\ entries[i].turn # t
      /\ \A i \in 1..Len(entries') : i \in 1..Len(entries) \/ i = Len(entries) + 1
  BY <1>0, <1>1, <1>2 DEF NoneYet
<1>4. Contiguous(entries')
  <2> SUFFICES ASSUME NEW i \in 1..Len(entries'), NEW j \in 1..Len(entries'), i < j,
                      entries'[i].turn = entries'[j].turn, entries'[i].turn # NoTurn, NEW m \in i..j
               PROVE  entries'[m].turn \in {entries'[i].turn, NoTurn}
    BY DEF Contiguous
  <2>1. i \in 1..Len(entries) /\ j \in 1..Len(entries)
    BY <1>0, <1>2, <1>3
  <2>2. m \in 1..Len(entries)
    BY <1>0, <2>1
  <2> QED
    BY <1>0, <1>3, <2>1, <2>2 DEF Contiguous
<1>5. Filed(entries')
  BY <1>0, <1>2, <1>3 DEF Filed
<1>6. NoneYet'
  <2> SUFFICES ASSUME NEW u \in Turn, boot'[u].pc \notin {"drive", "done"}, NEW i \in 1..Len(entries')
               PROVE  entries'[i].turn # u
    BY DEF NoneYet
  <2>1. u # t /\ boot[u].pc \notin {"drive", "done"}
    BY <1>0, <1>1
  <2> QED
    BY <1>0, <1>2, <1>3, <2>1 DEF NoneYet
<1>7. LiveIsLast'
  <2>1. Within(entries', Len(entries'), t)
    <3> DEFINE l == Len(entries')
    <3>1. l \in 1..l /\ entries'[l].turn = t /\ \A m \in l..l : m = l
      BY <1>0, <1>2, <1>3
    <3> QED
      BY <3>1 DEF Within
  <2> QED
    BY <1>1, <2>1 DEF LiveIsLast
<1>8. AnchorsHold'
  <2> SUFFICES ASSUME NEW u \in Turn, Anchors(u)'
               PROVE  AnchorAt(entries', u, task'[u].anchor)
    BY DEF AnchorsHold, AnchorAt, Within
  <2>1. task'[u] = task[u] /\ Anchors(u)
    BY <1>1 DEF Anchors
  <2>2. AnchorAt(entries, u, task[u].anchor)
    BY <1>0, <2>1 DEF AnchorsHold
  <2>3. ASSUME NEW i \in 1..Len(entries), Within(entries, i, u)
        PROVE  i \in 1..Len(entries') /\ entries'[i] = entries[i] /\ Within(entries', i, u)
    <3>1. PICK j \in 1..i : entries[j].turn = u /\ \A m \in j..i : entries[m].turn \in {u, NoTurn}
      BY <2>3 DEF Within
    <3>2. \A m \in j..i : m \in 1..Len(entries)
      BY <1>0
    <3>3. entries'[j].turn = u /\ \A m \in j..i : entries'[m].turn \in {u, NoTurn}
      BY <1>0, <1>3, <3>1, <3>2
    <3> QED
      BY <1>0, <1>3, <3>3 DEF Within
  <2> QED
    BY <2>1, <2>2, <2>3 DEF AnchorAt
<1>9. OneNotice'
  <2>1. AtMostOne(entries') /\ \A u : NoticeOf(entries', u) => NoticeOf(entries, u)
    <3>1. \A i \in 1..Len(entries') : entries'[i].kind = "notice" => i \in 1..Len(entries)
      BY <1>2, <1>3
    <3>2. AtMostOne(entries)
      BY <1>0 DEF OneNotice
    <3> QED
      BY <1>3, <3>1, <3>2 DEF AtMostOne, NoticeOf
  <2>2. turn_budget'.turn = t
    BY <1>1 DEF NoBudget
  <2>3. \A u \in Turn : Unsent(u)' => Unsent(u)
    <3>1. \A u \in Turn \ {t} : boot'[u] = boot[u]
      BY <1>0, <1>1
    <3> QED
      BY <1>1, <2>2, <3>1 DEF Unsent
  <2>4. task'[t].pc # "notice"
    BY <1>0, <1>1 DEF NotStarted
  <2>5. AtMostOne(steering') /\ \A u : ~NoticeOf(steering', u)
    BY <1>1, NoNotices
  <2>6. \A u \in Turn : Unsent(u)' => ~NoticeOf(entries', u)
    BY <1>0, <2>1, <2>3 DEF OneNotice
  <2> QED
    BY <2>1, <2>2, <2>4, <2>5, <2>6 DEF OneNotice, AtMostOne, NoticeOf
<1> QED
  BY <1>4, <1>5, <1>6, <1>7, <1>8, <1>9 DEF OrderInv, Contiguous, Filed

LEMMA BootOrder ==
    ASSUME OrderInv, SerialInv', NEW t \in Turn, BootStep(t)
    PROVE  OrderInv'
<1>0. /\ TypeOK /\ OneNotice /\ boot \in [Turn -> [pc : BootPc, orphan : Turn \cup {NoTurn}]]
      /\ task \in [Turn -> Task] /\ cancelled \in [Turn -> BOOLEAN]
  BY DEF OrderInv, SerialInv, Inv, TypeOK, StateType, TasksType
<1>1. CASE Install(t)
  BY <1>1, InstallOrder
<1>2. CASE ~Install(t)
  <2>1. /\ entries' = entries /\ turn_budget' = turn_budget /\ steering' = steering
        /\ current_turn_id' \in {current_turn_id, NoTurn}
    BY <1>2 DEF BootStep, BeginSupersede, OrphanRead, OrphanFinish, Drive, FinishTurn, turnVars, ownVars
  <2>2. \A u \in Turn : cancelled[u] => cancelled'[u]
    BY <1>0, <1>2 DEF BootStep, BeginSupersede, OrphanRead, OrphanFinish, Drive, CancelToken, ownVars
  <2>3. \A u \in Turn : boot[u].pc \in {"drive", "done"} => boot'[u].pc \in {"drive", "done"}
    BY <1>0, <1>2 DEF BootStep, BeginSupersede, OrphanRead, OrphanFinish, Drive
  <2>4. \A u \in Turn : task'[u] = task[u] \/ task'[u].pc = "entry"
    <3>1. task' = task \/ Become(t, Fresh("entry", t))
      BY <1>2 DEF BootStep, BeginSupersede, OrphanRead, OrphanFinish, Drive
    <3> QED
      BY <1>0, <3>1 DEF Become, Fresh
  <2>5. AtMostOne(steering') /\ \A u : NoticeOf(steering', u) => NoticeOf(steering, u)
    BY <1>0, <2>1 DEF OneNotice
  <2> QED
    BY <2>1, <2>2, <2>3, <2>4, <2>5, StillOrder
<1> QED
  BY <1>1, <1>2

LEMMA FrontOrder ==
    ASSUME OrderInv, SerialInv', FrontEnd
    PROVE  OrderInv'
<1>0. /\ Inv /\ TypeOK /\ OneNotice /\ AtMostOne(steering) /\ steering \in Seq(Steered)
      /\ current_turn_id \in Turn \cup {NoTurn} /\ steered \in Nat
  BY DEF OrderInv, SerialInv, Inv, TypeOK, StateType, SeenType, OneNotice
<1>c. ASSUME CancelInner, UNCHANGED <<entries, turn_budget, current_turn_id, boot>>
      PROVE  OrderInv'
  <2>1. steering' = <<>>
    BY <1>c DEF CancelInner
  <2> QED
    BY <1>0, <1>c, <2>1, NoNotices, CancelMoves, StillOrder
<1>s. ASSUME UNCHANGED <<entries, turn_budget, current_turn_id, boot, steering>>,
             \A u \in Turn : cancelled[u] => cancelled'[u],
             \A u \in Turn : task'[u] = task[u] \/ task'[u].pc \in {"drop", "channel", "entry"}
      PROVE  OrderInv'
  <2>1. AtMostOne(steering') /\ \A u : NoticeOf(steering', u) => NoticeOf(steering, u)
    BY <1>0, <1>s
  <2> QED
    BY <1>s, <2>1, StillOrder
<1>1. CASE CancelTurn
  BY <1>1, <1>c DEF CancelTurn, turnVars
<1>2. CASE SteerUser
  <2> DEFINE s == [kind |-> "steer", of |-> current_turn_id, n |-> steered + 1]
  <2>1. s \in Steered /\ s.kind # "notice"
    BY <1>0, <1>2 DEF SteerUser, SteerAccepted, Steered
  <2>2. /\ steering' = Append(steering, s) /\ task' = task
        /\ UNCHANGED <<entries, turn_budget, current_turn_id, boot, cancelled>>
    BY <1>2 DEF SteerUser, turnVars, ownVars, taskVars
  <2> HIDE DEF s
  <2>3. AtMostOne(steering') /\ \A u : NoticeOf(steering', u) => NoticeOf(steering, u)
    BY <1>0, <2>1, <2>2, AppendNotices
  <2> QED
    BY <2>2, <2>3, StillOrder
<1>3. CASE RestoreBegin \/ RestoreEnd
  BY <1>3, <1>s DEF RestoreBegin, RestoreEnd, turnVars, ownVars, taskVars
<1>4. ASSUME NEW t \in Turn, HandleFlip(t)
      PROVE  OrderInv'
  <2>1. \A u \in Turn : cancelled[u] => cancelled'[u]
    BY <1>0, <1>4 DEF HandleFlip, TypeOK, StateType
  <2> QED
    BY <1>4, <1>s, <2>1 DEF HandleFlip, turnVars
<1>5. ASSUME NEW t \in Turn, HandleCancelIf(t)
      PROVE  OrderInv'
  <2>1. UNCHANGED <<entries, turn_budget, current_turn_id, boot>>
    BY <1>5 DEF HandleCancelIf, turnVars
  <2>2. CancelInner \/ UNCHANGED <<cancelled, steering, task>>
    BY <1>5 DEF HandleCancelIf
  <2> QED
    BY <1>c, <1>s, <2>1, <2>2
<1>6. ASSUME NEW a \in raised, NEW d \in {"approved", "denied"}, SubmitApproval(a, d)
      PROVE  OrderInv'
  <2>1. a.turn \in Turn
    BY <1>0, <1>6 DEF TypeOK, SeenType
  <2>2. \A u \in Turn : task'[u] = task[u] \/ task'[u].pc = "channel"
    <3>1. task[a.turn] \in Task
      BY <1>0, <2>1, TaskFields
    <3>2. \A u \in Turn \ {a.turn} : task'[u] = task[u]
      BY <1>6 DEF SubmitApproval, Become
    <3>3. task'[a.turn].pc = "channel"
      BY <1>0, <1>6, <2>1, <3>1, TaskFields DEF SubmitApproval, Become, Task
    <3> QED
      BY <3>2, <3>3
  <2> QED
    BY <1>6, <1>s, <2>2 DEF SubmitApproval, turnVars, ownVars, TaskFrame
<1> QED
  BY <1>1, <1>2, <1>3, <1>4, <1>5, <1>6 DEF FrontEnd

LEMMA InitOrder ==
    ASSUME Init
    PROVE  OrderInv
<1>1. SerialInv
  BY InitSerial
<1>2. /\ entries = <<>> /\ steering = <<>> /\ current_turn_id = NoTurn
      /\ \A t \in Turn : task[t].pc = "none"
  BY DEF Init, Fresh
<1>3. Contiguous(entries) /\ NoneYet /\ LiveIsLast /\ Filed(entries)
  BY <1>2 DEF Contiguous, NoneYet, LiveIsLast, Filed
<1>4. AnchorsHold
  BY <1>2 DEF AnchorsHold, Anchors
<1>5. OneNotice
  BY <1>2, NoNotices DEF OneNotice
<1> QED
  BY <1>1, <1>3, <1>4, <1>5 DEF OrderInv

LEMMA NextOrder ==
    ASSUME SerialCallers, OrderInv, [Next]_vars
    PROVE  OrderInv'
<1>0. SerialInv /\ SerialInv' /\ AtMostOne(steering)
  BY NextSerial DEF OrderInv, OneNotice
<1>s. ASSUME UNCHANGED <<entries, turn_budget, current_turn_id, boot, steering, cancelled, task>>
      PROVE  OrderInv'
  <2>1. AtMostOne(steering') /\ \A u : NoticeOf(steering', u) => NoticeOf(steering, u)
    BY <1>0, <1>s
  <2> QED
    BY <1>0, <1>s, <2>1, StillOrder
<1>1. ASSUME NEW t \in Turn, EmitAsk(t)
      PROVE  OrderInv'
  BY <1>1, <1>s DEF EmitAsk, stateVars
<1>2. CASE UNCHANGED vars
  BY <1>2, <1>s DEF vars, stateVars, taskVars
<1> QED
  BY <1>0, <1>1, <1>2, BootOrder, TaskOrder, FrontOrder DEF Next

(* The order of turns is an invariant while their callers wait for begin_turn. *)
THEOREM OrderInvariance == SerialCallers /\ Spec => []OrderInv
<1> SUFFICES ASSUME SerialCallers PROVE Spec => []OrderInv
  OBVIOUS
<1>1. Init => OrderInv
  BY InitOrder
<1>2. OrderInv /\ [Next]_vars => OrderInv'
  BY NextOrder
<1> QED BY <1>1, <1>2, PTL DEF Spec

(* Turns whose begin_turn calls do not overlap follow one another: the entries *)
(* of a turn stay together, a loop that lost its turn has a cancelled token,   *)
(* and a task ends only once its consumer was told (begin_turn, run_loop,      *)
(* insert_partial_assistant_after, finish_turn).                               *)
THEOREM TurnsFollow == SerialCallers /\ Spec => []TurnsAreSerial
<1>1. OrderInv => TurnsAreSerial
  <2> SUFFICES ASSUME OrderInv
               PROVE  TurnsAreSerial
    OBVIOUS
  <2>1. HistoryContiguous
    BY DEF OrderInv, Contiguous, HistoryContiguous
  <2>2. SupersededIsCancelled
    BY DEF OrderInv, SerialInv, LosersAreWoken, Working, SupersededIsCancelled
  <2>3. TerminalBeforeReturn
    BY DEF OrderInv, SerialInv, TellsYet, Told, Ending, TerminalBeforeReturn
  <2> QED
    BY <2>1, <2>2, <2>3 DEF TurnsAreSerial
<1> QED BY <1>1, OrderInvariance, PTL

(* The restore's own check: it starts only on an unparked runtime, and nobody  *)
(* parks while it holds the state lock.                                        *)
RestoreUnparked == restoring => pending = NoPending

LEMMA TaskUnparked ==
    ASSUME TypeOK, NEW t \in Turn, TaskStep(t)
    PROVE  restoring' = restoring /\ (pending' = pending \/ ~restoring)
<1>1. CASE Park(t)
  BY <1>1 DEF Park, TaskFrame
<1>2. CASE Finish(t)
  BY <1>2 DEF Finish, TaskFrame
<1>3. CASE ~Finish(t) /\ ~Park(t)
  <2>1. Effect(t)
    BY <1>3, TaskEffect
  <2>2. restoring' = restoring
    <3>1. LoopStep(t) => TaskFrame
      BY Zenon DEF LoopStep, Enter, Check0, SpendStep, Check, SteerNotice, DrainSteering, ReadAnchor,
         Open, RescueFold, Stream, Push, RecordPartial
    <3>2. BatchStep(t) => TaskFrame
      BY Zenon DEF BatchStep, Batch, RunTool, ToolReturns, Gate, Park, ResolveChannel,
         HandleApproval, RecordResult, Resume, DropCalls, Breaker
    <3>3. CASE EmitTerminal(t)
      BY <3>3 DEF EmitTerminal, stateVars
    <3> QED
      BY <1>3, <3>1, <3>2, <3>3 DEF TaskStep, TaskFrame
  <2> QED
    BY <2>1, <2>2 DEF Effect
<1> QED
  BY <1>1, <1>2, <1>3

LEMMA NextUnparked ==
    ASSUME TypeOK, RestoreUnparked, [Next]_vars
    PROVE  RestoreUnparked'
<1>1. ASSUME NEW t \in Turn, BootStep(t)
      PROVE  restoring' = restoring /\ pending' \in {pending, NoPending}
  BY <1>1 DEF BootStep, BeginSupersede, OrphanRead, OrphanFinish, Install, Drive, BootFrame, CancelInner
<1>3. ASSUME NEW t \in Turn, EmitAsk(t)
      PROVE  restoring' = restoring /\ pending' = pending
  BY <1>3 DEF EmitAsk, stateVars
<1>4. CASE FrontEnd
  <2>1. CASE RestoreBegin
    BY <2>1 DEF RestoreBegin, RestoreRefused, RestoreUnparked
  <2>2. CASE RestoreEnd
    BY <2>2 DEF RestoreEnd, RestoreUnparked
  <2>3. CASE CancelTurn
    BY <2>3 DEF CancelTurn, CancelInner, TakePending, RestoreUnparked
  <2>4. CASE SteerUser
    BY <2>4 DEF SteerUser, RestoreUnparked
  <2>5. ASSUME NEW t \in Turn, HandleFlip(t) \/ HandleCancelIf(t)
        PROVE  restoring' = restoring /\ pending' \in {pending, NoPending}
    BY <2>5 DEF HandleFlip, HandleCancelIf, CancelInner, TakePending, stateVars
  <2>6. ASSUME NEW a \in raised, NEW d \in {"approved", "denied"}, SubmitApproval(a, d)
        PROVE  RestoreUnparked'
    BY <2>6 DEF SubmitApproval, TakePending, RestoreUnparked
  <2> QED
    BY <1>4, <2>1, <2>2, <2>3, <2>4, <2>5, <2>6 DEF FrontEnd, RestoreUnparked
<1>5. CASE UNCHANGED vars
  BY <1>5 DEF vars, stateVars, RestoreUnparked
<1> QED
  BY <1>1, <1>3, <1>4, <1>5, TaskUnparked DEF Next, RestoreUnparked

(* A tool that runs while a restore rewrites the workspace belongs to a turn   *)
(* that a later begin_turn superseded, whose token is cancelled and whose      *)
(* consumer was told; no turn is live or parked (restore_checkpoint,           *)
(* begin_turn).                                                                *)
THEOREM RestoresMeetLosers == SerialCallers /\ Spec => []RestoreMeetsLosers
<1>1. OrderInv /\ RestoreUnparked => RestoreMeetsLosers
  <2> SUFFICES ASSUME OrderInv, RestoreUnparked, restoring
               PROVE  RestoreMeetsLosers
    BY DEF RestoreMeetsLosers
  <2>1. current_turn_id = NoTurn /\ pending = NoPending
    BY DEF OrderInv, SerialInv, RestoreUnparked
  <2>2. ASSUME NEW t \in Turn, task[t].pc = "exec"
        PROVE  /\ cancelled[t] /\ out[t] # NoOutcome
               /\ \E u \in Turn \ {t} : boot[u].pc # "idle"
    <3>1. current_turn_id # t
      BY <2>1, TurnAssumption
    <3>2. cancelled[t] /\ \E u \in Turn \ {t} : boot[u].pc # "idle"
      BY <2>2, <3>1 DEF OrderInv, SerialInv, LosersAreWoken, Working
    <3>3. out[t] # NoOutcome
      BY <2>2, <3>1 DEF OrderInv, SerialInv, TellsYet, Told
    <3> QED
      BY <3>2, <3>3
  <2> QED
    BY <2>1, <2>2 DEF RestoreMeetsLosers
<1>2. Init => RestoreUnparked
  BY DEF Init, RestoreUnparked
<1>3. TypeOK /\ RestoreUnparked /\ [Next]_vars => RestoreUnparked'
  BY NextUnparked
<1> QED BY <1>1, <1>2, <1>3, TypeCorrect, OrderInvariance, PTL DEF Spec

=============================================================================
