---------------------------- MODULE TurnRuntime ----------------------------
(***************************************************************************)
(* The turn state machine of AgentRuntime: begin_turn, the model/tool      *)
(* loop, approval parks, cancellation and finalization, as the tasks that  *)
(* share one RuntimeState behind its mutex.                                *)
(*                                                                         *)
(* Every action is one critical section of the code (or one step between   *)
(* two of them that an await separates), so two bootstraps, a superseded   *)
(* loop, its successor, a cancel and an approval answer interleave exactly *)
(* where the code lets them.  One start_turn call is one element of Turn.  *)
(*                                                                         *)
(* Left out here: the session record with its saves and folds (module      *)
(* SessionPersistence), which calls need an approval (nondeterminism       *)
(* here), telemetry, costs and non-terminal events.                        *)
(***************************************************************************)
EXTENDS Integers, Sequences, FiniteSets

CONSTANTS
    Turn,           \* the start_turn calls of one session, each its own turn id
    NoTurn,         \* Option::None where a turn id is optional
    StepCap,        \* config.turn_steps: model requests one turn may make, 0 = no cap
    MaxCalls,       \* bound: tool calls in one reply
    MaxBegin,       \* bound: begin_turn calls in flight at once
    MaxAsks,        \* bound: approval requests of one turn
    MaxSteer,       \* bound: prompts the user steers into turns
    MaxDrop,        \* bound: handles cancelled or dropped
    MaxRestore,     \* bound: checkpoint restores
    DenialBreaker   \* BOUNDARY_DENIAL_BREAKER

ASSUME TurnAssumption == NoTurn \notin Turn

ASSUME BoundAssumption ==
    /\ StepCap \in Nat /\ MaxCalls \in Nat /\ MaxBegin \in Nat
    /\ MaxAsks \in Nat /\ MaxSteer \in Nat /\ MaxDrop \in Nat /\ MaxRestore \in Nat
    /\ DenialBreaker \in Nat

VARIABLES
    (* RuntimeState, guarded by its mutex *)
    current_turn_id,        \* the live turn
    turn_events,            \* the turn whose stable event sender is installed
    pending,                \* the batch parked on an approval
    cancelled,              \* whether each turn's CancellationToken is cancelled
    turn_budget,            \* TurnBudget of the newest turn; its turn also owns state.cancel
    turn_boundary_denials,  \* boundary denials counted in the live turn
    steering,               \* queue of steered prompts and notices
    entries,                \* session.entries
    restoring,              \* a checkpoint restore holds the state lock
    (* tasks *)
    boot,                   \* the bootstrap of each turn: begin_turn, then drive_turn_handle
    task,                   \* the one task that owns each turn's loop or batch
    tail,                   \* a park whose ApprovalRequired is not yet emitted
    handle,                 \* how far TurnHandle::cancel (or its Drop) has come
    (* what an observer of the runtime sees *)
    out,                    \* first terminal event on each turn's stable channel
    asks,                   \* approval requests minted so far, per turn
    raised,                 \* approval requests parked, by approval id
    answered,               \* answers a user gave, by approval id
    ran,                    \* per turn, the calls whose tool was started, in order
    requests,               \* per turn, the model requests sent
    steered,                \* prompts steered so far
    restores                \* checkpoint restores so far

stateVars == <<current_turn_id, turn_events, pending, cancelled, turn_budget,
               turn_boundary_denials, steering, entries, restoring>>
taskVars  == <<boot, task, tail, handle>>
seenVars  == <<out, asks, raised, answered, ran, requests, steered, restores>>
vars == <<stateVars, taskVars, seenVars>>

-----------------------------------------------------------------------------
(* Types *)

NoPending == [turn |-> NoTurn, ask |-> 0]
NoBudget  == [turn |-> NoTurn, steps |-> 0, wrap_up_sent |-> FALSE, overflow_rescued |-> FALSE]

BootPc == {"idle", "orphan", "finish", "install", "drive", "done"}

TaskPc == {"none", "entry", "check0", "spend", "check", "notice", "drain", "anchor",
           "open", "stream", "rescue", "push", "partialC", "partialE", "batch", "run", "exec",
           "gate", "park", "parked", "channel", "answer", "record", "resume", "breaker",
           "drop", "finC", "finF", "abort", "emitC", "emitF", "done"}

(* What may let a call run: nothing yet, an automatic approval, or a human. *)
Authority == {"none", "auto", "human", "denied"}

(* Results as the runtime tells them apart: "bounds" is a boundary denial. *)
Result == {"pending", "done", "bounds", "cancelled"}

(* What run_tool itself comes back with; it makes up no cancelled result. *)
Returned == Result \ {"cancelled"}

(* A session entry.  Entries are immutable Arcs: one that changes (a result *)
(* recorded) is a new value, so equality of values is Arc::ptr_eq.  "of" is *)
(* the turn the text was written for, "turn" the one it is filed under.     *)
Entry == [kind : {"user", "assistant", "partial", "steer", "notice"},
          turn : Turn \cup {NoTurn},
          of   : Turn \cup {NoTurn},
          n    : Nat,
          res  : Seq(Result)]

(* What waits in the steering queue: a user's prompt or a runtime notice. *)
Steered == [kind : {"steer", "notice"}, of : Turn, n : Nat]

(* A tool that was started: the call, what let it run, the approval id if any. *)
Started == [step : Nat, k : Nat, auth : Authority, ask : Nat]

NoEntry == [kind |-> "notice", turn |-> NoTurn, of |-> NoTurn, n |-> 0, res |-> <<>>]

Task == [pc     : TaskPc,
         k      : Nat,                 \* first call not yet recorded
         hi     : Nat,                 \* last call of the group that runs with k
         at     : Nat,                 \* first call of the group not yet started
         n      : Nat,                 \* calls in the batch
         step   : Nat,                 \* the step whose reply asked for the batch
         auth   : Authority,
         got    : Returned,            \* the outcome about to be recorded
         asked  : BOOLEAN,             \* handle_approval records this call
         again  : BOOLEAN,             \* the batch resumed from a park: run_loop is entered anew
         ask    : Nat,                 \* approval id the current call was parked under
         tx     : Turn \cup {NoTurn},  \* whose stable channel the task's sender feeds
         rescued : BOOLEAN,            \* overflow_rescued as spend_step returned it
         due    : BOOLEAN,             \* the wrap-up notice is due in this iteration
         anchor : Entry]               \* reply_anchor

(* A task of one loop iteration that has none of the locals of the last. *)
Fresh(pc, tx) ==
    [pc |-> pc, k |-> 1, hi |-> 1, at |-> 1, n |-> 0, step |-> 0, auth |-> "none",
     got |-> "pending", asked |-> FALSE, again |-> FALSE, ask |-> 0, tx |-> tx,
     rescued |-> FALSE, due |-> FALSE, anchor |-> NoEntry]

Outcome == [event : {"none", "finished", "cancelled", "failed", "step_limit"},
            of    : Turn \cup {NoTurn}]

NoOutcome == [event |-> "none", of |-> NoTurn]

StateType ==
    /\ current_turn_id \in Turn \cup {NoTurn}
    /\ turn_events \in Turn \cup {NoTurn}
    /\ pending \in [turn : Turn \cup {NoTurn}, ask : Nat]
    /\ cancelled \in [Turn -> BOOLEAN]
    /\ turn_budget \in [turn : Turn \cup {NoTurn}, steps : Nat,
                        wrap_up_sent : BOOLEAN, overflow_rescued : BOOLEAN]
    /\ turn_boundary_denials \in Nat
    /\ steering \in Seq(Steered)
    /\ entries \in Seq(Entry)
    /\ restoring \in BOOLEAN

TasksType ==
    /\ boot \in [Turn -> [pc : BootPc, orphan : Turn \cup {NoTurn}]]
    /\ task \in [Turn -> Task]
    /\ tail \in [Turn -> BOOLEAN]
    /\ handle \in [Turn -> {"none", "open", "flipped", "closed"}]

SeenType ==
    /\ out \in [Turn -> Outcome]
    /\ asks \in [Turn -> Nat]
    /\ raised \subseteq [turn : Turn, ask : Nat, step : Nat, k : Nat]
    /\ answered \subseteq [turn : Turn, ask : Nat, decision : {"approved", "denied"}]
    /\ ran \in [Turn -> Seq(Started)]
    /\ requests \in [Turn -> Nat]
    /\ steered \in Nat /\ restores \in Nat

(* The shared state, the tasks and what an observer has seen have their types. *)
TypeOK == StateType /\ TasksType /\ SeenType

Init ==
    /\ current_turn_id = NoTurn /\ turn_events = NoTurn /\ pending = NoPending
    /\ cancelled = [t \in Turn |-> FALSE]
    /\ turn_budget = NoBudget /\ turn_boundary_denials = 0
    /\ steering = <<>> /\ entries = <<>> /\ restoring = FALSE
    /\ boot = [t \in Turn |-> [pc |-> "idle", orphan |-> NoTurn]]
    /\ task = [t \in Turn |-> Fresh("none", NoTurn)]
    /\ tail = [t \in Turn |-> FALSE]
    /\ handle = [t \in Turn |-> "none"]
    /\ out = [t \in Turn |-> NoOutcome]
    /\ asks = [t \in Turn |-> 0]
    /\ raised = {} /\ answered = {}
    /\ ran = [t \in Turn |-> <<>>]
    /\ requests = [t \in Turn |-> 0]
    /\ steered = 0 /\ restores = 0

-----------------------------------------------------------------------------
(* Helpers *)

(* The task of t goes on as c. *)
Become(t, c) == task' = [task EXCEPT ![t] = c]

Goto(t, pc) == Become(t, [task[t] EXCEPT !.pc = pc])

(* On to another part of the code, with nothing but the sender. *)
Leave(t, pc) == Become(t, Fresh(pc, task[t].tx))

End(t) == Become(t, Fresh("done", NoTurn))

(* What is left of a batch when its calls are dropped. *)
Dropping(c) == [Fresh("drop", c.tx) EXCEPT !.k = c.k, !.n = c.n, !.step = c.step]

(* Definitions named Mut... are wrong variants of the definition that       *)
(* follows them; each breaks a property and shows that it can fail.         *)
MutOwnsTurn(t) == current_turn_id = t

(* owns_turn: the turn is live and its token is not cancelled. *)
OwnsTurn(t) == current_turn_id = t /\ ~cancelled[t]

MutDelivered(c, t, event) ==
    IF c # NoTurn THEN [out EXCEPT ![c] = [event |-> event, of |-> t]] ELSE out

(* What the handles see after a terminal event of turn t is sent on the     *)
(* stable channel of turn c.  TurnHandle::recv answers None after the first *)
(* terminal event, so only that one is kept.                                *)
Delivered(c, t, event) ==
    IF c # NoTurn /\ out[c] = NoOutcome
    THEN [out EXCEPT ![c] = [event |-> event, of |-> t]]
    ELSE out

Emit(t, event) == out' = Delivered(task[t].tx, t, event)

(* finish_turn: a turn that is no longer the live one consumes nothing. *)
FinishTurn(t) ==
    IF current_turn_id = t
    THEN current_turn_id' = NoTurn /\ turn_events' = NoTurn
    ELSE UNCHANGED <<current_turn_id, turn_events>>

UserEntry(t) == [kind |-> "user", turn |-> t, of |-> t, n |-> 0, res |-> <<>>]

(* push_assistant: one pending exchange per call. *)
AssistantEntry(t, step, calls) ==
    [kind |-> "assistant", turn |-> t, of |-> t, n |-> step,
     res |-> [i \in 1..calls |-> "pending"]]

PartialEntry(t, step) ==
    [kind |-> "partial", turn |-> t, of |-> t, n |-> step, res |-> <<>>]

(* drain_steering records a user's words under the draining turn's id, and a *)
(* notice as a System entry that carries no turn.                            *)
SteeredEntry(t, s) ==
    [kind |-> s.kind, turn |-> IF s.kind = "steer" THEN t ELSE NoTurn,
     of |-> s.of, n |-> s.n, res |-> <<>>]

MutInsertAfter(es, anchor, e) == Append(es, e)

(* insert_partial_assistant_after: beside the anchor, or nowhere once the   *)
(* anchor is gone.                                                          *)
InsertAfter(es, anchor, e) ==
    IF \E i \in 1..Len(es) : es[i] = anchor
    THEN LET i == CHOOSE i \in 1..Len(es) : es[i] = anchor
         IN  SubSeq(es, 1, i) \o <<e>> \o SubSeq(es, i + 1, Len(es))
    ELSE es

IndicesOf(es, kinds) == {i \in 1..Len(es) : es[i].kind \in kinds}

IsNewest(es, i, kinds) ==
    es[i].kind \in kinds /\ \A j \in IndicesOf(es, kinds) : j <= i

(* Session::record_tool_result looks at the newest assistant entry only; a  *)
(* result with no pending exchange there is dropped (a Warning is emitted). *)
Recorded(es, t, step, k, result) ==
    [i \in 1..Len(es) |->
        IF /\ IsNewest(es, i, {"assistant", "partial"})
           /\ es[i].turn = t /\ es[i].n = step
           /\ k \in DOMAIN es[i].res /\ es[i].res[k] = "pending"
        THEN [es[i] EXCEPT !.res[k] = result]
        ELSE es[i]]

budget_wrap_up_due(used, limit, sent) == ~sent /\ limit > 0 /\ used >= (limit * 4) \div 5

-----------------------------------------------------------------------------
(* Frames: what the steps of one kind leave alone *)

turnVars == <<current_turn_id, turn_events>>
ownVars  == <<cancelled, turn_budget>>
askVars  == <<asks, raised, answered>>

(* A task step touches no bootstrap, no handle and no restore. *)
TaskFrame == UNCHANGED <<restoring, boot, handle, steered, restores>>

(* A bootstrap step touches no handle but its own, and nothing a task did. *)
BootFrame == UNCHANGED <<restoring, tail, askVars, ran, requests, steered, restores>>

-----------------------------------------------------------------------------
(* Bootstrap: begin_turn, then drive_turn_handle *)

InFlight == {t \in Turn : boot[t].pc \notin {"idle", "done"}}

MutCancelToken == UNCHANGED cancelled

(* state.cancel.cancel(): the token of the newest turn installed. *)
CancelToken == cancelled' = [cancelled EXCEPT ![turn_budget.turn] = TRUE]

MutTellLive == UNCHANGED out

(* The consumer of the installed channel is told its turn is over. *)
TellLive == out' = Delivered(turn_events, turn_events, "cancelled")

(* begin_turn: the live turn is cancelled and its consumer told. *)
BeginSupersede(t) ==
    /\ boot[t].pc = "idle" /\ ~restoring
    /\ Cardinality(InFlight) < MaxBegin
    /\ IF current_turn_id # NoTurn
       THEN CancelToken /\ TellLive
       ELSE UNCHANGED <<cancelled, out>>
    /\ boot' = [boot EXCEPT ![t].pc = "orphan"]
    /\ UNCHANGED <<turnVars, pending, turn_budget, turn_boundary_denials, steering, entries,
                   task, handle>>
    /\ BootFrame

(* finalize_orphan_turn: the open turn is read under one lock... *)
OrphanRead(t) ==
    /\ boot[t].pc = "orphan" /\ ~restoring
    /\ boot' = [boot EXCEPT ![t] =
          [pc |-> IF current_turn_id = NoTurn THEN "install" ELSE "finish",
           orphan |-> current_turn_id]]
    /\ UNCHANGED <<turnVars, pending, ownVars, turn_boundary_denials, steering, entries,
                   task, handle, out>>
    /\ BootFrame

(* ...and finished under another. *)
OrphanFinish(t) ==
    /\ boot[t].pc = "finish" /\ ~restoring
    /\ FinishTurn(boot[t].orphan)
    /\ boot' = [boot EXCEPT ![t] = [pc |-> "install", orphan |-> NoTurn]]
    /\ UNCHANGED <<pending, ownVars, turn_boundary_denials, steering, entries,
                   task, handle, out>>
    /\ BootFrame

(* begin_turn: the new turn becomes the live one; a batch still parked is  *)
(* dropped, and with it the only thing left of its task.                   *)
Install(t) ==
    /\ boot[t].pc = "install" /\ ~restoring
    /\ entries' = Append(entries, UserEntry(t))
    /\ pending' = NoPending
    /\ current_turn_id' = t
    /\ turn_budget' = [NoBudget EXCEPT !.turn = t]
    /\ turn_boundary_denials' = 0
    /\ steering' = <<>>
    /\ boot' = [boot EXCEPT ![t].pc = "drive"]
    /\ task' = [u \in Turn |-> IF u = pending.turn THEN Fresh("done", NoTurn) ELSE task[u]]
    /\ UNCHANGED <<turn_events, cancelled, handle, out>>
    /\ BootFrame

(* drive_turn_handle: a turn that a later one superseded gets a handle whose *)
(* stream holds TurnCancelled and nothing runs; else its loop is spawned.    *)
Drive(t) ==
    /\ boot[t].pc = "drive" /\ ~restoring
    /\ boot' = [boot EXCEPT ![t].pc = "done"]
    /\ IF current_turn_id = t
       THEN /\ turn_events' = t
            /\ Become(t, Fresh("entry", t))
            /\ handle' = [handle EXCEPT ![t] = "open"]
            /\ UNCHANGED out
       ELSE /\ out' = Delivered(t, t, "cancelled")
            /\ UNCHANGED <<turn_events, task, handle>>
    /\ UNCHANGED <<current_turn_id, pending, ownVars, turn_boundary_denials, steering, entries>>
    /\ BootFrame

-----------------------------------------------------------------------------
(* The loop: run_loop up to the reply *)

(* run_loop's entry: a loop that no longer owns the turn returns. *)
Enter(t) ==
    /\ task[t].pc = "entry" /\ ~restoring
    /\ IF current_turn_id = t THEN Goto(t, "check0") ELSE End(t)
    /\ UNCHANGED <<turnVars, pending, ownVars, turn_boundary_denials, steering, entries,
                   tail, out, askVars, ran, requests>>
    /\ TaskFrame

Check0(t) ==
    /\ task[t].pc = "check0"
    /\ Leave(t, IF cancelled[t] THEN "finC" ELSE "spend")
    /\ UNCHANGED <<turnVars, pending, ownVars, turn_boundary_denials, steering, entries,
                   tail, out, askVars, ran, requests>>
    /\ TaskFrame

MutOverCap(used) == StepCap > 0 /\ used > StepCap + 1

OverCap(used) == StepCap > 0 /\ used > StepCap

(* spend_step and the step cap.  A budget that belongs to a newer turn ends *)
(* the loop; the step over the cap ends the turn.                           *)
SpendStep(t) ==
    /\ task[t].pc = "spend" /\ ~restoring
    /\ IF turn_budget.turn # t
       THEN End(t) /\ UNCHANGED <<turn_budget, out>>
       ELSE LET used == turn_budget.steps + 1
                over == OverCap(used)
            IN  /\ turn_budget' = [turn_budget EXCEPT !.steps = used]
                /\ IF over THEN Emit(t, "step_limit") ELSE UNCHANGED out
                /\ IF over THEN Leave(t, "abort")
                   ELSE Become(t, [task[t] EXCEPT
                           !.pc = "check", !.step = used,
                           !.rescued = turn_budget.overflow_rescued,
                           !.due = budget_wrap_up_due(used, StepCap, turn_budget.wrap_up_sent)])
    /\ UNCHANGED <<turnVars, pending, cancelled, turn_boundary_denials, steering, entries,
                   tail, askVars, ran, requests>>
    /\ TaskFrame

(* The cancel check, then mark_wrap_up_sent when the notice is due. *)
Check(t) ==
    /\ task[t].pc = "check" /\ ~restoring
    /\ IF cancelled[t] THEN Leave(t, "finC")
       ELSE Become(t, [task[t] EXCEPT !.pc = IF task[t].due THEN "notice" ELSE "drain",
                                      !.due = FALSE])
    /\ turn_budget' = IF ~cancelled[t] /\ task[t].due /\ turn_budget.turn = t
                      THEN [turn_budget EXCEPT !.wrap_up_sent = TRUE] ELSE turn_budget
    /\ UNCHANGED <<turnVars, pending, cancelled, turn_boundary_denials, steering, entries,
                   tail, out, askVars, ran, requests>>
    /\ TaskFrame

(* steer_notice: queued for whatever turn is live. *)
SteerNotice(t) ==
    /\ task[t].pc = "notice" /\ ~restoring
    /\ steering' = IF current_turn_id = NoTurn THEN steering
                   ELSE Append(steering, [kind |-> "notice", of |-> t, n |-> task[t].step])
    /\ Goto(t, "drain")
    /\ UNCHANGED <<turnVars, pending, ownVars, turn_boundary_denials, entries,
                   tail, out, askVars, ran, requests>>
    /\ TaskFrame

MutMayDrain(t) == TRUE

MayDrain(t) == current_turn_id = t

(* drain_steering: the whole queue goes into the transcript. *)
DrainSteering(t) ==
    /\ task[t].pc = "drain" /\ ~restoring
    /\ IF MayDrain(t)
       THEN /\ entries' = entries \o [i \in 1..Len(steering) |-> SteeredEntry(t, steering[i])]
            /\ steering' = <<>>
       ELSE UNCHANGED <<entries, steering>>
    /\ Goto(t, "anchor")
    /\ UNCHANGED <<turnVars, pending, ownVars, turn_boundary_denials,
                   tail, out, askVars, ran, requests>>
    /\ TaskFrame

(* The transcript is read for the request; its last entry is the anchor. *)
ReadAnchor(t) ==
    /\ task[t].pc = "anchor" /\ ~restoring /\ entries # <<>>
    /\ Become(t, [task[t] EXCEPT !.pc = "open", !.anchor = entries[Len(entries)]])
    /\ UNCHANGED <<turnVars, pending, ownVars, turn_boundary_denials, steering, entries,
                   tail, out, askVars, ran, requests>>
    /\ TaskFrame

(* open_turn_stream, raced with the token: the stream opens, the provider   *)
(* refuses the request as too long (rescued once per turn), or it fails.    *)
Open(t) ==
    /\ task[t].pc = "open"
    /\ \/ /\ cancelled[t]
          /\ Leave(t, "finC")
          /\ UNCHANGED <<turn_budget, out, requests>>
       \/ /\ ~cancelled[t]
          /\ requests' = [requests EXCEPT ![t] = @ + 1]
          /\ \/ Become(t, [task[t] EXCEPT !.pc = "stream", !.rescued = FALSE])
                /\ UNCHANGED <<turn_budget, out>>
             \/ /\ ~task[t].rescued /\ ~restoring
                /\ turn_budget' = IF turn_budget.turn = t
                                  THEN [turn_budget EXCEPT !.overflow_rescued = TRUE]
                                  ELSE turn_budget
                /\ Leave(t, "rescue")
                /\ UNCHANGED out
             \/ Leave(t, "abort") /\ Emit(t, "failed") /\ UNCHANGED turn_budget
    /\ UNCHANGED <<turnVars, pending, cancelled, turn_boundary_denials, steering, entries,
                   tail, askVars, ran>>
    /\ TaskFrame

(* The forced fold of an overflow rescue: applied, cancelled, or nothing to fold. *)
RescueFold(t) ==
    /\ task[t].pc = "rescue" /\ ~restoring
    /\ \/ cancelled[t] /\ Leave(t, "finC") /\ UNCHANGED out
       \/ ~cancelled[t] /\ Leave(t, "spend") /\ UNCHANGED out
       \/ Leave(t, "abort") /\ Emit(t, "failed")
    /\ UNCHANGED <<turnVars, pending, ownVars, turn_boundary_denials, steering, entries,
                   tail, askVars, ran, requests>>
    /\ TaskFrame

(* The reply streams in, raced with the token: n complete tool calls, an    *)
(* error mid-stream, or malformed calls (which keep no partial reply).      *)
Stream(t) ==
    /\ task[t].pc = "stream"
    /\ \/ cancelled[t] /\ Goto(t, "partialC") /\ UNCHANGED out
       \/ /\ ~cancelled[t]
          /\ \E n \in 0..MaxCalls : Become(t, [task[t] EXCEPT !.pc = "push", !.n = n])
          /\ UNCHANGED out
       \/ /\ ~cancelled[t]
          /\ Goto(t, "partialE") \/ Leave(t, "abort")
          /\ Emit(t, "failed")
    /\ UNCHANGED <<turnVars, pending, ownVars, turn_boundary_denials, steering, entries,
                   tail, askVars, ran, requests>>
    /\ TaskFrame

(* push_assistant, unless a successor or a cancel came first. *)
Push(t) ==
    /\ task[t].pc = "push" /\ ~restoring
    /\ IF OwnsTurn(t)
       THEN /\ entries' = Append(entries, AssistantEntry(t, task[t].step, task[t].n))
            /\ IF task[t].n = 0 THEN Leave(t, "finF")
               ELSE Become(t, [task[t] EXCEPT !.pc = "batch", !.anchor = NoEntry])
       ELSE Goto(t, "partialC") /\ UNCHANGED entries
    /\ UNCHANGED <<turnVars, pending, ownVars, turn_boundary_denials, steering,
                   tail, out, askVars, ran, requests>>
    /\ TaskFrame

(* record_partial_reply: kept beside its anchor unless it has no text. *)
RecordPartial(t) ==
    /\ task[t].pc \in {"partialC", "partialE"} /\ ~restoring
    /\ entries' \in {entries, InsertAfter(entries, task[t].anchor, PartialEntry(t, task[t].step))}
    /\ Leave(t, IF task[t].pc = "partialC" THEN "finC" ELSE "abort")
    /\ UNCHANGED <<turnVars, pending, ownVars, turn_boundary_denials, steering,
                   tail, out, askVars, ran, requests>>
    /\ TaskFrame

-----------------------------------------------------------------------------
(* The batch: process_tool_batch and what it calls *)

(* The next call, alone or as the first of a group of sub-agent dispatches  *)
(* that run together; a batch that lost its turn drops what is left.        *)
Batch(t) ==
    /\ task[t].pc = "batch" /\ ~restoring
    /\ \/ task[t].k > task[t].n /\ Goto(t, "breaker")
       \/ /\ task[t].k <= task[t].n /\ ~OwnsTurn(t)
          /\ Become(t, Dropping(task[t]))
       \/ /\ task[t].k <= task[t].n /\ OwnsTurn(t)
          /\ \E hi \in task[t].k .. task[t].n :
                Become(t, [task[t] EXCEPT !.pc = "run", !.hi = hi, !.at = task[t].k])
    /\ UNCHANGED <<turnVars, pending, ownVars, turn_boundary_denials, steering, entries,
                   tail, out, askVars, ran, requests>>
    /\ TaskFrame

(* run_tool of the next call of the group.  Alone, the call may also be     *)
(* answered without running (unknown tool, policy or human denial, a root   *)
(* grant that no longer resolves) or, undecided, ask for an approval: the   *)
(* registry asks only when no decision came with the call.                  *)
RunTool(t) ==
    LET c == task[t] IN
    /\ c.pc = "run" /\ ~restoring
    /\ \/ /\ ~OwnsTurn(t)
          /\ Goto(t, IF c.at = c.k THEN "record" ELSE "exec")
          /\ UNCHANGED ran
       \/ /\ OwnsTurn(t) /\ c.hi = c.k
          /\ \E got \in IF c.auth = "denied" THEN {"done"} ELSE {"done", "bounds"} :
                Become(t, [c EXCEPT !.pc = "record", !.at = @ + 1, !.got = got])
          /\ UNCHANGED ran
       \/ /\ OwnsTurn(t) /\ c.hi = c.k /\ c.auth = "none"
          /\ Goto(t, "gate")
          /\ UNCHANGED ran
       \/ /\ OwnsTurn(t) /\ c.auth # "denied"
          /\ ran' = [ran EXCEPT ![t] =
                Append(@, [step |-> c.step, k |-> c.at, auth |-> c.auth, ask |-> c.ask])]
          /\ Become(t, [c EXCEPT !.at = @ + 1, !.pc = IF c.at = c.hi THEN "exec" ELSE "run"])
    /\ UNCHANGED <<turnVars, pending, ownVars, turn_boundary_denials, steering, entries,
                   tail, out, askVars, requests>>
    /\ TaskFrame

(* Every started call of the group has returned, or one panicked and        *)
(* supervise_turn closes the turn.                                          *)
ToolReturns(t) ==
    /\ task[t].pc = "exec"
    /\ \/ /\ \E got \in IF task[t].hi = task[t].k THEN {"done", "bounds"} ELSE {"done"} :
                Become(t, [task[t] EXCEPT !.pc = "record", !.got = got])
          /\ UNCHANGED out
       \/ Leave(t, "abort") /\ Emit(t, "failed")
    /\ UNCHANGED <<turnVars, pending, ownVars, turn_boundary_denials, steering, entries,
                   tail, askVars, ran, requests>>
    /\ TaskFrame

(* auto_approval_granted and root_grant_prompt_target: the call is approved *)
(* automatically, refused before anyone is asked, or put to the user.       *)
Gate(t) ==
    /\ task[t].pc = "gate" /\ ~restoring
    /\ \/ /\ Become(t, [task[t] EXCEPT !.pc = "run", !.auth = "auto"])
          /\ UNCHANGED asks
       \/ /\ Become(t, [task[t] EXCEPT !.pc = "record", !.at = @ + 1, !.got = "done"])
          /\ UNCHANGED asks
       \/ /\ asks[t] < MaxAsks
          /\ asks' = [asks EXCEPT ![t] = @ + 1]
          /\ Become(t, [task[t] EXCEPT !.pc = "park", !.ask = asks[t] + 1])
    /\ UNCHANGED <<turnVars, pending, ownVars, turn_boundary_denials, steering, entries,
                   tail, out, raised, answered, ran, requests>>
    /\ TaskFrame

MutMayPark(t) == current_turn_id = t

MayPark(t) == ~cancelled[t] /\ current_turn_id = t

(* The park: under the lock the token and the live turn are checked again. *)
Park(t) ==
    /\ task[t].pc = "park" /\ ~restoring
    /\ IF MayPark(t)
       THEN /\ pending' = [turn |-> t, ask |-> task[t].ask]
            /\ raised' = raised \cup {[turn |-> t, ask |-> task[t].ask,
                                       step |-> task[t].step, k |-> task[t].k]}
            /\ tail' = [tail EXCEPT ![t] = TRUE]
            /\ Goto(t, "parked")
       ELSE /\ Become(t, Dropping(task[t]))
            /\ UNCHANGED <<pending, raised, tail>>
    /\ UNCHANGED <<turnVars, ownVars, turn_boundary_denials, steering, entries,
                   out, asks, answered, ran, requests>>
    /\ TaskFrame

(* The task that parked saves, shows ApprovalRequired and is gone. *)
EmitAsk(t) ==
    /\ tail[t]
    /\ tail' = [tail EXCEPT ![t] = FALSE]
    /\ UNCHANGED <<stateVars, boot, task, handle, seenVars>>

MutAnswersPending(a) == pending.turn = a.turn

(* The answer names the very request that is parked. *)
AnswersPending(a) == pending.turn = a.turn /\ pending.ask = a.ask

(* state.pending.take() *)
TakePending == pending' = NoPending

(* submit_approval: the id must be the parked one; the batch is taken. *)
SubmitApproval(a, decision) ==
    /\ a \in raised /\ ~tail[a.turn] /\ ~restoring
    /\ AnswersPending(a)
    /\ TakePending
    /\ answered' = answered \cup {[turn |-> a.turn, ask |-> a.ask, decision |-> decision]}
    /\ Become(a.turn, [task[a.turn] EXCEPT
          !.pc = "channel", !.auth = IF decision = "approved" THEN "human" ELSE "denied"])
    /\ UNCHANGED <<turnVars, ownVars, turn_boundary_denials, steering, entries,
                   tail, out, asks, raised, ran, requests>>
    /\ TaskFrame

MutChannelOf(t) == turn_events

ChannelOf(t) == IF turn_events = t THEN t ELSE NoTurn

(* event_channel: the turn's stable channel, or a private one nobody reads. *)
ResolveChannel(t) ==
    /\ task[t].pc = "channel" /\ ~restoring
    /\ Become(t, [task[t] EXCEPT !.pc = "answer", !.tx = ChannelOf(t)])
    /\ UNCHANGED <<turnVars, pending, ownVars, turn_boundary_denials, steering, entries,
                   tail, out, askVars, ran, requests>>
    /\ TaskFrame

(* handle_approval: ownership is validated again before the call may run. *)
HandleApproval(t) ==
    /\ task[t].pc = "answer" /\ ~restoring
    /\ IF OwnsTurn(t)
       THEN Become(t, [task[t] EXCEPT !.pc = "run", !.asked = TRUE, !.again = TRUE])
       ELSE Become(t, Dropping(task[t]))
    /\ UNCHANGED <<turnVars, pending, ownVars, turn_boundary_denials, steering, entries,
                   tail, out, askVars, ran, requests>>
    /\ TaskFrame

MutResultOf(c) == IF c.k + 1 < c.at THEN c.got ELSE "cancelled"

ResultOf(c) == IF c.k < c.at THEN c.got ELSE "cancelled"

MutRestOf(c) == IF c.asked THEN c.k ELSE c.k + 1

(* What a batch goes on with once call k is answered. *)
RestOf(c) == c.k + 1

(* record_tool_result of the first unrecorded call: a call the group never  *)
(* started is recorded as cancelled.                                        *)
RecordResult(t) ==
    LET c      == task[t]
        result == ResultOf(c)
    IN
    /\ c.pc = "record" /\ ~restoring
    /\ entries' = Recorded(entries, t, c.step, c.k, result)
    /\ turn_boundary_denials' = IF result = "bounds" /\ current_turn_id = t
                                THEN turn_boundary_denials + 1 ELSE turn_boundary_denials
    /\ IF c.k < c.hi THEN Become(t, [c EXCEPT !.k = @ + 1])
       ELSE Become(t, [Fresh(IF c.asked THEN "resume" ELSE "batch", c.tx) EXCEPT
                         !.k = RestOf(c), !.n = c.n, !.step = c.step, !.again = c.again])
    /\ UNCHANGED <<turnVars, pending, ownVars, steering, tail, out, askVars, ran, requests>>
    /\ TaskFrame

(* resume_after_batch: the rest of a batch a human answer resumed. *)
Resume(t) ==
    /\ task[t].pc = "resume" /\ ~restoring
    /\ IF OwnsTurn(t) THEN Goto(t, "batch") ELSE Become(t, Dropping(task[t]))
    /\ UNCHANGED <<turnVars, pending, ownVars, turn_boundary_denials, steering, entries,
                   tail, out, askVars, ran, requests>>
    /\ TaskFrame

(* finish_cancelled_calls: one synthesized result per call left. *)
DropCalls(t) ==
    LET c == task[t] IN
    /\ c.pc = "drop" /\ ~restoring
    /\ IF c.k <= c.n
       THEN /\ entries' = Recorded(entries, t, c.step, c.k, "cancelled")
            /\ Become(t, [c EXCEPT !.k = @ + 1])
       ELSE Leave(t, "finC") /\ UNCHANGED entries
    /\ UNCHANGED <<turnVars, pending, ownVars, turn_boundary_denials, steering,
                   tail, out, askVars, ran, requests>>
    /\ TaskFrame

(* boundary_breaker_tripped, then the next iteration: of this loop, or of   *)
(* the one resume_after_batch enters.                                       *)
Breaker(t) ==
    /\ task[t].pc = "breaker" /\ ~restoring
    /\ IF turn_boundary_denials >= DenialBreaker
       THEN Leave(t, "abort") /\ Emit(t, "failed")
       ELSE Leave(t, IF task[t].again THEN "entry" ELSE "spend") /\ UNCHANGED out
    /\ UNCHANGED <<turnVars, pending, ownVars, turn_boundary_denials, steering, entries,
                   tail, askVars, ran, requests>>
    /\ TaskFrame

-----------------------------------------------------------------------------
(* The end of a turn *)

(* finish_turn (from finish_turn_cancelled, the normal end, or abort_turn). *)
Finish(t) ==
    /\ task[t].pc \in {"finC", "finF", "abort"} /\ ~restoring
    /\ FinishTurn(t)
    /\ IF task[t].pc = "abort" THEN End(t)
       ELSE Goto(t, IF task[t].pc = "finC" THEN "emitC" ELSE "emitF")
    /\ UNCHANGED <<pending, ownVars, turn_boundary_denials, steering, entries,
                   tail, out, askVars, ran, requests>>
    /\ TaskFrame

(* TurnCancelled or TurnFinished goes out after the turn is closed. *)
EmitTerminal(t) ==
    /\ task[t].pc \in {"emitC", "emitF"}
    /\ Emit(t, IF task[t].pc = "emitC" THEN "cancelled" ELSE "finished")
    /\ End(t)
    /\ UNCHANGED <<stateVars, tail, askVars, ran, requests>>
    /\ UNCHANGED <<boot, handle, steered, restores>>

-----------------------------------------------------------------------------
(* Front ends *)

MutCancelInner == TakePending /\ CancelToken /\ steering' = <<>> /\ UNCHANGED task

(* cancel_turn_inner once its turn check passed: the parked batch is taken  *)
(* and finalized by a new task on the installed channel, whoever's it is.   *)
CancelInner ==
    /\ TakePending
    /\ IF pending # NoPending \/ current_turn_id # NoTurn THEN CancelToken
       ELSE UNCHANGED cancelled
    /\ steering' = <<>>
    /\ task' = [t \in Turn |-> IF t = pending.turn
                              THEN [Dropping(task[t]) EXCEPT !.tx = turn_events]
                              ELSE task[t]]

(* cancel_turn: Esc, or shutdown.  Idle runtimes do nothing. *)
CancelTurn ==
    /\ ~restoring
    /\ pending # NoPending \/ current_turn_id # NoTurn \/ steering # <<>>
    /\ CancelInner
    /\ UNCHANGED <<turnVars, turn_budget, turn_boundary_denials, entries, restoring,
                   boot, tail, handle, seenVars>>

(* TurnHandle::cancel and its Drop: the token first, without the lock... *)
HandleFlip(t) ==
    /\ handle[t] = "open"
    /\ Cardinality({u \in Turn : handle[u] \in {"flipped", "closed"}}) < MaxDrop
    /\ handle' = [handle EXCEPT ![t] = "flipped"]
    /\ cancelled' = [cancelled EXCEPT ![t] = TRUE]
    /\ UNCHANGED <<turnVars, pending, turn_budget, turn_boundary_denials, steering, entries,
                   restoring, boot, task, tail, seenVars>>

(* ...then cancel_turn_if, which acts on no other turn. *)
HandleCancelIf(t) ==
    /\ handle[t] = "flipped" /\ ~restoring
    /\ handle' = [handle EXCEPT ![t] = "closed"]
    /\ IF current_turn_id = t THEN CancelInner
       ELSE UNCHANGED <<pending, cancelled, steering, task>>
    /\ UNCHANGED <<turnVars, turn_budget, turn_boundary_denials, entries, restoring,
                   boot, tail, seenVars>>

MutSteerAccepted == TRUE

SteerAccepted == current_turn_id # NoTurn

(* steer: accepted only while a turn is live. *)
SteerUser ==
    /\ steered < MaxSteer /\ SteerAccepted /\ ~restoring
    /\ steered' = steered + 1
    /\ steering' = Append(steering, [kind |-> "steer", of |-> current_turn_id, n |-> steered + 1])
    /\ UNCHANGED <<turnVars, pending, ownVars, turn_boundary_denials, entries, restoring,
                   taskVars, out, askVars, ran, requests, restores>>

MutRestoreRefused == pending # NoPending

RestoreRefused == current_turn_id # NoTurn \/ pending # NoPending

(* restore_checkpoint: refused while a turn is live or parked, and the      *)
(* state lock is held until the workspace is rewritten.                     *)
RestoreBegin ==
    /\ ~restoring /\ ~RestoreRefused
    /\ restores < MaxRestore
    /\ restoring' = TRUE
    /\ restores' = restores + 1
    /\ UNCHANGED <<turnVars, pending, ownVars, turn_boundary_denials, steering, entries,
                   taskVars, out, askVars, ran, requests, steered>>

RestoreEnd ==
    /\ restoring
    /\ restoring' = FALSE
    /\ UNCHANGED <<turnVars, pending, ownVars, turn_boundary_denials, steering, entries,
                   taskVars, seenVars>>

-----------------------------------------------------------------------------
(* Specification *)

BootStep(t) ==
    BeginSupersede(t) \/ OrphanRead(t) \/ OrphanFinish(t) \/ Install(t) \/ Drive(t)

LoopStep(t) ==
    \/ Enter(t) \/ Check0(t) \/ SpendStep(t) \/ Check(t) \/ SteerNotice(t)
    \/ DrainSteering(t) \/ ReadAnchor(t) \/ Open(t) \/ RescueFold(t) \/ Stream(t)
    \/ Push(t) \/ RecordPartial(t)

BatchStep(t) ==
    \/ Batch(t) \/ RunTool(t) \/ ToolReturns(t) \/ Gate(t) \/ Park(t)
    \/ ResolveChannel(t) \/ HandleApproval(t) \/ RecordResult(t) \/ Resume(t)
    \/ DropCalls(t) \/ Breaker(t)

TaskStep(t) == LoopStep(t) \/ BatchStep(t) \/ Finish(t) \/ EmitTerminal(t)

FrontEnd ==
    \/ CancelTurn \/ SteerUser \/ RestoreBegin \/ RestoreEnd
    \/ \E t \in Turn : HandleFlip(t) \/ HandleCancelIf(t)
    \/ \E a \in raised, d \in {"approved", "denied"} : SubmitApproval(a, d)

Next ==
    \/ \E t \in Turn : BootStep(t) \/ TaskStep(t) \/ EmitAsk(t)
    \/ FrontEnd

Spec == Init /\ [][Next]_vars

(* The executor polls every task that can go on, tools and streams return   *)
(* (their own timeouts see to it), a dropped handle's cancel task runs and  *)
(* a restore ends.  Nobody has to prompt, answer, steer or cancel.          *)
Fairness ==
    /\ \A t \in Turn :
         /\ WF_vars(BootStep(t) /\ boot[t].pc # "idle")
         /\ WF_vars(TaskStep(t))
         /\ WF_vars(EmitAsk(t))
         /\ WF_vars(HandleCancelIf(t))
    /\ WF_vars(RestoreEnd)

FairSpec == Spec /\ Fairness

-----------------------------------------------------------------------------
(* Properties *)

(* No tool call runs twice, whatever parks, resumes and cancels its batch    *)
(* went through (process_tool_batch, submit_approval, cancel_turn_inner each *)
(* take the batch out of pending under the lock).                            *)
CallsRunOnce ==
    \A t \in Turn : \A i, j \in 1..Len(ran[t]) :
        i # j => <<ran[t][i].step, ran[t][i].k>> # <<ran[t][j].step, ran[t][j].k>>

(* A call somebody was asked about runs only on that very request's own     *)
(* approval: not on an answer to an earlier prompt, and never after a no    *)
(* (submit_approval's id check, handle_approval).                           *)
HumanConsent ==
    \A t \in Turn : \A i \in 1..Len(ran[t]) :
        LET r == ran[t][i]
            asked == {a \in raised : a.turn = t /\ a.step = r.step /\ a.k = r.k}
        IN  /\ r.auth = "human" => asked # {}
            /\ \A a \in asked :
                 {x \in answered : x.turn = t /\ x.ask = a.ask} =
                    {[turn |-> t, ask |-> a.ask, decision |-> "approved"]}

(* TurnBudget: one turn opens at most turn_steps model streams, counted     *)
(* across every approval park and overflow rescue inside it.                *)
BudgetHolds == \A t \in Turn : StepCap > 0 => requests[t] <= StepCap

(* A parked batch has a live owner with an installed channel, or someone is *)
(* already on the way to clear it: a prompt is never left that no answer,   *)
(* cancel or later prompt would resolve (the park's re-check under the      *)
(* lock against cancel_turn_inner and begin_turn).                          *)
ParkedIsCancellable ==
    pending.turn # NoTurn =>
        \/ /\ current_turn_id = pending.turn /\ turn_events = pending.turn
           /\ cancelled[pending.turn] =>
                \/ handle[pending.turn] = "flipped"
                \/ \E b \in Turn : boot[b].pc \in {"orphan", "finish", "install"}
        \/ current_turn_id = NoTurn /\ \E b \in Turn : boot[b].pc = "install"

(* A handle is only ever told of the end of its own turn, although a cancel *)
(* sends on whichever channel is installed (cancel_turn_inner) and a resume *)
(* looks its channel up after it took the batch (event_channel).            *)
OwnOutcome == \A c \in Turn : out[c].of \in {c, NoTurn}

(* A prompt steered into a turn is recorded in that turn or not at all:     *)
(* begin_turn and cancel clear the queue.                                   *)
SteerLandsInItsTurn ==
    \A i \in 1..Len(entries) : entries[i].kind = "steer" => entries[i].of = entries[i].turn

(* What the transcript tells the model: a call recorded as cancelled before *)
(* execution (CANCELLED_TOOL_RESULT) was never started.                     *)
CancelledCallNeverRan ==
    \A i \in 1..Len(entries) : \A k \in DOMAIN entries[i].res :
        entries[i].res[k] = "cancelled" =>
            ~ \E j \in 1..Len(ran[entries[i].turn]) :
                 ran[entries[i].turn][j].step = entries[i].n /\ ran[entries[i].turn][j].k = k

(* Every call comes to one end: it runs at most once, or it is reported as  *)
(* cancelled and does not run at all.                                       *)
CallsAreSettled == CallsRunOnce /\ CancelledCallNeverRan

(* The entries of one turn stay together: what a superseded loop still      *)
(* records lands beside its own request, never inside its successor's turn  *)
(* (insert_partial_assistant_after, run_loop's check before push_assistant). *)
HistoryContiguous ==
    \A i, j \in 1..Len(entries) :
        (i < j /\ entries[i].turn = entries[j].turn /\ entries[i].turn # NoTurn) =>
            \A m \in i..j : entries[m].turn \in {entries[i].turn, NoTurn}

(* begin_turn's promise to a live turn: a loop that waits for the model or  *)
(* a tool after losing its turn has a cancelled token to wake it.           *)
SupersededIsCancelled ==
    \A t \in Turn : (task[t].pc \in {"open", "stream", "exec"} /\ current_turn_id # t)
                     => cancelled[t]

(* run_loop and the batch paths end only after the consumer has been told   *)
(* the outcome, unless they leave a parked batch behind.                    *)
TerminalBeforeReturn ==
    \A t \in Turn : task[t].pc = "done" => out[t] # NoOutcome

(* Turns follow one another: a superseded loop has a cancelled token to wake *)
(* it, what it still records lands beside its own request and never inside   *)
(* its successor's, and it returns only after its consumer was told.         *)
TurnsAreSerial == HistoryContiguous /\ SupersededIsCancelled /\ TerminalBeforeReturn

(* A result always finds its exchange: the newest assistant entry is the    *)
(* one whose batch is running (Session::record_tool_result).                *)
ResultHasItsExchange ==
    \A t \in Turn : task[t].pc = "record" =>
        \E i \in 1..Len(entries) :
            /\ IsNewest(entries, i, {"assistant", "partial"})
            /\ entries[i].turn = t /\ entries[i].n = task[t].step

(* No tool of any turn runs while a restore rewrites the workspace, the     *)
(* words of restore_checkpoint. They do not hold: a loop that a later       *)
(* begin_turn superseded may still be inside its tool.                      *)
RestoreAlone == restoring => \A t \in Turn : task[t].pc # "exec"

(* What its check does give. While a restore rewrites the workspace no turn *)
(* is live or parked, and a tool that still runs belongs to a turn whose    *)
(* token is cancelled, whose consumer was told it is over, and which        *)
(* another begin_turn superseded: the turn the user sees is never among     *)
(* those that write (restore_checkpoint, begin_turn).                       *)
RestoreMeetsLosers ==
    restoring =>
        /\ current_turn_id = NoTurn /\ pending = NoPending
        /\ \A t \in Turn : task[t].pc = "exec" =>
               /\ cancelled[t] /\ out[t] # NoOutcome
               /\ \E u \in Turn \ {t} : boot[u].pc # "idle"

(* Once a consumer has been told its turn is over, none of the turn's tools *)
(* starts (begin_turn emits TurnCancelled while the turn is still the live  *)
(* one; only the token holds it back).                                      *)
NothingRunsAfterTheEnd ==
    [][\A t \in Turn : out[t] # NoOutcome => ran'[t] = ran[t]]_vars

(* A driven turn comes to an outcome or to a question for the user, and to  *)
(* an outcome once it was told to stop: no task waits on a task that waits  *)
(* on it (state lock, park, cancel, restore).                               *)
HandleResolves ==
    \A t \in Turn :
        boot[t].pc = "done" ~> (out[t] # NoOutcome \/ (pending.turn = t /\ ~cancelled[t]))

(***************************************************************************)
(* What the runtime promises the holder of a handle.                       *)
(***************************************************************************)

(* The handle's view of a turn: pending is the parked request, the first    *)
(* terminal event on the turn's channel is its verdict.                     *)
Contract == INSTANCE TurnContract WITH
    live    <- current_turn_id,
    begun   <- {t \in Turn : boot[t].pc \in {"drive", "done"}},
    verdict <- [t \in Turn |-> out[t].event],
    stop    <- cancelled,
    parked  <- pending,
    asked   <- {[turn |-> r.turn, ask |-> r.ask] : r \in raised}

(* TurnRuntime implements TurnContract: supersession, cancellation, parks   *)
(* and late finalizers never reopen an approval id, change a verdict once   *)
(* delivered, revive a turn or take back its stop                           *)
(* (begin_turn, finish_turn, TurnHandle::recv, park_pending_batch).         *)
ImplementsContract == Contract!ContractSpec
=============================================================================
