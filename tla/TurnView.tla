------------------------------ MODULE TurnView ------------------------------
(***************************************************************************)
(* What the screen shows of a turn: the cells its events build one by one, *)
(* and the cells a resumed session builds from the record of the same turn.*)
(* The runtime is here as the order in which it records and reports.       *)
(***************************************************************************)
EXTENDS Naturals, Sequences, SequencesExt

CONSTANTS
    MaxRounds,      \* bound: replies of the turn
    MaxCalls,       \* bound: calls of the turn
    MaxInjected     \* bound: prompts steered into the turn

ASSUME ViewAssumption == {MaxRounds, MaxCalls, MaxInjected} \subseteq Nat

VARIABLES
    record,     \* SessionRecord::entries of the turn
    chan,       \* the events on their way to the app
    view,       \* App: history, active_turn, cancel_requested
    at          \* where the turn is

viewVars == <<record, chan, view, at>>

Tools == {"quiet", "loud"}      \* tool_log_label knows a tool, or not

NoTool == 0

FreshTurn == [prose |-> {}, of |-> 0, tools |-> <<>>, diagnostics |-> 0, pending |-> NoTool]

(* Cells *)
Cell(kind, ids, tag) == [kind |-> kind, ids |-> ids, tag |-> tag]
User(n)              == Cell("user", <<n>>, "")
Notes(n)             == [i \in 1..n |-> Cell("diagnostics", <<>>, "")]
CallCell(t)          == Cell("call", <<t.id>>, t.approval)

Prose(prose, n) ==
    (IF "reasoning" \in prose THEN <<Cell("reasoning", <<n>>, "")>> ELSE <<>>)
    \o (IF "assistant" \in prose THEN <<Cell("assistant", <<n>>, "")>> ELSE <<>>)

ViewInit ==
    /\ record = <<[kind |-> "user", n |-> 0, prose |-> {}, exchanges |-> <<>>]>>
    /\ chan = <<>>
    /\ view = [history |-> <<User(0)>>, active |-> FreshTurn, cancel_requested |-> FALSE]
    /\ at = [pc |-> "stream", round |-> 0, k |-> 0, calls |-> 0, injected |-> 0,
             given_up |-> NoTool, unkept |-> 0]

-----------------------------------------------------------------------------
(* Folding quiet calls *)

quiet_while_running(tool, approval) == tool = "quiet" /\ approval = "not_required"

folded_entry(tool, approval, status) == quiet_while_running(tool, approval) /\ status = "success"

(* A folded call joins the batch it directly follows. *)
Fold(cells, id) ==
    IF cells # <<>> /\ Last(cells).kind = "batch"
    THEN [cells EXCEPT ![Len(cells)].ids = Append(@, id)]
    ELSE Append(cells, Cell("batch", <<id>>, ""))

-----------------------------------------------------------------------------
(* The live screen: active_turn and apply_runtime_event *)

Find(tools, id) == SelectInSeq(tools, LAMBDA t : t.id = id)

upsert_tool(a, t) ==
    LET i == Find(a.tools, t.id)
    IN  [a EXCEPT !.tools = IF i = 0 THEN Append(@, t) ELSE [@ EXCEPT ![i] = t]]

mark_approval_required(a, t) ==
    [upsert_tool(a, [t EXCEPT !.approval = "required"]) EXCEPT !.pending = t.id]

resolve_approval(a, decision) ==
    LET i == Find(a.tools, a.pending)
    IN  IF a.pending = NoTool \/ i = 0 THEN [a EXCEPT !.pending = NoTool]
        ELSE [a EXCEPT !.pending = NoTool, !.tools = [@ EXCEPT ![i].approval = decision]]

abandon_unanswered_approvals(a) ==
    [a EXCEPT !.tools = [i \in DOMAIN @ |->
        IF @[i].approval = "required" THEN [@[i] EXCEPT !.approval = "unknown"] ELSE @[i]]]

flushed_cells(a) ==
    Prose(a.prose, a.of) \o [i \in DOMAIN a.tools |-> CallCell(a.tools[i])] \o Notes(a.diagnostics)

flush_active_turn(v) == [v EXCEPT !.history = @ \o flushed_cells(v.active), !.active = FreshTurn]

MutTakeFinishedTool(a, id) == [a EXCEPT !.diagnostics = 0, !.tools = SelectSeq(@, LAMBDA t : t.id # id)]

(* What is left of the active turn when one call has finished. *)
take_finished_tool(a, id) ==
    [a EXCEPT !.prose = {}, !.diagnostics = 0, !.tools = SelectSeq(@, LAMBDA t : t.id # id)]

ToolCallFinished(v, id, status) ==
    LET a     == v.active
        i     == Find(a.tools, id)
        prose == v.history \o Prose(a.prose, a.of)
        quiet == /\ i # 0 /\ a.diagnostics = 0
                 /\ folded_entry(a.tools[i].tool, a.tools[i].approval, status)
    IN  [v EXCEPT !.active = take_finished_tool(a, id),
                  !.history = IF quiet THEN Fold(prose, id)
                              ELSE prose \o (IF i = 0 THEN <<>> ELSE <<CallCell(a.tools[i])>>)
                                   \o Notes(a.diagnostics) \o <<Cell("result", <<id>>, status)>>]

Said(v) == [v EXCEPT !.history = Append(@, Cell("system", <<>>, ""))]

apply_runtime_event(v, e) ==
    CASE e.type = "delta" -> [v EXCEPT !.active.prose = @ \cup {e.tag}, !.active.of = e.n]
      [] e.type = "started" ->
           [v EXCEPT !.active = upsert_tool(@, [id |-> e.n, tool |-> e.tag, approval |-> "not_required"])]
      [] e.type = "required" ->
           IF v.cancel_requested THEN v
           ELSE [v EXCEPT !.active = mark_approval_required(@, [id |-> e.n, tool |-> e.tag,
                                                               approval |-> "required"])]
      [] e.type = "resolved" -> [v EXCEPT !.active = resolve_approval(@, e.tag)]
      [] e.type = "diagnostics" -> [v EXCEPT !.active.diagnostics = @ + 1]
      [] e.type = "finished" -> ToolCallFinished(v, e.n, e.tag)
      [] e.type = "injected" -> [flush_active_turn(v) EXCEPT !.history = Append(@, User(e.n))]
      [] e.type = "turn_finished" -> [flush_active_turn(v) EXCEPT !.cancel_requested = FALSE]
      [] e.type = "turn_cancelled" ->
           Said([flush_active_turn([v EXCEPT !.active = abandon_unanswered_approvals(@)])
                   EXCEPT !.cancel_requested = FALSE])
      [] e.type = "error" -> Said([flush_active_turn(v) EXCEPT !.cancel_requested = FALSE])

drain_one ==
    /\ chan # <<>>
    /\ view' = apply_runtime_event(view, Head(chan)) /\ chan' = Tail(chan)
    /\ UNCHANGED <<record, at>>

-----------------------------------------------------------------------------
(* The resumed screen *)

MutApprovalOf(x) ==
    IF x.asked THEN IF x.status = "denied" THEN "denied" ELSE "approved"
    ELSE IF x.status = "denied" THEN "denied" ELSE "not_required"

ApprovalOf(x) ==
    IF ~x.asked THEN "not_required" ELSE IF x.status = "denied" THEN "denied" ELSE "approved"

Exchange(cells, x) ==
    IF x.status # "none" /\ folded_entry(x.tool, ApprovalOf(x), x.status) THEN Fold(cells, x.id)
    ELSE cells \o <<Cell("call", <<x.id>>, ApprovalOf(x))>>
               \o (IF x.status = "none" THEN <<>> ELSE <<Cell("result", <<x.id>>, x.status)>>)

hydrate_history(entries) ==
    LET entry(cells, e) ==
            IF e.kind = "user" THEN Append(cells, User(e.n))
            ELSE FoldLeft(Exchange, cells \o Prose(e.prose, e.n), e.exchanges)
    IN  FoldLeft(entry, <<>>, entries)

-----------------------------------------------------------------------------
(* The turn *)

Event(type, n, tag) == [type |-> type, n |-> n, tag |-> tag]

Emits(es) == chan' = chan \o es

Deltas(prose, n) ==
    (IF "reasoning" \in prose THEN <<Event("delta", n, "reasoning")>> ELSE <<>>)
    \o (IF "assistant" \in prose THEN <<Event("delta", n, "assistant")>> ELSE <<>>)

Assistant(n, prose, exchanges) ==
    [kind |-> "assistant", n |-> n, prose |-> prose, exchanges |-> exchanges]

Prosaic == {{}, {"reasoning", "assistant"}}

Id(round, k) == 10 * round + k

(* A reply with calls, or the last one. *)
push_assistant ==
    /\ at.pc = "stream" /\ at.round < MaxRounds
    /\ \E prose \in Prosaic, m \in 0..(MaxCalls - at.calls) : \E tool \in [1..m -> Tools] :
         LET r == at.round + 1
             x == [k \in 1..m |-> [id |-> Id(r, k), tool |-> tool[k], status |-> "none", asked |-> FALSE]]
         IN  /\ record' = Append(record, Assistant(r, prose, x))
             /\ Emits(Deltas(prose, r) \o [k \in 1..m |-> Event("started", Id(r, k), tool[k])]
                      \o IF m = 0 THEN <<Event("turn_finished", 0, "")>> ELSE <<>>)
             /\ at' = [at EXCEPT !.round = r, !.k = 1, !.calls = @ + m, !.pc = IF m = 0 THEN "over" ELSE "calls"]
    /\ UNCHANGED view

(* The stream breaks, or the user stops it: what was said is kept, unless   *)
(* it was a call that could not be read.                                    *)
record_partial_reply ==
    /\ at.pc = "stream" /\ at.round < MaxRounds
    /\ \E prose \in Prosaic, end \in {"error", "unreadable", "turn_cancelled"} :
         LET r == at.round + 1
         IN  /\ end = "turn_cancelled" => view.cancel_requested
             /\ record' = IF end = "unreadable" \/ prose = {} THEN record
                          ELSE Append(record, Assistant(r, prose, <<>>))
             /\ Emits(Deltas(prose, r)
                      \o <<Event(IF end = "unreadable" THEN "error" ELSE end, 0, "")>>)
             /\ at' = [at EXCEPT !.pc = "over", !.unkept = IF end = "unreadable" THEN r ELSE 0]
    /\ UNCHANGED view

Calls == Last(record).exchanges

ThisCall == Calls[at.k]

MutSetResult(status, asked) ==
    record' = [record EXCEPT ![Len(record)].exchanges[at.k].status = status]

SetResult(status, asked) ==
    record' = [record EXCEPT ![Len(record)].exchanges[at.k].status = status,
                             ![Len(record)].exchanges[at.k].asked = asked]

NextCall == at' = IF at.k < Len(Calls) THEN [at EXCEPT !.pc = "calls", !.k = @ + 1]
                  ELSE [at EXCEPT !.pc = "stream", !.k = 0]

(* The result of an edit may come with diagnostics. *)
Finished(before, status) ==
    \E noted \in (IF status = "success" /\ ThisCall.tool = "loud" THEN {0, 1} ELSE {0}) :
        Emits(before \o [i \in 1..noted |-> Event("diagnostics", 0, "")]
              \o <<Event("finished", ThisCall.id, status)>>)

(* A call nobody is asked about, or that a standing consent covers. *)
record_tool_result ==
    /\ at.pc = "calls"
    /\ \E status \in {"success", "error", "denied"}, auto \in BOOLEAN :
         /\ SetResult(status, FALSE)
         /\ Finished(IF auto THEN <<Event("resolved", ThisCall.id, "approved")>> ELSE <<>>, status)
    /\ NextCall /\ UNCHANGED view

Ask ==
    /\ at.pc = "calls"
    /\ Emits(<<Event("required", ThisCall.id, ThisCall.tool)>>)
    /\ at' = [at EXCEPT !.pc = "asking"]
    /\ UNCHANGED <<record, view>>

(* The user answers the question on the screen. *)
handle_approval ==
    /\ at.pc = "asking" /\ view.active.pending = ThisCall.id /\ ~view.cancel_requested
    /\ \E decision \in {"approved", "denied"}, status \in {"success", "error", "denied"} :
         /\ (decision = "denied") <=> (status = "denied")
         /\ SetResult(status, TRUE)
         /\ Finished(<<Event("resolved", ThisCall.id, decision)>>, status)
    /\ NextCall /\ UNCHANGED view

drain_steering ==
    /\ at.pc = "stream" /\ at.round \in 1..(MaxRounds - 1) /\ at.injected < MaxInjected
    /\ LET n == 100 + at.injected
       IN  /\ record' = Append(record, [kind |-> "user", n |-> n, prose |-> {}, exchanges |-> <<>>])
           /\ Emits(<<Event("injected", n, "")>>)
    /\ at' = [at EXCEPT !.injected = @ + 1]
    /\ UNCHANGED view

cancel_streaming_turn ==
    /\ at.pc # "over" /\ ~view.cancel_requested
    /\ view' = [view EXCEPT !.cancel_requested = TRUE]
    /\ UNCHANGED <<record, chan, at>>

(* The calls that are left get their results before the turn is over. *)
finish_cancelled_calls ==
    /\ at.pc \in {"calls", "asking"} /\ view.cancel_requested
    /\ LET left == at.k..Len(Calls)
       IN  /\ record' = [record EXCEPT ![Len(record)].exchanges =
                           [k \in DOMAIN @ |-> IF k \in left THEN [@[k] EXCEPT !.status = "error"] ELSE @[k]]]
           /\ Emits([i \in 1..(Len(Calls) - at.k + 1) |-> Event("finished", Calls[at.k + i - 1].id, "error")]
                    \o <<Event("turn_cancelled", 0, "")>>)
    /\ at' = [at EXCEPT !.pc = "over", !.given_up = IF at.pc = "asking" THEN ThisCall.id ELSE NoTool]
    /\ UNCHANGED view

ViewNext ==
    \/ drain_one \/ push_assistant \/ record_partial_reply \/ record_tool_result \/ Ask
    \/ handle_approval \/ drain_steering \/ cancel_streaming_turn \/ finish_cancelled_calls

-----------------------------------------------------------------------------
(* Properties *)

Badge(approval) == IF approval \in {"not_required", "unknown"} THEN "" ELSE approval

(* What a reader sees: a batch is its calls and results, and what the       *)
(* record does not keep (diagnostics, notices) is left out.                 *)
Shown(cells) ==
    LET show(c) ==
            CASE c.kind = "batch" ->
                   FlattenSeq([i \in DOMAIN c.ids |-> <<Cell("call", <<c.ids[i]>>, ""),
                                                        Cell("result", <<c.ids[i]>>, "success")>>])
              [] c.kind = "call" ->
                   <<Cell("call", c.ids, IF c.ids = <<at.given_up>> THEN "" ELSE Badge(c.tag))>>
              [] c.kind \in {"diagnostics", "system"} -> <<>>
              [] c.kind \in {"reasoning", "assistant"} -> IF c.ids = <<at.unkept>> THEN <<>> ELSE <<c>>
              [] OTHER -> <<c>>
    IN  FlattenSeq([i \in DOMAIN cells |-> show(cells[i])])

(* A session that is resumed shows the turn as it was seen: every prompt,   *)
(* reply, call and result once and in the same order, with the badge of a   *)
(* human answer where there was one (ToolCallFinished, hydrate_history).    *)
ResumeShowsTheTurn ==
    at.pc = "over" /\ chan = <<>> => Shown(view.history) = Shown(hydrate_history(record))

(* "A badge means a human answered, so a call left waiting when its turn is *)
(* cancelled must not keep the pending badge" (active_turn.rs).             *)
NoBadgeUnanswered ==
    at.pc = "over" /\ chan = <<>> =>
        \A i \in 1..Len(view.history) : view.history[i].tag # "required"
=============================================================================
