------------------------------- MODULE TuiApp -------------------------------
(***************************************************************************)
(* The interactive front end against the runtime: prompts, steering,       *)
(* approvals, cancellation, compaction and session switches, with every    *)
(* call into the runtime a task the UI thread spawns and every answer an   *)
(* update it drains from a channel between two keys.                       *)
(*                                                                         *)
(* Turn is 1..n in the order the turns are started; prompts are numbered   *)
(* likewise.  Rendering, the composer and statuses are left out.           *)
(***************************************************************************)
EXTENDS TurnContract, Sequences, SequencesExt

CONSTANTS
    MaxPrompt,      \* bound: prompts the user submits
    QueueCap,       \* STEERING_QUEUE_CAP
    AskCap,         \* bound: approval requests of one turn
    MaxCompact,     \* bound: compactions, session switches and scans
    LateSteer       \* whether a steer task may still be waiting when a later
                    \* start_turn task begins its turn

ASSUME TuiAssumption ==
    /\ MaxPrompt \in Nat /\ 1..MaxPrompt \subseteq Turn /\ QueueCap \in Nat
    /\ AskCap \in Nat /\ MaxCompact \in Nat /\ LateSteer \in BOOLEAN

VARIABLES
    app,        \* App, the fields the control flow reads
    chan,       \* the update channel of each turn's stream
    forwarder,  \* the task start_stream spawned for each turn
    opening,    \* the prompts each turn starts with
    steering,   \* RuntimeState::steering
    said,       \* how often each prompt has been put to the model
    drawn       \* approval requests that have been on screen for the arm delay

tuiVars == <<app, chan, forwarder, opening, steering, said, drawn>>

Prompt == 1..MaxPrompt

FreshApp ==
    [is_streaming |-> FALSE, steering_queue |-> <<>>, pending_steering_flush |-> FALSE,
     cancel_requested |-> FALSE, pending_approval |-> NobodyAsks, approval_armed |-> FALSE,
     compaction |-> "none", ui_rx |-> NoTurn, session_scan |-> "none", resume_picker |-> FALSE,
     should_quit |-> FALSE,
     next |-> 1,            \* the next turn to start
     prompts |-> 0,         \* prompts submitted
     spent |-> 0,           \* compactions, switches and scans begun
     dropped |-> {},        \* prompts the app let go of
     steers |-> <<>>,       \* steer tasks that have not run
     tasks |-> {}]          \* the other spawned tasks

TuiInit ==
    /\ ContractInit
    /\ app = FreshApp
    /\ chan = [t \in Turn |-> <<>>]
    /\ forwarder = [t \in Turn |-> "none"]
    /\ opening = [t \in Turn |-> {}]
    /\ steering = <<>>
    /\ said = [p \in Prompt |-> 0]
    /\ drawn = {}

-----------------------------------------------------------------------------
(* What a handler does to the app, as functions of it *)

compacting(a) == a.compaction # "none"

MutRuntimeBusy(a) == a.is_streaming \/ compacting(a)

runtime_busy(a) == a.is_streaming \/ a.pending_approval # NobodyAsks \/ compacting(a)

Spawn(a, task) == [a EXCEPT !.tasks = @ \cup {task}]

CancelTask(t) == [kind |-> "cancel", turn |-> t, id |-> NobodyAsks]

DropQueue(a) ==
    [a EXCEPT !.steering_queue = <<>>, !.pending_steering_flush = FALSE,
              !.dropped = @ \cup Range(a.steering_queue)]

(* clear_stream_receiver with is_streaming and cancel_requested reset. *)
StreamOver(a) == [a EXCEPT !.is_streaming = FALSE, !.cancel_requested = FALSE, !.ui_rx = NoTurn]

(* start_stream for a user's prompt: a new channel and a task of its own. *)
StartStream(a) ==
    [a EXCEPT !.is_streaming = TRUE, !.cancel_requested = FALSE, !.session_scan = "none",
              !.ui_rx = a.next, !.next = a.next + 1]

MutOnTurnStarted(a, t) == a

(* TurnStarted after an Esc that found no turn to cancel. *)
OnTurnStarted(a, t) == IF a.cancel_requested THEN Spawn(a, CancelTask(t)) ELSE a

MutPark(a, id) == [a EXCEPT !.pending_approval = id, !.is_streaming = FALSE]

(* park_approval: shown unarmed, and the turn no longer counts as streaming. *)
Park(a, id) ==
    [a EXCEPT !.pending_approval = id, !.approval_armed = FALSE, !.is_streaming = FALSE]

(* apply_ui_update and apply_runtime_event. *)
Apply(a, u) ==
    CASE u.kind = "started" -> OnTurnStarted(a, u.turn)
      [] u.kind = "injected" ->
           IF a.steering_queue = <<>> THEN a
           ELSE [a EXCEPT !.steering_queue = Tail(@)]
      [] u.kind = "ask" -> IF a.cancel_requested THEN a ELSE Park(a, u.id)
      [] u.kind = "finished" -> [StreamOver(a) EXCEPT !.pending_steering_flush = TRUE]
      [] u.kind = "cancelled" ->
           [StreamOver(a) EXCEPT !.pending_approval = NobodyAsks,
                                 !.pending_steering_flush = TRUE]
      [] u.kind \in {"failed", "step_limit"} ->
           LET b == StreamOver(DropQueue(a))
           IN  [b EXCEPT !.pending_steering_flush = a.pending_steering_flush]
      [] u.kind = "rejected" -> a
      [] u.kind = "compacted" -> [a EXCEPT !.compaction = "none"]
      [] u.kind = "stream_finished" ->
           [(IF a.is_streaming THEN DropQueue(a) ELSE a)
               EXCEPT !.is_streaming = FALSE, !.ui_rx = NoTurn]

(* The tail of drain_stream_updates: the receiver is kept while there is    *)
(* something to wait for and nothing newer took its place...                *)
KeepReceiver(a, rx) ==
    IF runtime_busy(a) /\ a.ui_rx = NoTurn THEN [a EXCEPT !.ui_rx = rx] ELSE a

Flushes(a) == a.pending_steering_flush /\ a.steering_queue # <<>> /\ ~a.is_streaming

(* ...and what is still queued starts a turn of its own. *)
FlushSteering(a) ==
    IF Flushes(a)
    THEN StartStream([a EXCEPT !.steering_queue = <<>>, !.pending_steering_flush = FALSE])
    ELSE [a EXCEPT !.pending_steering_flush = FALSE]

-----------------------------------------------------------------------------
(* The UI thread *)

Awake == ~app.should_quit

Frame == UNCHANGED <<chan, steering, said, drawn>>

(* The turn that app' has started, if it started one, begins with ps. *)
Starts(ps) ==
    IF app'.next > app.next
    THEN /\ forwarder' = [forwarder EXCEPT ![app.next] = "boot"]
         /\ opening' = [opening EXCEPT ![app.next] = ps]
    ELSE UNCHANGED <<forwarder, opening>>

drain_stream_updates ==
    /\ Awake /\ app.ui_rx # NoTurn
    /\ LET rx == app.ui_rx
           b  == FoldLeft(Apply, [app EXCEPT !.ui_rx = NoTurn], chan[rx])
       IN  /\ chan[rx] # <<>>
           /\ app' = FlushSteering(KeepReceiver(b, rx))
           /\ chan' = [chan EXCEPT ![rx] = <<>>]
           /\ Starts(Range(b.steering_queue))
    /\ UNCHANGED <<contractVars, steering, said, drawn>>

(* Enter in the composer: refused over an approval prompt or a compaction,  *)
(* queued and steered into a running turn, or a turn of its own.            *)
submit ==
    /\ Awake /\ app.prompts < MaxPrompt /\ ~app.resume_picker
    /\ app.pending_approval = NobodyAsks /\ ~compacting(app)
    /\ LET p == app.prompts + 1
           b == [app EXCEPT !.prompts = p]
       IN  \/ /\ app.is_streaming /\ Len(app.steering_queue) < QueueCap
              /\ app' = [b EXCEPT !.steering_queue = Append(@, p), !.steers = Append(@, p)]
           \/ /\ ~app.is_streaming
              /\ app' = StartStream(b)
    /\ Starts({app.prompts + 1})
    /\ UNCHANGED contractVars /\ Frame

(* Esc or Ctrl-C while a turn streams; the first one lets the queue go. *)
cancel_streaming_turn ==
    /\ Awake /\ app.is_streaming /\ ~app.resume_picker
    /\ app' = Spawn([(IF app.cancel_requested THEN app ELSE DropQueue(app))
                        EXCEPT !.cancel_requested = TRUE], CancelTask(NoTurn))
    /\ UNCHANGED <<contractVars, forwarder, opening>> /\ Frame

(* The prompt is rendered, then APPROVAL_ARM_DELAY passes. *)
ApprovalDrawn ==
    /\ Awake /\ app.pending_approval # NobodyAsks /\ ~app.approval_armed
    /\ app' = [app EXCEPT !.approval_armed = TRUE]
    /\ drawn' = drawn \cup {app.pending_approval}
    /\ UNCHANGED <<contractVars, chan, forwarder, opening, steering, said>>

(* y, a, n, Esc and Enter act on a request that is ready, and only then. *)
resolve_pending_tool ==
    /\ Awake /\ app.pending_approval # NobodyAsks /\ app.approval_armed
    /\ app' = Spawn([app EXCEPT !.pending_approval = NobodyAsks, !.is_streaming = TRUE,
                                !.cancel_requested = FALSE, !.session_scan = "none"],
                    [kind |-> "answer", turn |-> app.pending_approval.turn,
                     id |-> app.pending_approval])
    /\ UNCHANGED <<contractVars, forwarder, opening>> /\ Frame

(* /compact, refused while anything runs; its channel is the one drained. *)
start_compaction ==
    /\ Awake /\ ~runtime_busy(app) /\ ~app.resume_picker /\ app.spent < MaxCompact
    /\ app.next \in Turn
    /\ app' = [app EXCEPT !.compaction = "running", !.ui_rx = app.next, !.spent = @ + 1]
    /\ UNCHANGED <<contractVars, forwarder, opening>> /\ Frame

cancel_compaction ==
    /\ Awake /\ ~app.is_streaming /\ app.compaction = "running"
    /\ app' = [app EXCEPT !.compaction = "cancelling"]
    /\ UNCHANGED <<contractVars, forwarder, opening>> /\ Frame

(* compact_now answers, or its task stops without an answer. *)
CompactionEnds ==
    /\ Awake /\ compacting(app) /\ app.ui_rx # NoTurn
    /\ \/ /\ chan' = [chan EXCEPT ![app.ui_rx] =
                        Append(@, [kind |-> "compacted", turn |-> NoTurn, id |-> NobodyAsks])]
          /\ chan[app.ui_rx] = <<>>
          /\ UNCHANGED app
       \/ /\ chan[app.ui_rx] = <<>>
          /\ app' = [app EXCEPT !.compaction = "none", !.ui_rx = NoTurn]
          /\ UNCHANGED chan
    /\ UNCHANGED <<contractVars, forwarder, opening, steering, said, drawn>>

(* A listing runs beside a turn; a picker is neither scanned for nor opened *)
(* over one, and Esc takes either away first.                               *)
SessionScan ==
    /\ Awake /\ ~app.resume_picker
    /\ \/ /\ app.spent < MaxCompact
          /\ \/ ~runtime_busy(app) /\ app' = [app EXCEPT !.session_scan = "picker", !.spent = @ + 1]
             \/ app' = [app EXCEPT !.session_scan = "list", !.spent = @ + 1]
       \/ /\ app.session_scan = "picker"
          /\ app' = [app EXCEPT !.session_scan = "none", !.resume_picker = ~runtime_busy(app)]
       \/ /\ app.session_scan # "none"                \* a list shown, or Esc
          /\ app' = [app EXCEPT !.session_scan = "none"]
    /\ UNCHANGED <<contractVars, forwarder, opening>> /\ Frame

(* switch_session and start_new_conversation: refused while busy; the old   *)
(* runtime is shut down, which cancels what is live.                        *)
SwitchSession ==
    /\ Awake /\ ~runtime_busy(app) /\ app.spent < MaxCompact
    /\ app' = [DropQueue(app) EXCEPT !.resume_picker = FALSE, !.session_scan = "none",
                                     !.spent = @ + 1]
    /\ CancelLive(Turn)
    /\ steering' = <<>>
    /\ UNCHANGED <<chan, forwarder, opening, said, drawn>>

PickerClosed ==
    /\ Awake /\ app.resume_picker
    /\ app' = [app EXCEPT !.resume_picker = FALSE]
    /\ UNCHANGED <<contractVars, forwarder, opening>> /\ Frame

(* The second Esc or Ctrl-C, or a signal: run_loop ends, shutdown_runtime. *)
Quit ==
    /\ Awake
    /\ app' = [app EXCEPT !.should_quit = TRUE, !.session_scan = "none"]
    /\ CancelLive(Turn)
    /\ UNCHANGED <<chan, forwarder, opening, steering, said, drawn>>

-----------------------------------------------------------------------------
(* Spawned tasks *)

Send(t, kind, id) ==
    chan' = IF t # NoTurn /\ app.ui_rx = t
            THEN [chan EXCEPT ![t] = Append(@, [kind |-> kind, turn |-> t, id |-> id])]
            ELSE chan

(* steer: taken by whatever turn is live, refused by none. *)
SteerTask ==
    /\ app.steers # <<>>
    /\ app' = [app EXCEPT !.steers = Tail(@)]
    /\ steering' = IF live = NoTurn THEN steering ELSE Append(steering, Head(app.steers))
    /\ UNCHANGED <<contractVars, chan, forwarder, opening, said, drawn>>

CancelTaskRuns ==
    /\ \E k \in app.tasks :
         /\ k.kind = "cancel"
         /\ app' = [app EXCEPT !.tasks = @ \ {k}]
         /\ LET hits == IF k.turn = NoTurn THEN Turn ELSE {k.turn}
            IN  /\ CancelLive(hits)
                /\ steering' = IF k.turn = NoTurn \/ live = k.turn THEN <<>> ELSE steering
    /\ UNCHANGED <<chan, forwarder, opening, said, drawn>>

AnswerTask ==
    /\ \E k \in app.tasks :
         /\ k.kind = "answer"
         /\ app' = [app EXCEPT !.tasks = @ \ {k}]
         /\ IF Accepts(k.id) THEN Answer(k.id) /\ UNCHANGED chan
            ELSE Send(app.ui_rx, "rejected", k.id) /\ UNCHANGED contractVars
    /\ UNCHANGED <<forwarder, opening, steering, said, drawn>>

(* The bootstrap of start_turn; begin_turn clears what was left to steer. *)
ForwardBegin(t) ==
    /\ forwarder[t] = "boot"
    /\ LateSteer \/ app.steers = <<>>
    /\ Begin(t)
    /\ steering' = <<>>
    /\ said' = [p \in Prompt |-> IF p \in opening[t] THEN said[p] + 1 ELSE said[p]]
    /\ forwarder' = [forwarder EXCEPT ![t] = "reading"]
    /\ Send(t, "started", NobodyAsks)
    /\ UNCHANGED <<app, opening, drawn>>

(* A tool-batch boundary of the live turn: one steered prompt is recorded. *)
Inject(t) ==
    /\ live = t /\ ~stop[t] /\ verdict[t] = "none" /\ parked = NobodyAsks /\ steering # <<>>
    /\ said' = [said EXCEPT ![Head(steering)] = @ + 1]
    /\ steering' = Tail(steering)
    /\ Send(t, "injected", NobodyAsks)
    /\ UNCHANGED <<contractVars, app, forwarder, opening, drawn>>

TurnAsks(t) ==
    /\ Ask(t, AskCap)
    /\ chan' = IF app.ui_rx = t
               THEN [chan EXCEPT ![t] = Append(@, [kind |-> "ask", turn |-> t, id |-> parked'])]
               ELSE chan
    /\ UNCHANGED <<app, forwarder, opening, steering, said, drawn>>

TurnEnds(t) ==
    /\ \E v \in {"finished", "cancelled", "failed"} :
         /\ v = "cancelled" <=> stop[t]
         /\ Settle(t, v) /\ Send(t, v, NobodyAsks)
    /\ UNCHANGED <<app, forwarder, opening, steering, said, drawn>>

(* recv answers None after the terminal event. *)
ForwardEnd(t) ==
    /\ forwarder[t] = "reading" /\ verdict[t] # "none"
    /\ forwarder' = [forwarder EXCEPT ![t] = "ended"]
    /\ Send(t, "stream_finished", NobodyAsks)
    /\ UNCHANGED <<contractVars, app, opening, steering, said, drawn>>

-----------------------------------------------------------------------------
(* Specification *)

UserStep ==
    \/ submit \/ cancel_streaming_turn \/ resolve_pending_tool \/ start_compaction
    \/ cancel_compaction \/ SessionScan \/ SwitchSession \/ PickerClosed \/ Quit

SpawnedWork ==
    \/ SteerTask \/ CancelTaskRuns \/ AnswerTask
    \/ \E t \in Turn : ForwardBegin(t) \/ ForwardEnd(t)

TuiNext ==
    \/ UserStep \/ drain_stream_updates \/ ApprovalDrawn \/ CompactionEnds \/ SpawnedWork
    \/ \E t \in Turn : Inject(t) \/ TurnAsks(t) \/ TurnEnds(t)

allTuiVars == <<contractVars, tuiVars>>

(* What is bound to happen: run_loop keeps draining, tokio runs what was    *)
(* spawned, a turn that was told to stop ends.  The user does nothing for   *)
(* sure.                                                                    *)
TuiMust(t) == ForwardBegin(t) \/ ForwardEnd(t) \/ (stop[t] /\ TurnEnds(t))

-----------------------------------------------------------------------------
(* Properties *)

Pending(p) ==
    \/ p \in Range(app.steering_queue) \cup app.dropped
    \/ \E t \in Turn : forwarder[t] = "boot" /\ p \in opening[t]

(* Every prompt the user sends is put to the model once, in the turn it was *)
(* steered into or in the one that flushes the queue, unless a cancel, an   *)
(* error or a session switch let it go: the app's queue and the runtime's   *)
(* never both deliver it, nor neither (submit, flush_steering_queue,        *)
(* UserMessageInjected, begin_turn).                                        *)
EveryPromptOnce ==
    \A p \in 1..app.prompts : said[p] <= 1 /\ (said[p] = 0 => Pending(p) \/ app.should_quit)

(* While the app thinks the runtime idle, it is: no live turn, none about   *)
(* to begin, so switching sessions, compacting or starting a turn never     *)
(* cuts one off (runtime_busy against park, cancel and drain).              *)
IdleMeansIdle ==
    ~runtime_busy(app) =>
        \A t \in Turn : /\ forwarder[t] # "boot"
                       /\ forwarder[t] = "reading" => verdict[t] # "none"

(* Nothing is approved or denied before it has been on screen: an answer in *)
(* flight is for a request that was drawn and armed, not for the one that   *)
(* replaced it under the same keystroke (park_approval, handle_key).        *)
AnswersWereSeen == \A k \in app.tasks : k.kind = "answer" => k.id \in drawn

(* Esc ends the turn even when it comes before the turn has begun           *)
(* (cancel_streaming_turn, TurnStarted under cancel_requested).             *)
EscEndsTheTurn == app.cancel_requested ~> (~app.cancel_requested \/ app.should_quit)
=============================================================================
