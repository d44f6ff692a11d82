---------------------------- MODULE ServerLease ----------------------------
(***************************************************************************)
(* The HTTP runtime: /prompt streams a turn under a lease, /approvals      *)
(* answers the request one stream has parked, and either client may be    *)
(* gone at any await.  What a dropped stream leaves behind are spawned     *)
(* tasks: the lease's cancel, the handle's cancel and the slot cleanup.    *)
(*                                                                         *)
(* Bodies, envelopes and keep-alives are left out.                         *)
(***************************************************************************)
EXTENDS TurnContract

CONSTANTS
    Request,    \* the /prompt requests; the turn one starts has its id
    MaxAsk      \* bound: approval requests of one turn

ASSUME ServerAssumption == Request \subseteq Turn /\ MaxAsk \in Nat

VARIABLES
    autonomous,     \* RuntimeServerOptions::autonomous_approvals
    phase,          \* run_http_server: "serving", "draining", "forced", "down"
    active_turn,    \* AppState::active_turn, the thread that holds the lease
    runtimeLock,    \* which request holds the LaunchedRuntime mutex
    slot,           \* AppState::approval: the request shown and the stream that owns it
    stream,         \* the SSE generator of each request
    bootTask,       \* the bootstrap start_turn spawned for each request
    leaseTask,      \* the cancel each dropped lease spawned
    handleTask,     \* the cancel each dropped TurnHandle spawned
    slotTask        \* the cleanup each armed ApprovalSlotGuard spawned

serverVars == <<autonomous, phase, active_turn, runtimeLock, slot, stream, bootTask,
                leaseTask, handleTask, slotTask>>

-----------------------------------------------------------------------------
(* Reaching the routes *)

(* Where the server listens and what a request carries. *)
Hosts == {"loopback", "lan", "name"}

host_is_loopback(h) == h = "loopback"

(* run_http_server refuses before launch by name, and again by the address  *)
(* the name resolved to.                                                    *)
Binds(token, host, addr) ==
    token \/ (host_is_loopback(host) /\ host_is_loopback(addr))

(* require_auth: the token when there is one, else a loopback Host header. *)
require_auth(token, presented, hostHeader) ==
    IF token THEN presented = "right" ELSE host_is_loopback(hostHeader)

(* token_matches over token_from_request: a bearer token is looked at       *)
(* first, the header only when there is none.                               *)
token_from_request(bearer, header) == IF bearer # "absent" THEN bearer ELSE header

Reached ==
    \E token \in BOOLEAN, host, addr, header \in Hosts,
       bearer, own \in {"absent", "wrong", "right"} :
        /\ Binds(token, host, addr)
        /\ require_auth(token, token_from_request(bearer, own), header)

-----------------------------------------------------------------------------
(* The stream of a request *)

EmptySlot == [id |-> NobodyAsks, owner |-> NoTurn]

(* pc: idle, refused, opened, starting, reading, waiting, deciding, gone.   *)
NoStream == [pc |-> "idle", captured |-> FALSE, ask |-> NobodyAsks,
             decision |-> "none", outcome |-> FALSE, seen |-> {}]

ServerInit ==
    /\ ContractInit
    /\ autonomous \in BOOLEAN
    /\ phase = "serving" /\ active_turn = NoTurn /\ runtimeLock = NoTurn
    /\ slot = EmptySlot
    /\ stream = [r \in Request |-> NoStream]
    /\ bootTask = [r \in Request |-> "none"]
    /\ leaseTask = [r \in Request |-> FALSE]
    /\ handleTask = [r \in Request |-> FALSE]
    /\ slotTask = [r \in Request |-> NobodyAsks]

Connected == {r \in Request : stream[r].pc \notin {"idle", "refused", "gone"}}

TaskVars == <<leaseTask, handleTask, slotTask>>

(* acquire_active_turn: one turn at a time, 409 for the rest; a request     *)
(* with no prompt gets its 400 first.                                       *)
prompt_sse(r) ==
    /\ phase = "serving" /\ stream[r].pc = "idle" /\ Reached
    /\ \/ /\ active_turn = NoTurn
          /\ active_turn' = r
          /\ stream' = [stream EXCEPT ![r].pc = "opened"]
       \/ /\ stream' = [stream EXCEPT ![r].pc = "refused"]   \* busy, or an empty prompt
          /\ UNCHANGED active_turn
    /\ UNCHANGED <<contractVars, phase, runtimeLock, slot, bootTask, TaskVars>>

(* start_turn spawns the bootstrap and waits for its handle, under the      *)
(* runtime lock.                                                            *)
StartTurn(r) ==
    /\ stream[r].pc = "opened" /\ runtimeLock = NoTurn
    /\ runtimeLock' = r
    /\ stream' = [stream EXCEPT ![r].pc = "starting"]
    /\ bootTask' = [bootTask EXCEPT ![r] = "spawned"]
    /\ UNCHANGED <<contractVars, phase, active_turn, slot, TaskVars>>

BootBegin(r) ==
    /\ bootTask[r] = "spawned"
    /\ Begin(r)
    /\ bootTask' = [bootTask EXCEPT ![r] = "begun"]
    /\ UNCHANGED <<phase, active_turn, runtimeLock, slot, stream, TaskVars>>

(* The handle reaches the stream, which records the turn its lease owns; a  *)
(* handle nobody waits for is dropped, which cancels its turn.              *)
BootReady(r) ==
    /\ bootTask[r] = "begun"
    /\ bootTask' = [bootTask EXCEPT ![r] = "none"]
    /\ IF stream[r].pc = "starting"
       THEN /\ stream' = [stream EXCEPT ![r].pc = "reading", ![r].captured = TRUE]
            /\ runtimeLock' = NoTurn
            /\ UNCHANGED <<stop, handleTask>>
       ELSE /\ stop' = [stop EXCEPT ![r] = TRUE]
            /\ handleTask' = [handleTask EXCEPT ![r] = TRUE]
            /\ UNCHANGED <<stream, runtimeLock>>
    /\ UNCHANGED <<live, begun, verdict, parked, asked, phase, active_turn, slot,
                   leaseTask, slotTask>>

(* ApprovalRequired: parked in the slot for a client to answer, or denied   *)
(* at once by an autonomous server.                                         *)
ParkApproval(r) ==
    /\ stream[r].pc = "reading"
    /\ \E a \in asked :
         /\ a.turn = r /\ a \notin stream[r].seen
         /\ stream' = [stream EXCEPT ![r].pc = IF autonomous THEN "deciding" ELSE "waiting",
                          ![r].ask = a, ![r].seen = @ \cup {a},
                          ![r].decision = IF autonomous THEN "denied" ELSE "none"]
         /\ slot' = IF autonomous THEN slot ELSE [id |-> a, owner |-> r]
    /\ UNCHANGED <<contractVars, phase, active_turn, runtimeLock, bootTask, TaskVars>>

(* A /approvals that finds its approval takes the slot and sends; a stream  *)
(* that is gone makes that a 409 with nothing else done.                    *)
submit_approval(a, d) ==
    /\ phase = "serving" /\ Reached
    /\ slot.id = a
    /\ slot' = EmptySlot
    /\ stream' = IF stream[slot.owner].pc = "waiting" /\ stream[slot.owner].ask = a
                 THEN [stream EXCEPT ![slot.owner].pc = "deciding",
                                     ![slot.owner].decision = d]
                 ELSE stream
    /\ UNCHANGED <<contractVars, phase, active_turn, runtimeLock, bootTask, TaskVars>>

MutAfterDrop(r) ==
    /\ active_turn' = NoTurn
    /\ UNCHANGED <<stop, leaseTask, handleTask>>
    /\ slotTask' = [slotTask EXCEPT ![r] = IF stream[r].pc = "waiting" THEN stream[r].ask
                                           ELSE NobodyAsks]

(* What dropping the generator of r does: an armed guard spawns its         *)
(* cleanup, a handle without an outcome flips the token and spawns its      *)
(* cancel, the lease frees the gate and, if it captured a turn, spawns one  *)
(* too.                                                                     *)
AfterDrop(r) ==
    /\ slotTask' = [slotTask EXCEPT ![r] = IF stream[r].pc = "waiting" THEN stream[r].ask
                                           ELSE NobodyAsks]
    /\ LET owned == stream[r].pc \in {"reading", "waiting", "deciding"} /\ ~stream[r].outcome
       IN  /\ stop' = [stop EXCEPT ![r] = @ \/ owned]
           /\ handleTask' = [handleTask EXCEPT ![r] = @ \/ owned]
    /\ active_turn' = NoTurn
    /\ leaseTask' = [leaseTask EXCEPT ![r] = stream[r].captured]

Gone(r) == stream' = [stream EXCEPT ![r] = [NoStream EXCEPT !.pc = "gone"]]

(* The decision is in: the slot is emptied and the runtime told.  An answer *)
(* it no longer wants ends the stream.                                      *)
Approve(r) ==
    /\ stream[r].pc = "deciding"
    /\ slot' = IF autonomous THEN slot ELSE EmptySlot
    /\ IF Accepts(stream[r].ask)
       THEN /\ Answer(stream[r].ask)
            /\ stream' = [stream EXCEPT ![r].pc = "reading", ![r].ask = NobodyAsks,
                                        ![r].decision = "none"]
            /\ UNCHANGED <<active_turn, TaskVars>>
       ELSE /\ AfterDrop(r) /\ Gone(r)
            /\ UNCHANGED <<live, begun, verdict, parked, asked>>
    /\ UNCHANGED <<phase, runtimeLock, bootTask>>

(* The terminal event is passed on and the stream is over. *)
StreamEnds(r) ==
    /\ stream[r].pc = "reading" /\ verdict[r] # "none"
    /\ active_turn' = NoTurn
    /\ leaseTask' = [leaseTask EXCEPT ![r] = TRUE]
    /\ Gone(r)
    /\ UNCHANGED <<contractVars, phase, runtimeLock, slot, bootTask, handleTask, slotTask>>

(* The client goes away: the generator is dropped where it waits. *)
Disconnect(r) ==
    /\ r \in Connected
    /\ AfterDrop(r) /\ Gone(r)
    /\ runtimeLock' = IF runtimeLock = r THEN NoTurn ELSE runtimeLock
    /\ UNCHANGED <<live, begun, verdict, parked, asked, phase, slot, bootTask>>

-----------------------------------------------------------------------------
(* The tasks a drop spawned *)

MutLeaseHits(r) == {live}

(* cancel_turn_if(turn_id). *)
LeaseHits(r) == {r}

LeaseCancel(r) ==
    /\ leaseTask[r] /\ runtimeLock = NoTurn
    /\ leaseTask' = [leaseTask EXCEPT ![r] = FALSE]
    /\ CancelLive(LeaseHits(r) \ {NoTurn})
    /\ UNCHANGED <<phase, active_turn, runtimeLock, slot, stream, bootTask, handleTask, slotTask>>

HandleCancel(r) ==
    /\ handleTask[r]
    /\ handleTask' = [handleTask EXCEPT ![r] = FALSE]
    /\ CancelLive({r})
    /\ UNCHANGED <<phase, active_turn, runtimeLock, slot, stream, bootTask, leaseTask, slotTask>>

MutSlotIsMine(r) == slot # EmptySlot

(* Arc::ptr_eq on the owner. *)
SlotIsMine(r) == slot.id = slotTask[r]

SlotCleanup(r) ==
    /\ slotTask[r] # NobodyAsks
    /\ slotTask' = [slotTask EXCEPT ![r] = NobodyAsks]
    /\ slot' = IF SlotIsMine(r) THEN EmptySlot ELSE slot
    /\ UNCHANGED <<contractVars, phase, active_turn, runtimeLock, stream, bootTask,
                   leaseTask, handleTask>>

-----------------------------------------------------------------------------
(* Shutdown *)

(* A signal stops the accept loop; streams are drained... *)
ShutdownRequested ==
    /\ phase = "serving"
    /\ phase' = "draining"
    /\ UNCHANGED <<contractVars, active_turn, runtimeLock, slot, stream, bootTask, TaskVars>>

(* ...for SHUTDOWN_DRAIN_GRACE, after which the rest is dropped. *)
ForceShutdown ==
    /\ phase = "draining" /\ Connected # {}
    /\ phase' = "forced"
    /\ \E r \in Connected :
         /\ AfterDrop(r) /\ Gone(r)
         /\ runtimeLock' = IF runtimeLock = r THEN NoTurn ELSE runtimeLock
    /\ UNCHANGED <<live, begun, verdict, parked, asked, slot, bootTask>>

(* job_store.shutdown, then AgentRuntime::shutdown cancels what is live. *)
ShutDown ==
    /\ phase \in {"draining", "forced"} /\ Connected = {} /\ runtimeLock = NoTurn
    /\ phase' = "down"
    /\ CancelLive(Turn)
    /\ UNCHANGED <<active_turn, runtimeLock, slot, stream, bootTask, TaskVars>>

-----------------------------------------------------------------------------
(* Specification *)

RuntimeActs(t) ==
    /\ \/ Ask(t, MaxAsk)
       \/ \E v \in {"finished", "cancelled", "failed"} : Settle(t, v)
    /\ UNCHANGED <<phase, active_turn, runtimeLock, slot, stream, bootTask, TaskVars>>

StreamStep(r) == StartTurn(r) \/ ParkApproval(r) \/ Approve(r) \/ StreamEnds(r)

SpawnedStep(r) ==
    \/ BootBegin(r) \/ BootReady(r) \/ LeaseCancel(r) \/ HandleCancel(r) \/ SlotCleanup(r)

ServerActs ==
    \/ \E r \in Request : prompt_sse(r) \/ StreamStep(r) \/ Disconnect(r) \/ SpawnedStep(r)
    \/ \E t \in Request : RuntimeActs(t)
    \/ \E a \in asked, d \in {"approved", "denied"} : submit_approval(a, d)
    \/ ShutdownRequested \/ ForceShutdown \/ ShutDown

ServerNext == ServerActs /\ UNCHANGED autonomous

allServerVars == <<contractVars, serverVars>>

(* What is bound to happen: tokio runs what was spawned, and a stopped turn *)
(* comes to its end; nobody has to answer, to stay connected or to ask for  *)
(* a shutdown.                                                              *)
ServerMust(r) ==
    /\ SpawnedStep(r) \/ (stop[r] /\ RuntimeActs(r))
    /\ UNCHANGED autonomous

-----------------------------------------------------------------------------
(* Properties *)

(* A client that is still connected keeps its turn: what an earlier         *)
(* request's disconnect or end left running never stops the live turn of a  *)
(* later one (ActiveTurnLease::drop, cancel_turn_if).                       *)
ConnectedTurnRuns ==
    \A r \in Connected : (live = r /\ verdict[r] = "none") => ~stop[r] \/ phase = "down"

(* A stream that waits for a decision is the one /approvals would reach,    *)
(* and a request left by a client that has gone is on its way out: cleanup  *)
(* neither misses a stale slot nor takes a successor's (ApprovalSlotGuard). *)
SlotReachesItsStream ==
    /\ \A r \in Request : stream[r].pc = "waiting" => slot.owner = r
    /\ slot.owner # NoTurn =>
         stream[slot.owner].pc = "waiting" \/ slotTask[slot.owner] = slot.id

(* A turn nobody watches any more ends, parked on an approval or not: the   *)
(* lease or the dropped handle cancels it, also when the client left while  *)
(* it was still starting (ActiveTurnLease::drop, TurnHandle::drop).         *)
UnwatchedTurnEnds ==
    \A r \in Request : (r \in begun /\ stream[r].pc = "gone") ~> verdict[r] # "none"
=============================================================================
