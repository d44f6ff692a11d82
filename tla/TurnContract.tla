---------------------------- MODULE TurnContract ----------------------------
(***************************************************************************)
(* What AgentRuntime promises whoever holds a TurnHandle: a turn begins    *)
(* once, its first terminal event stands, an approval request is opened    *)
(* once and by the live turn, and a turn told to stop stays told.          *)
(*                                                                         *)
(* ContractSpec is the abstract specification TurnRuntime implements       *)
(* (ImplementsContract); the operations below it are the runtime as the    *)
(* front ends (ServerLease, Headless, TuiApp) call it.                     *)
(***************************************************************************)
EXTENDS Naturals, FiniteSets

CONSTANTS
    Turn,       \* turn ids, one per start_turn call
    NoTurn      \* Option::None

ASSUME ContractAssumption == NoTurn \notin Turn

VARIABLES
    live,       \* current_turn_id
    begun,      \* the turns begin_turn has installed
    verdict,    \* the first terminal event each handle yields
    stop,       \* whether each turn's CancellationToken is cancelled
    parked,     \* the approval request the runtime waits on
    asked       \* every approval request it ever opened

contractVars == <<live, begun, verdict, stop, parked, asked>>

Verdicts == {"none", "finished", "cancelled", "failed", "step_limit"}

NobodyAsks == [turn |-> NoTurn, ask |-> 0]

ContractInit ==
    /\ live = NoTurn /\ begun = {}
    /\ verdict = [t \in Turn |-> "none"]
    /\ stop = [t \in Turn |-> FALSE]
    /\ parked = NobodyAsks /\ asked = {}

-----------------------------------------------------------------------------
(* The contract, one relation per piece of state *)

LiveStep ==
    /\ live' \in {live, NoTurn} \cup (Turn \ begun)
    /\ begun' = begun \cup ({live'} \ {NoTurn})

VerdictStep ==
    \A t \in Turn : verdict'[t] = verdict[t] \/ (verdict[t] = "none" /\ t \in begun')

StopStep == \A t \in Turn : stop[t] => stop'[t]

ApprovalStep ==
    \/ parked' \in {parked, NobodyAsks} /\ asked' = asked
    \/ /\ parked = NobodyAsks /\ parked'.turn = live /\ live # NoTurn /\ ~stop[live]
       /\ parked' \notin asked /\ asked' = asked \cup {parked'}

ContractStep == LiveStep /\ VerdictStep /\ StopStep /\ ApprovalStep

ContractSpec == ContractInit /\ [][ContractStep]_contractVars

-----------------------------------------------------------------------------
(* The runtime as its callers see it *)

(* begin_turn and drive_turn_handle: a live turn is stopped, its consumer   *)
(* is told, and what it had parked is gone.                                 *)
Begin(t) ==
    /\ t \notin begun
    /\ live' = t /\ begun' = begun \cup {t}
    /\ verdict' = [u \in Turn |-> IF u = live /\ verdict[u] = "none" THEN "cancelled"
                                  ELSE verdict[u]]
    /\ stop' = [u \in Turn |-> stop[u] \/ u = live]
    /\ parked' = NobodyAsks
    /\ UNCHANGED asked

(* A gated call parks the live turn under a fresh approval id. *)
Ask(t, limit) ==
    LET mine == {a \in asked : a.turn = t}
        id   == [turn |-> t, ask |-> Cardinality(mine) + 1]
    IN  /\ live = t /\ ~stop[t] /\ verdict[t] = "none" /\ parked = NobodyAsks
        /\ Cardinality(mine) < limit
        /\ parked' = id /\ asked' = asked \cup {id}
        /\ UNCHANGED <<live, begun, verdict, stop>>

Accepts(a) == parked = a

(* submit_approval on the request that is open; the turn goes on. *)
Answer(a) ==
    /\ Accepts(a)
    /\ parked' = NobodyAsks
    /\ UNCHANGED <<live, begun, verdict, stop, asked>>

(* cancel_turn_inner: the turns in which are hit if they are live. *)
CancelLive(which) ==
    /\ IF live \in which
       THEN parked' = NobodyAsks /\ stop' = [stop EXCEPT ![live] = TRUE]
       ELSE UNCHANGED <<parked, stop>>
    /\ UNCHANGED <<live, begun, verdict, asked>>

(* The turn's loop ends; a token flipped after its last look goes unseen. *)
Settle(t, v) ==
    /\ t \in begun /\ verdict[t] = "none" /\ parked.turn # t
    /\ verdict' = [verdict EXCEPT ![t] = v]
    /\ live' = IF live = t THEN NoTurn ELSE live
    /\ UNCHANGED <<begun, stop, parked, asked>>
=============================================================================
