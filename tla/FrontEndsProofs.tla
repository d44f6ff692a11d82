--------------------------- MODULE FrontEndsProofs ---------------------------
(***************************************************************************)
(* The HTTP server and the headless run, for every set of requests and     *)
(* every bound: a connected client keeps its turn and its approval slot,   *)
(* and an exit code never says more than what happened.                    *)
(*                                                                         *)
(* The server's argument is one about who may still act: streams, spawned  *)
(* tasks and the slot each carry the id of their request, the lease admits *)
(* one connected stream at a time, and whatever a request leaves behind is *)
(* spawned only when its own stream is gone.                               *)
(***************************************************************************)
EXTENDS MCFrontEnds, FiniteSetTheorems, TLAPS

-----------------------------------------------------------------------------
(* The runtime behind every front end *)

Asks == [turn : Turn \cup {NoTurn}, ask : Nat]

ContractType ==
    /\ live \in Turn \cup {NoTurn} /\ begun \subseteq Turn
    /\ verdict \in [Turn -> Verdicts] /\ stop \in [Turn -> BOOLEAN]
    /\ parked \in Asks
    /\ asked \subseteq [turn : Turn, ask : Nat] /\ IsFiniteSet(asked)

(* A turn that has not begun is not live and was not told to stop. *)
BegunFirst ==
    /\ live # NoTurn => live \in begun
    /\ \A t \in Turn : stop[t] => t \in begun

ContractInv == ContractType /\ BegunFirst

-----------------------------------------------------------------------------
(* The server *)

StreamPc == {"idle", "refused", "opened", "starting", "reading", "waiting", "deciding", "gone"}

(* The stream has its turn's handle. *)
Attached == {"reading", "waiting", "deciding"}

StreamType ==
    [pc : StreamPc, captured : BOOLEAN, ask : Asks,
     decision : {"none", "approved", "denied"}, outcome : BOOLEAN,
     seen : SUBSET [turn : Turn, ask : Nat]]

ServerType ==
    /\ stream \in [Request -> StreamType]
    /\ bootTask \in [Request -> {"none", "spawned", "begun"}]
    /\ leaseTask \in [Request -> BOOLEAN] /\ handleTask \in [Request -> BOOLEAN]
    /\ slotTask \in [Request -> Asks]
    /\ slot \in [id : Asks, owner : Request \cup {NoTurn}]

(* The turn of a request begins once its stream waits for it, and the       *)
(* stream goes on only with a turn that has begun.                          *)
TurnOfStream ==
    \A r \in Request :
        /\ r \in begun => stream[r].pc \in Attached \cup {"starting", "gone"}
        /\ stream[r].pc \in Attached => r \in begun
        /\ bootTask[r] = "begun" => r \in begun
        /\ bootTask[r] # "none" => stream[r].pc \in {"starting", "gone"}

(* What a request leaves behind runs only when its stream is gone. *)
LeftBehind ==
    \A r \in Request :
        /\ leaseTask[r] \/ handleTask[r] \/ slotTask[r] # NobodyAsks => stream[r].pc = "gone"
        /\ slotTask[r] # NobodyAsks => slotTask[r].turn = r

(* The lease admits one connected stream. *)
OneLease == \A r \in Request : r \in Connected => active_turn = r

(* The slot is the waiting stream's, and carries its owner's request. *)
SlotIsOwned ==
    /\ \A r \in Request : stream[r].pc = "waiting" =>
         slot = [id |-> stream[r].ask, owner |-> r] /\ stream[r].ask.turn = r
    /\ slot.owner # NoTurn => slot.id.turn = slot.owner
    /\ slot.owner = NoTurn => slot = EmptySlot

ServerInv ==
    /\ ContractInv /\ ServerType /\ TurnOfStream /\ LeftBehind /\ OneLease /\ SlotIsOwned
    /\ ConnectedTurnRuns /\ SlotReachesItsStream

-----------------------------------------------------------------------------
(* The headless run *)

Stages == {"input", "config", "resume", "launch", "ready", "greet", "drive", "shutdown",
           "report", "flush", "final", "exited"}

Closing == {"shutdown", "report", "flush", "final", "exited"}

ExitCodes == {EXIT_OK, EXIT_FAILURE, EXIT_USAGE, EXIT_TIMEOUT, EXIT_INTERRUPT}

RunType ==
    [started : BOOLEAN, interrupted : BOOLEAN, timed_out : BOOLEAN, abandoned : BOOLEAN,
     boot : {"none", "spawned", "begun"}, seen : SUBSET [turn : Turn, ask : Nat], denied : Nat,
     status : {"incomplete", "finished", "cancelled", "failed"},
     saved : BOOLEAN, reported : BOOLEAN]

HeadlessType ==
    /\ ContractType
    /\ stage \in Stages /\ code \in ExitCodes /\ run \in RunType
    /\ signal \in BOOLEAN /\ deadline \in {"none", "ahead", "past"}

(* What the run remembers of signals, deadlines and the turn is true. *)
RunIsTrue ==
    /\ run.interrupted => signal
    /\ run.timed_out => deadline = "past"
    /\ run.abandoned => run.status = "failed" /\ stage \in Closing
    /\ run.status = "finished" => verdict[Job] = "finished"

(* A code that was decided on is true already, but for a signal that may    *)
(* still come.                                                              *)
CodeIsTrue ==
    stage \in {"flush", "final", "exited"} =>
        /\ code = EXIT_OK => verdict[Job] = "finished" /\ run.saved /\ run.reported
        /\ code = EXIT_TIMEOUT => deadline = "past"
        /\ code = EXIT_INTERRUPT => signal

SignalIsTold == stage = "exited" /\ signal => code = EXIT_INTERRUPT

HeadlessInv == HeadlessType /\ RunIsTrue /\ CodeIsTrue /\ SignalIsTold

-----------------------------------------------------------------------------
(* The inductive invariant: that of the part at work; the headless run of   *)
(* the others has not begun.                                                *)
FrontInv ==
    /\ part = "server" => ServerInv
    /\ part = "headless" => HeadlessInv
    /\ part # "headless" => stage = "input"

-----------------------------------------------------------------------------
(* The runtime's operations *)

(* A verdict stands, and a turn told to stop stays told. *)
VerdictsStand == \A t \in Turn : verdict[t] # "none" => verdict'[t] = verdict[t]

LEMMA BeginOp ==
    ASSUME ContractType, NEW t \in Turn, Begin(t)
    PROVE  ContractType' /\ VerdictsStand /\ (BegunFirst => BegunFirst')
<1>1. NobodyAsks \in Asks
  BY DEF NobodyAsks, Asks
<1>2. ContractType'
  BY <1>1 DEF ContractType, Begin, Verdicts
<1>3. VerdictsStand
  BY DEF ContractType, Begin, VerdictsStand
<1>4. BegunFirst => BegunFirst'
  BY ContractAssumption DEF ContractType, Begin, BegunFirst
<1> QED
  BY <1>2, <1>3, <1>4

LEMMA AskOp ==
    ASSUME ContractType, NEW t \in Turn, NEW limit, Ask(t, limit)
    PROVE  ContractType' /\ VerdictsStand /\ (BegunFirst => BegunFirst')
<1> DEFINE mine == {a \in asked : a.turn = t}
           id   == [turn |-> t, ask |-> Cardinality(mine) + 1]
<1>1. Cardinality(mine) \in Nat
  BY FS_Subset, FS_CardinalityType DEF ContractType
<1>2. id \in [turn : Turn, ask : Nat] /\ id \in Asks
  BY <1>1 DEF Asks
<1>3. parked' = id /\ asked' = asked \cup {id} /\ UNCHANGED <<live, begun, verdict, stop>>
  BY DEF Ask
<1> HIDE DEF id, mine
<1>4. IsFiniteSet(asked')
  BY <1>3, FS_AddElement DEF ContractType
<1> QED
  BY <1>2, <1>3, <1>4 DEF ContractType, VerdictsStand, BegunFirst

LEMMA SettleOp ==
    ASSUME ContractType, NEW t \in Turn, NEW v \in Verdicts, Settle(t, v)
    PROVE  ContractType' /\ VerdictsStand /\ (BegunFirst => BegunFirst')
<1>1. ContractType'
  BY DEF ContractType, Settle
<1>2. VerdictsStand
  BY DEF ContractType, Settle, VerdictsStand
<1>3. BegunFirst => BegunFirst'
  BY DEF ContractType, Settle, BegunFirst
<1> QED
  BY <1>1, <1>2, <1>3

LEMMA AnswerOp ==
    ASSUME ContractType, NEW a, Answer(a)
    PROVE  ContractType' /\ VerdictsStand /\ (BegunFirst => BegunFirst')
<1>1. NobodyAsks \in Asks
  BY DEF NobodyAsks, Asks
<1> QED
  BY <1>1 DEF ContractType, Answer, VerdictsStand, BegunFirst

LEMMA CancelOp ==
    ASSUME ContractType, NEW which, CancelLive(which)
    PROVE  ContractType' /\ VerdictsStand /\ (BegunFirst => BegunFirst')
<1>1. NobodyAsks \in Asks
  BY DEF NobodyAsks, Asks
<1>2. ContractType' /\ VerdictsStand
  BY <1>1 DEF ContractType, CancelLive, VerdictsStand
<1>3. BegunFirst => BegunFirst'
  BY ContractAssumption DEF ContractType, CancelLive, BegunFirst
<1> QED
  BY <1>2, <1>3

LEMMA NoOp ==
    ASSUME ContractType, UNCHANGED contractVars
    PROVE  ContractType' /\ VerdictsStand /\ (BegunFirst => BegunFirst')
  BY DEF ContractType, contractVars, VerdictsStand, BegunFirst

-----------------------------------------------------------------------------
(* The headless run keeps its invariant *)

(* What can change around a run that stands still. *)
LEMMA HeadlessWaits ==
    ASSUME HeadlessInv, ContractType', VerdictsStand, UNCHANGED <<stage, code>>,
           run' \in RunType, RunIsTrue', run.saved = run'.saved, run.reported = run'.reported,
           signal' \in BOOLEAN, signal => signal', deadline' \in {"none", "ahead", "past"},
           deadline = "past" => deadline' = "past", stage = "exited" => signal' = signal
    PROVE  HeadlessInv'
<1>1. verdict[Job] = "finished" => verdict'[Job] = "finished"
  BY HeadlessAssumption DEF VerdictsStand
<1>2. HeadlessType'
  BY DEF HeadlessInv, HeadlessType
<1>3. CodeIsTrue' /\ SignalIsTold'
  BY <1>1 DEF HeadlessInv, HeadlessType, CodeIsTrue, SignalIsTold
<1> QED
  BY <1>2, <1>3 DEF HeadlessInv

(* A step of run_print before the report decides on no code, or on a true   *)
(* one that is not EXIT_OK.                                                 *)
LEMMA HeadlessReturns ==
    ASSUME HeadlessInv, ContractType', VerdictsStand, UNCHANGED <<signal, deadline>>,
           run' \in RunType, RunIsTrue', stage' \in Stages \ {"exited"}, code' \in ExitCodes,
           stage' \in {"flush", "final"} =>
                /\ code' = EXIT_OK => verdict[Job] = "finished" /\ run'.saved /\ run'.reported
                /\ code' = EXIT_TIMEOUT => deadline = "past"
                /\ code' = EXIT_INTERRUPT => signal
    PROVE  HeadlessInv'
<1>1. verdict[Job] = "finished" => verdict'[Job] = "finished"
  BY HeadlessAssumption DEF VerdictsStand
<1>2. HeadlessType'
  BY DEF HeadlessInv, HeadlessType
<1>3. CodeIsTrue' /\ SignalIsTold'
  BY <1>1 DEF CodeIsTrue, SignalIsTold
<1> QED
  BY <1>2, <1>3 DEF HeadlessInv

LEMMA HeadlessOutside ==
    ASSUME HeadlessInv, Signalled \/ DeadlinePasses \/ ReaderStops \/ TurnGoesOn \/ BootBegins
    PROVE  HeadlessInv'
<1>0. ContractType /\ run \in RunType /\ Job \in Turn
  BY HeadlessAssumption DEF HeadlessInv, HeadlessType
<1>1. CASE Signalled \/ DeadlinePasses \/ ReaderStops
  <2>1. ContractType' /\ VerdictsStand
    BY <1>0, <1>1, NoOp DEF Signalled, DeadlinePasses, ReaderStops
  <2>2. UNCHANGED <<stage, code, verdict, run>>
    BY <1>1 DEF Signalled, DeadlinePasses, ReaderStops, contractVars
  <2>3. /\ signal' \in BOOLEAN /\ (signal => signal')
        /\ deadline' \in {"none", "ahead", "past"} /\ (deadline = "past" => deadline' = "past")
        /\ stage = "exited" => signal' = signal
    BY <1>1 DEF Signalled, DeadlinePasses, ReaderStops, HeadlessInv, HeadlessType
  <2>4. RunIsTrue'
    BY <2>2, <2>3 DEF HeadlessInv, RunIsTrue
  <2> QED
    BY <1>0, <2>1, <2>2, <2>3, <2>4, HeadlessWaits
<1>2. CASE TurnGoesOn
  <2>1. ContractType' /\ VerdictsStand
    BY <1>0, <1>2, AskOp, SettleOp DEF TurnGoesOn, Verdicts
  <2>2. UNCHANGED <<stage, code, run, signal, deadline>>
    BY <1>2 DEF TurnGoesOn, headlessVars
  <2>3. RunIsTrue'
    BY <1>0, <2>1, <2>2 DEF HeadlessInv, RunIsTrue, VerdictsStand
  <2> QED
    BY <1>0, <2>1, <2>2, <2>3, HeadlessWaits DEF HeadlessInv, HeadlessType
<1>3. CASE BootBegins
  <2>1. ContractType' /\ VerdictsStand
    BY <1>0, <1>3, BeginOp DEF BootBegins
  <2>2. /\ UNCHANGED <<stage, code, signal, deadline>>
        /\ run' = [run EXCEPT !.boot = "begun"]
    BY <1>3 DEF BootBegins, Around
  <2>3. /\ run' \in RunType /\ run'.saved = run.saved /\ run'.reported = run.reported
        /\ run'.interrupted = run.interrupted /\ run'.timed_out = run.timed_out
        /\ run'.abandoned = run.abandoned /\ run'.status = run.status
    BY <1>0, <2>2 DEF RunType
  <2>4. RunIsTrue'
    BY <1>0, <2>1, <2>2, <2>3 DEF HeadlessInv, RunIsTrue, VerdictsStand
  <2> QED
    BY <2>1, <2>2, <2>3, <2>4, HeadlessWaits DEF HeadlessInv, HeadlessType
<1> QED
  BY <1>1, <1>2, <1>3

LEMMA RunPrintInv ==
    ASSUME HeadlessInv, RunPrint
    PROVE  HeadlessInv'
<1>0. /\ ContractType /\ run \in RunType /\ Job \in Turn /\ RunIsTrue
      /\ stage \in Stages /\ code \in ExitCodes /\ signal \in BOOLEAN
      /\ deadline \in {"none", "ahead", "past"} /\ CodeIsTrue
  BY HeadlessAssumption DEF HeadlessInv, HeadlessType
<1> DEFINE Decided ==
        stage' \in {"flush", "final"} =>
            /\ code' = EXIT_OK => verdict[Job] = "finished" /\ run'.saved /\ run'.reported
            /\ code' = EXIT_TIMEOUT => deadline = "past"
            /\ code' = EXIT_INTERRUPT => signal
<1> USE DEF EXIT_OK, EXIT_FAILURE, EXIT_USAGE, EXIT_TIMEOUT, EXIT_INTERRUPT
<1>1. CASE Prepare \/ Ready \/ Greet
  <2>1. UNCHANGED <<contractVars, run, signal, deadline>>
    BY <1>1 DEF Prepare, Ready, Greet, Aside, Around
  <2>2. stage' \in Stages \ {"exited"} /\ code' \in ExitCodes /\ Decided
    BY <1>0, <1>1 DEF Prepare, Ready, Greet, Return, Stages, ExitCodes
  <2>3. ContractType' /\ VerdictsStand
    BY <1>0, <2>1, NoOp
  <2>4. RunIsTrue'
    BY <1>0, <1>1, <2>1 DEF RunIsTrue, contractVars, Closing, Prepare, Ready, Greet
  <2> QED
    BY <1>0, <2>1, <2>2, <2>3, <2>4, HeadlessReturns
<1>2. CASE DriveSignal \/ DriveDeadline
  <2>1. ContractType' /\ VerdictsStand
    BY <1>0, <1>2, NoOp, CancelOp DEF DriveSignal, DriveDeadline, CancelTurnOnce
  <2>2. UNCHANGED <<signal, deadline, code>> /\ stage' \in {"drive", "shutdown"} /\ ~run.abandoned
    BY <1>0, <1>2 DEF DriveSignal, DriveDeadline, CancelTurnOnce, Around, RunIsTrue, Closing
  <2>3. /\ run' \in RunType
        /\ run'.interrupted => signal
        /\ run'.timed_out => deadline = "past"
        /\ ~run'.abandoned
        /\ run'.status \in {run.status, "cancelled"}
    BY <1>0, <1>2, <2>2 DEF DriveSignal, DriveDeadline, SignalDue, DeadlineDue, RunType, RunIsTrue
  <2>4. RunIsTrue'
    BY <1>0, <2>1, <2>2, <2>3 DEF RunIsTrue, VerdictsStand
  <2> QED
    BY <1>0, <2>1, <2>2, <2>3, <2>4, HeadlessReturns DEF Stages
<1>3. CASE DriveStart \/ DriveOutputFails \/ DriveAsk \/ DriveTerminal
  <2>1. ContractType' /\ VerdictsStand
    BY <1>0, <1>3, NoOp, CancelOp, AnswerOp
    DEF DriveStart, DriveOutputFails, DriveAsk, DriveTerminal
  <2>2. /\ UNCHANGED <<signal, deadline, code>> /\ stage' \in {"drive", "shutdown"}
        /\ stage = "drive" /\ ~run.abandoned
    BY <1>0, <1>3 DEF DriveStart, DriveOutputFails, DriveAsk, DriveTerminal, Driving, Around,
                      RunIsTrue, Closing
  <2>3. /\ run' \in RunType
        /\ run'.interrupted = run.interrupted /\ run'.timed_out = run.timed_out
        /\ run'.abandoned => run'.status = "failed" /\ stage' = "shutdown"
        /\ run'.status \in {run.status, "failed", "cancelled"} \/ run'.status = verdict[Job]
    <3>1. CASE DriveStart \/ DriveOutputFails
      BY <1>0, <2>2, <3>1 DEF DriveStart, DriveOutputFails, RunType
    <3>2. CASE DriveAsk
      <4>1. PICK a \in asked :
                \/ run' = [run EXCEPT !.seen = @ \cup {a}, !.denied = @ + 1]
                \/ run' = [run EXCEPT !.seen = @ \cup {a}, !.denied = @ + 1, !.status = "failed"]
        BY <3>2 DEF DriveAsk
      <4>2. run.seen \cup {a} \subseteq [turn : Turn, ask : Nat] /\ run.denied + 1 \in Nat
        BY <1>0, <4>1 DEF RunType, ContractType
      <4> QED
        BY <1>0, <2>2, <4>1, <4>2 DEF RunType
    <3>3. CASE DriveTerminal
      <4>1. verdict[Job] \in Verdicts
        BY <1>0 DEF ContractType
      <4> QED
        BY <1>0, <2>2, <3>3, <4>1 DEF DriveTerminal, RunType, Verdicts
    <3> QED
      BY <1>3, <3>1, <3>2, <3>3
  <2>4. RunIsTrue'
    BY <1>0, <2>1, <2>2, <2>3 DEF RunIsTrue, VerdictsStand, Closing
  <2> QED
    BY <1>0, <2>1, <2>2, <2>3, <2>4, HeadlessReturns DEF Stages
<1>4. CASE Shutdown
  <2>1. ContractType' /\ VerdictsStand
    BY <1>0, <1>4, CancelOp DEF Shutdown
  <2>2. UNCHANGED <<signal, deadline, code>> /\ stage' = "report"
    BY <1>4 DEF Shutdown, Around
  <2>3. /\ run' \in RunType
        /\ run'.interrupted => run.interrupted \/ signal
        /\ run'.timed_out => run.timed_out \/ deadline = "past"
        /\ run'.abandoned = run.abandoned /\ run'.status = run.status
    BY <1>0, <1>4 DEF Shutdown, RunType
  <2>4. RunIsTrue'
    BY <1>0, <2>1, <2>2, <2>3 DEF RunIsTrue, VerdictsStand, Closing
  <2> QED
    BY <1>0, <2>1, <2>2, <2>3, <2>4, HeadlessReturns DEF Stages
<1>5. CASE Report
  <2>1. UNCHANGED <<contractVars, signal, deadline>>
    BY <1>5 DEF Report, Around
  <2>2. ContractType' /\ VerdictsStand
    BY <1>0, <2>1, NoOp
  <2>3. /\ classify(DriveStatus) \in ExitCodes
        /\ classify(DriveStatus) = EXIT_OK => run.status = "finished" /\ run.saved
        /\ classify(DriveStatus) = EXIT_TIMEOUT => run.timed_out
        /\ classify(DriveStatus) = EXIT_INTERRUPT => run.interrupted
    <3>1. DriveStatus \in {"incomplete", "finished", "cancelled", "failed"}
      BY <1>0 DEF DriveStatus, RunType
    <3>2. DriveStatus = "finished" => run.status = "finished" /\ run.saved
      BY <1>0 DEF DriveStatus, RunType
    <3> HIDE DEF DriveStatus
    <3> QED
      BY <3>1, <3>2 DEF classify, ExitCodes
  <2>4. /\ run' \in RunType /\ run'.interrupted = run.interrupted /\ run'.timed_out = run.timed_out
        /\ run'.abandoned = run.abandoned /\ run'.status = run.status /\ run'.saved = run.saved
    BY <1>0, <1>5 DEF Report, RunType
  <2>5. stage' \in {"flush", "final"}
    BY <1>5 DEF Report, Return
  <2>6. code' \in ExitCodes /\ Decided
    <3>1. ASSUME NEW c \in ExitCodes,
                 \/ signal /\ code' = EXIT_INTERRUPT
                 \/ (run.timed_out \/ deadline = "past") /\ code' = EXIT_TIMEOUT
                 \/ code' = c,
                 c = EXIT_OK => verdict[Job] = "finished" /\ run'.saved /\ run'.reported,
                 c = EXIT_TIMEOUT => run.timed_out, c = EXIT_INTERRUPT => run.interrupted
          PROVE  code' \in ExitCodes /\ Decided
      BY <1>0, <3>1 DEF ExitCodes, RunIsTrue
    <3>2. CASE run.abandoned
      <4>1. classify(DriveStatus) # EXIT_OK
        BY <1>0, <2>3, <3>2 DEF RunIsTrue
      <4> QED
        BY <1>5, <2>3, <3>1, <3>2, <4>1 DEF Report, Return
    <3>3. CASE ~run.abandoned /\ run' = [run EXCEPT !.reported = TRUE]
      <4>1. run'.reported
        BY <1>0, <3>3 DEF RunType
      <4>2. classify(DriveStatus) = EXIT_OK => verdict[Job] = "finished" /\ run'.saved
        BY <1>0, <2>3, <2>4 DEF RunIsTrue
      <4> HIDE DEF classify, DriveStatus
      <4>3. \E c \in {classify(DriveStatus), IF classify(DriveStatus) = EXIT_OK THEN EXIT_FAILURE
                                             ELSE classify(DriveStatus)} :
                 \/ signal /\ code' = EXIT_INTERRUPT
                 \/ (run.timed_out \/ deadline = "past") /\ code' = EXIT_TIMEOUT
                 \/ code' = c
        BY <1>5, <3>3 DEF Report, Return
      <4> QED
        BY <2>3, <3>1, <4>1, <4>2, <4>3 DEF ExitCodes
    <3>4. CASE ~run.abandoned /\ run' # [run EXCEPT !.reported = TRUE]
      <4> DEFINE c == IF classify(DriveStatus) = EXIT_OK THEN EXIT_FAILURE ELSE classify(DriveStatus)
      <4>1. c \in ExitCodes /\ c # EXIT_OK /\ (c = EXIT_TIMEOUT => run.timed_out)
            /\ (c = EXIT_INTERRUPT => run.interrupted)
        BY <2>3 DEF ExitCodes
      <4>2. \/ signal /\ code' = EXIT_INTERRUPT
            \/ (run.timed_out \/ deadline = "past") /\ code' = EXIT_TIMEOUT
            \/ code' = c
        BY <1>5, <3>4 DEF Report, Return
      <4> HIDE DEF c
      <4> QED
        BY <3>1, <4>1, <4>2
    <3> QED
      BY <3>2, <3>3, <3>4
  <2>7. RunIsTrue'
    BY <1>0, <2>1, <2>4, <2>5 DEF RunIsTrue, contractVars, Closing
  <2> QED
    BY <1>0, <2>1, <2>2, <2>4, <2>5, <2>6, <2>7, HeadlessReturns DEF Stages
<1>6. CASE Flush
  <2>1. UNCHANGED <<contractVars, run, signal, deadline>> /\ stage' = "final"
    BY <1>6 DEF Flush, Aside, Around, Return
  <2>2. code' \in ExitCodes /\ Decided
    BY <1>0, <1>6, <2>1 DEF Flush, Return, ExitCodes, CodeIsTrue
  <2>3. ContractType' /\ VerdictsStand
    BY <1>0, <2>1, NoOp
  <2>4. RunIsTrue'
    BY <1>0, <2>1 DEF RunIsTrue, contractVars, Closing
  <2> QED
    BY <1>0, <2>1, <2>2, <2>3, <2>4, HeadlessReturns DEF Stages
<1>7. CASE Final
  <2>1. UNCHANGED <<contractVars, run, signal, deadline>> /\ stage = "final" /\ stage' = "exited"
    BY <1>7 DEF Final, Aside, Around, Exit
  <2>2. /\ code' \in ExitCodes
        /\ code' = EXIT_OK => code = EXIT_OK
        /\ code' = EXIT_TIMEOUT => code = EXIT_TIMEOUT
        /\ signal <=> code' = EXIT_INTERRUPT
    BY <1>0, <1>7 DEF Final, Exit, ExitCodes, CodeIsTrue
  <2>3. HeadlessType'
    BY <1>0, <2>1, <2>2, NoOp DEF HeadlessType, Stages
  <2>4. RunIsTrue' /\ CodeIsTrue' /\ SignalIsTold'
    BY <1>0, <2>1, <2>2 DEF RunIsTrue, CodeIsTrue, SignalIsTold, contractVars, Closing
  <2> QED
    BY <2>3, <2>4 DEF HeadlessInv
<1> QED
  BY <1>1, <1>2, <1>3, <1>4, <1>5, <1>6, <1>7 DEF RunPrint

-----------------------------------------------------------------------------
(* The server keeps its invariant *)

Away == {"idle", "refused", "gone"}

LEMMA ServerFacts ==
    ASSUME ServerInv
    PROVE  /\ ContractType /\ BegunFirst /\ Request \subseteq Turn /\ NoTurn \notin Request
           /\ \A r \in Request : stream[r] \in StreamType /\ (r \in Connected <=> stream[r].pc \notin Away)
           /\ NobodyAsks \in Asks /\ NobodyAsks.turn = NoTurn
           /\ EmptySlot.owner = NoTurn /\ EmptySlot.id = NobodyAsks
           /\ EmptySlot \in [id : Asks, owner : Request \cup {NoTurn}]
  BY ServerAssumption, ContractAssumption
  DEF ServerInv, ContractInv, ServerType, Connected, Away, NobodyAsks, EmptySlot, Asks

(* Steps of the runtime, of spawned tasks and of the shutdown that leave    *)
(* the streams and the slot alone.                                          *)
LEMMA StreamsStay ==
    ASSUME ServerInv, ContractInv', UNCHANGED <<stream, slot, active_turn, slotTask>>,
           bootTask' \in [Request -> {"none", "spawned", "begun"}],
           leaseTask' \in [Request -> BOOLEAN], handleTask' \in [Request -> BOOLEAN],
           \A r \in Request :
               /\ bootTask'[r] = "begun" => r \in begun'
               /\ bootTask'[r] # "none" => bootTask[r] # "none"
               /\ r \in begun => r \in begun'
               /\ r \in begun' => r \in begun \/ bootTask[r] # "none"
               /\ leaseTask'[r] => leaseTask[r]
               /\ handleTask'[r] => stream[r].pc = "gone"
               /\ r \in Connected /\ live' = r /\ verdict'[r] = "none" => ~stop'[r] \/ phase' = "down"
    PROVE  ServerInv'
<1>1. Connected' = Connected
  BY DEF Connected
<1>2. ServerType'
  BY DEF ServerInv, ServerType
<1>3. TurnOfStream'
  BY DEF ServerInv, TurnOfStream
<1>4. LeftBehind'
  BY DEF ServerInv, LeftBehind
<1>5. OneLease' /\ SlotIsOwned' /\ SlotReachesItsStream'
  BY <1>1 DEF ServerInv, OneLease, SlotIsOwned, SlotReachesItsStream
<1>6. ConnectedTurnRuns'
  BY <1>1 DEF ConnectedTurnRuns, Connected
<1> QED
  BY <1>2, <1>3, <1>4, <1>5, <1>6 DEF ServerInv

(* A stream is dropped, or ends: what it leaves behind is its own. *)
LEMMA StreamGoes ==
    ASSUME ServerInv, NEW r \in Connected, Gone(r), ContractInv',
           UNCHANGED <<live, begun, verdict, bootTask>>, active_turn' = NoTurn,
           \A q \in Turn \ {r} : stop'[q] = stop[q], phase = "down" => phase' = "down",
           leaseTask' \in [Request -> BOOLEAN], handleTask' \in [Request -> BOOLEAN],
           \A q \in Request \ {r} : leaseTask'[q] = leaseTask[q] /\ handleTask'[q] = handleTask[q],
           slotTask' = [slotTask EXCEPT ![r] = IF stream[r].pc = "waiting" THEN stream[r].ask
                                               ELSE NobodyAsks],
           slot' = slot \/ (stream[r].pc # "waiting" /\ slot' = EmptySlot)
    PROVE  ServerInv'
<1>0. r \in Request /\ stream[r].pc \notin Away
  BY ServerFacts DEF Connected
<1>1. /\ stream'[r] = [NoStream EXCEPT !.pc = "gone"] /\ stream'[r].pc = "gone"
      /\ \A q \in Request \ {r} : stream'[q] = stream[q]
      /\ stream' \in [Request -> StreamType]
  <2>1. [NoStream EXCEPT !.pc = "gone"] \in StreamType
    BY ServerFacts DEF NoStream, StreamType, StreamPc
  <2> QED
    BY <1>0, <2>1 DEF Gone, ServerInv, ServerType, NoStream
<1>2. /\ slotTask'[r] = IF stream[r].pc = "waiting" THEN stream[r].ask ELSE NobodyAsks
      /\ \A q \in Request \ {r} : slotTask'[q] = slotTask[q]
      /\ slotTask' \in [Request -> Asks]
  <2>1. stream[r].ask \in Asks
    BY <1>0, ServerFacts DEF StreamType
  <2> QED
    BY <1>0, <2>1, ServerFacts DEF ServerInv, ServerType
<1>3. \A q \in Request : q \in Connected' <=> q # r /\ q \in Connected
  BY <1>0, <1>1 DEF Connected
<1>4. \A q \in Request \ {r} : q \notin Connected
  BY <1>0 DEF ServerInv, OneLease
<1>5. ServerType'
  BY <1>1, <1>2, ServerFacts DEF ServerInv, ServerType
<1>6. TurnOfStream'
  BY <1>0, <1>1 DEF ServerInv, TurnOfStream, Attached
<1>7. LeftBehind'
  <2>1. stream[r].pc = "waiting" => stream[r].ask.turn = r
    BY <1>0 DEF ServerInv, SlotIsOwned
  <2> QED
    BY <1>0, <1>1, <1>2, <2>1 DEF ServerInv, LeftBehind
<1>8. OneLease' /\ ConnectedTurnRuns'
  BY <1>3, <1>4 DEF OneLease, ConnectedTurnRuns, Connected
<1>9. \A q \in Request : stream'[q].pc # "waiting"
  BY <1>1, <1>4, ServerFacts DEF Away
<1>10. SlotIsOwned'
  BY <1>9, ServerFacts DEF ServerInv, SlotIsOwned
<1>11. SlotReachesItsStream'
  <2>1. CASE slot' = EmptySlot
    BY <1>9, <2>1, ServerFacts DEF SlotReachesItsStream
  <2>2. CASE slot' = slot /\ slot.owner # NoTurn
    <3>1. slot.owner \in Request /\ slot.id.turn = slot.owner
      BY <2>2 DEF ServerInv, ServerType, SlotIsOwned
    <3>2. slotTask'[slot.owner] = slot.id
      <4>1. CASE slot.owner = r
        <5>1. slotTask[r] = NobodyAsks
          BY <1>0 DEF ServerInv, LeftBehind, Away
        <5>2. stream[r].pc = "waiting"
          BY <3>1, <4>1, <5>1, ServerFacts DEF ServerInv, SlotReachesItsStream
        <5> QED
          BY <1>0, <1>2, <4>1, <5>2 DEF ServerInv, SlotIsOwned
      <4>2. CASE slot.owner # r
        <5>1. stream[slot.owner].pc # "waiting"
          BY <1>4, <3>1, <4>2, ServerFacts DEF Away
        <5> QED
          BY <1>2, <2>2, <3>1, <4>2, <5>1 DEF ServerInv, SlotReachesItsStream
      <4> QED
        BY <4>1, <4>2
    <3> QED
      BY <1>9, <2>2, <3>2 DEF SlotReachesItsStream
  <2>3. CASE slot' = slot /\ slot.owner = NoTurn
    BY <1>9, <2>3 DEF SlotReachesItsStream
  <2> QED
    BY <2>1, <2>2, <2>3
<1> QED
  BY <1>5, <1>6, <1>7, <1>8, <1>10, <1>11 DEF ServerInv

(* A stream goes on: the lease is its own, and the slot with it. *)
LEMMA StreamMoves ==
    ASSUME ServerInv, NEW r \in Request, NEW s \in StreamType, stream' = [stream EXCEPT ![r] = s],
           ContractType', UNCHANGED <<live, begun, verdict, stop, phase>>,
           UNCHANGED <<leaseTask, handleTask, slotTask>>,
           stream[r].pc # "gone", s.pc # "gone",
           r \in Connected \/ (stream[r].pc = "idle" /\ r \notin begun),
           r \in begun => s.pc \in Attached \cup {"starting"}, s.pc \in Attached => r \in begun,
           bootTask' \in [Request -> {"none", "spawned", "begun"}],
           bootTask'[r] # "none" => s.pc = "starting", bootTask'[r] = "begun" => r \in begun,
           \A q \in Request \ {r} : bootTask'[q] = bootTask[q],
           \/ s.pc = "refused" /\ active_turn' = active_turn /\ r \notin Connected
           \/ active_turn' = r /\ active_turn \in {r, NoTurn},
           s.pc = "waiting" => slot' = [id |-> s.ask, owner |-> r] /\ s.ask.turn = r /\ r \in Connected,
           s.pc # "waiting" => \/ slot' = slot /\ stream[r].pc # "waiting"
                               \/ slot' = EmptySlot /\ r \in Connected
    PROVE  ServerInv'
<1>1. /\ stream'[r] = s /\ \A q \in Request \ {r} : stream'[q] = stream[q]
      /\ stream' \in [Request -> StreamType]
  BY DEF ServerInv, ServerType
<1>2. \A q \in Request : q # r => (q \in Connected' <=> q \in Connected)
  BY <1>1 DEF Connected
<1>3. r \in Connected => active_turn = r /\ \A q \in Request \ {r} : q \notin Connected
  BY DEF ServerInv, OneLease
<1>4. ServerType'
  <2>1. s.ask \in Asks
    BY DEF StreamType
  <2>2. slot' \in [id : Asks, owner : Request \cup {NoTurn}]
    BY <2>1, ServerFacts DEF ServerInv, ServerType
  <2> QED
    BY <1>1, <2>2 DEF ServerInv, ServerType
<1>5. TurnOfStream'
  BY <1>1 DEF ServerInv, TurnOfStream
<1>6. LeftBehind'
  BY <1>1 DEF ServerInv, LeftBehind
<1>7. OneLease'
  <2>1. \A q \in Request : q \in Connected => active_turn = q
    BY DEF ServerInv, OneLease
  <2>2. s.pc = "refused" => r \notin Connected'
    BY <1>1 DEF Connected
  <2> QED
    BY <1>2, <2>1, <2>2, ServerFacts DEF OneLease
<1>8. ConnectedTurnRuns'
  <2> SUFFICES ASSUME NEW q \in Request, q \in Connected', live = q, verdict[q] = "none"
               PROVE  ~stop[q] \/ phase = "down"
    BY DEF ConnectedTurnRuns, Connected
  <2>1. q \in begun
    BY ServerFacts DEF BegunFirst
  <2>2. q \in Connected
    BY <1>2, <2>1
  <2> QED
    BY <2>2 DEF ServerInv, ConnectedTurnRuns
<1>9. r \in Connected => \A q \in Request \ {r} : stream'[q].pc # "waiting"
  BY <1>1, <1>3, ServerFacts DEF Away
<1>10. slotTask[r] = NobodyAsks
  BY DEF ServerInv, LeftBehind
<1>11. CASE s.pc = "waiting"
  <2>1. slot'.id = s.ask /\ slot'.owner = r
    BY <1>11
  <2>2. SlotIsOwned' /\ SlotReachesItsStream'
    BY <1>1, <1>9, <1>11, <2>1, ServerFacts DEF SlotIsOwned, SlotReachesItsStream
  <2> QED
    BY <1>4, <1>5, <1>6, <1>7, <1>8, <2>2 DEF ServerInv, ContractInv, BegunFirst
<1>12. CASE s.pc # "waiting" /\ slot' = EmptySlot /\ r \in Connected
  <2>1. SlotIsOwned' /\ SlotReachesItsStream'
    BY <1>1, <1>9, <1>12, ServerFacts DEF SlotIsOwned, SlotReachesItsStream
  <2> QED
    BY <1>4, <1>5, <1>6, <1>7, <1>8, <2>1 DEF ServerInv, ContractInv, BegunFirst
<1>13. CASE s.pc # "waiting" /\ slot' = slot /\ stream[r].pc # "waiting"
  <2>1. SlotIsOwned'
    BY <1>1, <1>13 DEF ServerInv, SlotIsOwned
  <2>2. slot.owner # r
    BY <1>10, <1>13, ServerFacts DEF ServerInv, SlotIsOwned, SlotReachesItsStream
  <2>3. slot.owner \in Request \cup {NoTurn}
    BY DEF ServerInv, ServerType
  <2>4. SlotReachesItsStream'
    BY <1>1, <1>13, <2>2, <2>3 DEF ServerInv, SlotReachesItsStream
  <2> QED
    BY <1>4, <1>5, <1>6, <1>7, <1>8, <2>1, <2>4 DEF ServerInv, ContractInv, BegunFirst
<1> QED
  BY <1>11, <1>12, <1>13

(* The slot is emptied, or kept, while nobody waits for it. *)
LEMMA SlotEmptied ==
    ASSUME ServerInv, UNCHANGED <<contractVars, phase, active_turn, stream, bootTask, leaseTask, handleTask>>,
           slotTask' \in [Request -> Asks],
           \A r \in Request : slotTask'[r] \in {slotTask[r], NobodyAsks},
           \/ slot' = EmptySlot /\ \A r \in Request : stream[r].pc # "waiting"
           \/ /\ slot' = slot
              /\ \A r \in Request : slotTask'[r] # slotTask[r] => slotTask[r] # slot.id
    PROVE  ServerInv'
<1>1. Connected' = Connected
  BY DEF Connected
<1>2. ContractInv'
  BY ServerFacts, NoOp DEF ContractInv
<1>3. ServerType' /\ TurnOfStream' /\ OneLease' /\ ConnectedTurnRuns'
  BY <1>1, ServerFacts DEF ServerInv, ServerType, TurnOfStream, OneLease, ConnectedTurnRuns, contractVars
<1>4. LeftBehind'
  BY DEF ServerInv, LeftBehind
<1>5. SlotIsOwned'
  BY ServerFacts DEF ServerInv, SlotIsOwned
<1>6. SlotReachesItsStream'
  <2>1. slot.owner \in Request \cup {NoTurn}
    BY DEF ServerInv, ServerType
  <2> QED
    BY <2>1, ServerFacts DEF ServerInv, SlotReachesItsStream
<1> QED
  BY <1>2, <1>3, <1>4, <1>5, <1>6 DEF ServerInv

LEMMA MovesInv ==
    ASSUME ServerInv, NEW r \in Request,
           \/ prompt_sse(r) \/ StartTurn(r) \/ ParkApproval(r)
           \/ BootReady(r) /\ stream[r].pc = "starting"
           \/ Approve(r) /\ Accepts(stream[r].ask)
    PROVE  ServerInv'
<1>0. /\ ContractType /\ stream[r] \in StreamType /\ r \in Turn /\ r # NoTurn
      /\ (r \in Connected <=> stream[r].pc \notin Away)
      /\ stream \in [Request -> StreamType] /\ NobodyAsks \in Asks
      /\ bootTask \in [Request -> {"none", "spawned", "begun"}]
      /\ (r \in Connected => active_turn = r)
  BY ServerFacts DEF ServerInv, ServerType, OneLease
<1>1. CASE prompt_sse(r)
  <2>1. PICK p \in {"opened", "refused"} :
            /\ stream' = [stream EXCEPT ![r].pc = p]
            /\ \/ p = "opened" /\ active_turn = NoTurn /\ active_turn' = r
               \/ p = "refused" /\ active_turn' = active_turn
    BY <1>1 DEF prompt_sse
  <2> DEFINE s == [stream[r] EXCEPT !.pc = p]
  <2>2. s \in StreamType /\ s.pc = p /\ stream' = [stream EXCEPT ![r] = s]
    BY <1>0, <2>1 DEF StreamType, StreamPc
  <2> HIDE DEF s
  <2>3. stream[r].pc = "idle" /\ UNCHANGED <<contractVars, phase, slot, bootTask, leaseTask, handleTask, slotTask>>
    BY <1>1 DEF prompt_sse, TaskVars
  <2>4. r \notin begun /\ bootTask[r] = "none" /\ r \notin Connected
    BY <1>0, <2>3 DEF ServerInv, TurnOfStream, Attached, Away
  <2>5. ContractType' /\ UNCHANGED <<live, begun, verdict, stop>>
    BY <1>0, <2>3, NoOp DEF contractVars
  <2> QED
    BY <1>0, <2>1, <2>2, <2>3, <2>4, <2>5, StreamMoves DEF Attached
<1>2. CASE StartTurn(r)
  <2> DEFINE s == [stream[r] EXCEPT !.pc = "starting"]
  <2>1. s \in StreamType /\ s.pc = "starting" /\ stream' = [stream EXCEPT ![r] = s]
    BY <1>0, <1>2 DEF StartTurn, StreamType, StreamPc
  <2> HIDE DEF s
  <2>2. /\ stream[r].pc = "opened" /\ bootTask' = [bootTask EXCEPT ![r] = "spawned"]
        /\ UNCHANGED <<contractVars, phase, active_turn, slot, leaseTask, handleTask, slotTask>>
    BY <1>2 DEF StartTurn, TaskVars
  <2>3. r \notin begun /\ r \in Connected
    BY <1>0, <2>2 DEF ServerInv, TurnOfStream, Attached, Away
  <2>4. ContractType' /\ UNCHANGED <<live, begun, verdict, stop>>
    BY <1>0, <2>2, NoOp DEF contractVars
  <2> QED
    BY <1>0, <2>1, <2>2, <2>3, <2>4, StreamMoves DEF Attached
<1>3. CASE ParkApproval(r)
  <2>1. PICK a \in asked :
            /\ a.turn = r
            /\ stream' = [stream EXCEPT ![r].pc = IF autonomous THEN "deciding" ELSE "waiting",
                             ![r].ask = a, ![r].seen = @ \cup {a},
                             ![r].decision = IF autonomous THEN "denied" ELSE "none"]
            /\ slot' = IF autonomous THEN slot ELSE [id |-> a, owner |-> r]
    BY <1>3 DEF ParkApproval
  <2> DEFINE s == [stream[r] EXCEPT !.pc = IF autonomous THEN "deciding" ELSE "waiting",
                      !.ask = a, !.seen = @ \cup {a},
                      !.decision = IF autonomous THEN "denied" ELSE "none"]
  <2>2. /\ s.pc = IF autonomous THEN "deciding" ELSE "waiting"
        /\ s.ask = a /\ s \in StreamType
    <3>1. a \in Asks /\ a \in [turn : Turn, ask : Nat]
      BY <1>0, <2>1 DEF ContractType, Asks
    <3>2. stream[r].seen \cup {a} \subseteq [turn : Turn, ask : Nat]
      BY <1>0, <3>1 DEF StreamType
    <3> QED
      BY <1>0, <3>1, <3>2 DEF StreamType, StreamPc
  <2>3. stream' = [stream EXCEPT ![r] = s]
    BY <1>0, <2>1
  <2> HIDE DEF s
  <2>4. /\ stream[r].pc = "reading"
        /\ UNCHANGED <<contractVars, phase, active_turn, bootTask, leaseTask, handleTask, slotTask>>
    BY <1>3 DEF ParkApproval, TaskVars
  <2>5. r \in begun /\ r \in Connected /\ bootTask[r] = "none"
    BY <1>0, <2>4 DEF ServerInv, TurnOfStream, Attached, Away
  <2>6. ContractType' /\ UNCHANGED <<live, begun, verdict, stop>>
    BY <1>0, <2>4, NoOp DEF contractVars
  <2> QED
    BY <1>0, <2>1, <2>2, <2>3, <2>4, <2>5, <2>6, StreamMoves DEF Attached
<1>4. CASE BootReady(r) /\ stream[r].pc = "starting"
  <2> DEFINE s == [stream[r] EXCEPT !.pc = "reading", !.captured = TRUE]
  <2>1. s \in StreamType /\ s.pc = "reading" /\ stream' = [stream EXCEPT ![r] = s]
    BY <1>0, <1>4 DEF BootReady, StreamType, StreamPc
  <2> HIDE DEF s
  <2>2. /\ bootTask[r] = "begun" /\ bootTask' = [bootTask EXCEPT ![r] = "none"]
        /\ UNCHANGED <<live, begun, verdict, stop, parked, asked, phase, active_turn, slot,
                       leaseTask, handleTask, slotTask>>
    BY <1>4 DEF BootReady
  <2>3. r \in begun /\ r \in Connected
    BY <1>0, <1>4, <2>2 DEF ServerInv, TurnOfStream, Away
  <2>4. ContractType'
    BY <1>0, <2>2, NoOp DEF contractVars
  <2> QED
    BY <1>0, <1>4, <2>1, <2>2, <2>3, <2>4, StreamMoves DEF Attached
<1>5. CASE Approve(r) /\ Accepts(stream[r].ask)
  <2> DEFINE s == [stream[r] EXCEPT !.pc = "reading", !.ask = NobodyAsks, !.decision = "none"]
  <2>1. s \in StreamType /\ s.pc = "reading" /\ stream' = [stream EXCEPT ![r] = s]
    BY <1>0, <1>5 DEF Approve, StreamType, StreamPc
  <2> HIDE DEF s
  <2>2. /\ stream[r].pc = "deciding" /\ Answer(stream[r].ask)
        /\ slot' \in {slot, EmptySlot}
        /\ UNCHANGED <<phase, active_turn, bootTask, leaseTask, handleTask, slotTask>>
    BY <1>5 DEF Approve, TaskVars
  <2>3. r \in begun /\ r \in Connected /\ bootTask[r] = "none"
    BY <1>0, <2>2 DEF ServerInv, TurnOfStream, Attached, Away
  <2>4. ContractType' /\ UNCHANGED <<live, begun, verdict, stop>>
    BY <1>0, <2>2, AnswerOp DEF Answer
  <2> QED
    BY <1>0, <2>1, <2>2, <2>3, <2>4, StreamMoves DEF Attached
<1> QED
  BY <1>1, <1>2, <1>3, <1>4, <1>5

LEMMA DropInv ==
    ASSUME ServerInv, NEW r \in Request, r \in Connected, AfterDrop(r), Gone(r),
           UNCHANGED <<live, begun, verdict, parked, asked, bootTask>>,
           phase = "down" => phase' = "down",
           slot' = slot \/ (stream[r].pc # "waiting" /\ slot' = EmptySlot)
    PROVE  ServerInv'
<1>0. ContractType /\ BegunFirst /\ r \in Turn /\ stream[r] \in StreamType
  BY ServerFacts
<1>1. PICK o \in BOOLEAN : /\ o => r \in begun
                           /\ stop' = [stop EXCEPT ![r] = @ \/ o]
                           /\ handleTask' = [handleTask EXCEPT ![r] = @ \/ o]
  <2>1. \/ stop' = [stop EXCEPT ![r] = @ \/ TRUE] /\ handleTask' = [handleTask EXCEPT ![r] = @ \/ TRUE]
           /\ stream[r].pc \in Attached
        \/ stop' = [stop EXCEPT ![r] = @ \/ FALSE] /\ handleTask' = [handleTask EXCEPT ![r] = @ \/ FALSE]
    <3>1. stream[r].outcome \in BOOLEAN
      BY <1>0 DEF StreamType
    <3>2. CASE stream[r].pc \in {"reading", "waiting", "deciding"} /\ ~stream[r].outcome
      BY <3>2 DEF AfterDrop, Attached
    <3>3. CASE ~(stream[r].pc \in {"reading", "waiting", "deciding"} /\ ~stream[r].outcome)
      <4>1. (stream[r].pc \in {"reading", "waiting", "deciding"} /\ ~stream[r].outcome) = FALSE
        BY <3>3
      <4> QED
        BY <4>1 DEF AfterDrop
    <3> QED
      BY <3>2, <3>3
  <2>2. stream[r].pc \in Attached => r \in begun
    BY DEF ServerInv, TurnOfStream
  <2> QED
    BY <2>1, <2>2
<1>2. /\ stop' \in [Turn -> BOOLEAN] /\ (stop'[r] => stop[r] \/ o)
      /\ \A q \in Turn \ {r} : stop'[q] = stop[q]
  BY <1>0, <1>1 DEF ContractType
<1>3. ContractInv'
  BY <1>0, <1>1, <1>2 DEF ContractInv, ContractType, BegunFirst
<1>4. /\ handleTask' \in [Request -> BOOLEAN]
      /\ \A q \in Request \ {r} : handleTask'[q] = handleTask[q]
  BY <1>1 DEF ServerInv, ServerType
<1>5. /\ leaseTask' \in [Request -> BOOLEAN]
      /\ \A q \in Request \ {r} : leaseTask'[q] = leaseTask[q]
  <2>1. stream[r].captured \in BOOLEAN
    BY <1>0 DEF StreamType
  <2> QED
    BY <2>1 DEF AfterDrop, ServerInv, ServerType
<1>6. /\ active_turn' = NoTurn
      /\ slotTask' = [slotTask EXCEPT ![r] = IF stream[r].pc = "waiting" THEN stream[r].ask
                                             ELSE NobodyAsks]
  BY DEF AfterDrop
<1> QED
  BY <1>2, <1>3, <1>4, <1>5, <1>6, StreamGoes

LEMMA DropsInv ==
    ASSUME ServerInv,
           \/ ForceShutdown
           \/ \E r \in Request : \/ Disconnect(r) \/ StreamEnds(r)
                                 \/ Approve(r) /\ ~Accepts(stream[r].ask)
    PROVE  ServerInv'
<1>1. ASSUME NEW r \in Request, Disconnect(r)
      PROVE  ServerInv'
  BY <1>1, DropInv DEF Disconnect
<1>2. CASE ForceShutdown
  <2>1. PICK r \in Connected : AfterDrop(r) /\ Gone(r)
    BY <1>2 DEF ForceShutdown
  <2>2. r \in Request
    BY <2>1 DEF Connected
  <2> QED
    BY <1>2, <2>1, <2>2, DropInv DEF ForceShutdown
<1>3. ASSUME NEW r \in Request, Approve(r), ~Accepts(stream[r].ask)
      PROVE  ServerInv'
  <2>1. r \in Connected /\ stream[r].pc = "deciding"
    BY <1>3, ServerFacts DEF Approve, Away
  <2> QED
    BY <1>3, <2>1, DropInv DEF Approve
<1>4. ASSUME NEW r \in Request, StreamEnds(r)
      PROVE  ServerInv'
  <2>1. stream[r].pc = "reading" /\ r \in Connected
    BY <1>4, ServerFacts DEF StreamEnds, Away
  <2>2. /\ UNCHANGED <<contractVars, phase, slot, bootTask, handleTask, slotTask>>
        /\ active_turn' = NoTurn /\ Gone(r) /\ leaseTask' = [leaseTask EXCEPT ![r] = TRUE]
    BY <1>4 DEF StreamEnds
  <2>3. ContractInv'
    BY <2>2, ServerFacts, NoOp DEF ContractInv
  <2>4. slotTask' = [slotTask EXCEPT ![r] = IF stream[r].pc = "waiting" THEN stream[r].ask
                                            ELSE NobodyAsks]
    BY <2>1, <2>2 DEF ServerInv, ServerType, LeftBehind
  <2>5. /\ leaseTask' \in [Request -> BOOLEAN]
        /\ \A q \in Request \ {r} : leaseTask'[q] = leaseTask[q]
    BY <2>2 DEF ServerInv, ServerType
  <2>6. handleTask' \in [Request -> BOOLEAN] /\ UNCHANGED <<live, begun, verdict, stop>>
    BY <2>2 DEF ServerInv, ServerType, contractVars
  <2> QED
    BY <2>1, <2>2, <2>3, <2>4, <2>5, <2>6, StreamGoes
<1> QED
  BY <1>1, <1>2, <1>3, <1>4

(* /approvals and the cleanup of a dropped guard. *)
LEMMA SlotInv ==
    ASSUME ServerInv,
           \/ \E a \in asked, d \in {"approved", "denied"} : submit_approval(a, d)
           \/ \E r \in Request : SlotCleanup(r)
    PROVE  ServerInv'
<1>1. ASSUME NEW a \in asked, NEW d \in {"approved", "denied"}, submit_approval(a, d)
      PROVE  ServerInv'
  <2>1. a.turn \in Turn /\ slot.id = a /\ slot' = EmptySlot
    BY <1>1, ServerFacts DEF submit_approval, ContractType
  <2>2. slot.owner \in Request /\ slot.owner # NoTurn
    BY <2>1, ServerFacts, ContractAssumption DEF ServerInv, ServerType, SlotIsOwned
  <2> DEFINE r == slot.owner
  <2>3. UNCHANGED <<contractVars, phase, active_turn, bootTask, leaseTask, handleTask, slotTask>>
    BY <1>1 DEF submit_approval, TaskVars
  <2>4. \A q \in Request : stream[q].pc = "waiting" => q = r /\ stream[q].ask = a
    BY <2>1 DEF ServerInv, SlotIsOwned
  <2>5. CASE stream[r].pc = "waiting"
    <3> DEFINE s == [stream[r] EXCEPT !.pc = "deciding", !.decision = d]
    <3>1. stream[r] \in StreamType /\ r \in Connected
      BY <2>2, <2>5, ServerFacts DEF Away
    <3>2. s \in StreamType /\ s.pc = "deciding"
      BY <3>1 DEF StreamType, StreamPc
    <3>3. stream' = [stream EXCEPT ![r] = s]
      BY <1>1, <2>2, <2>4, <2>5 DEF submit_approval, ServerInv, ServerType
    <3> HIDE DEF s
    <3>4. r \in begun /\ bootTask[r] = "none" /\ active_turn = r
      BY <2>2, <2>5, <3>1 DEF ServerInv, TurnOfStream, OneLease, Attached
    <3>5. ContractType' /\ UNCHANGED <<live, begun, verdict, stop>>
      BY <2>3, ServerFacts, NoOp DEF contractVars
    <3>6. bootTask' \in [Request -> {"none", "spawned", "begun"}]
      BY <2>3 DEF ServerInv, ServerType
    <3> HIDE DEF r
    <3> QED
      BY <2>1, <2>2, <2>3, <2>5, <3>1, <3>2, <3>3, <3>4, <3>5, <3>6, StreamMoves DEF Attached, r
  <2>6. CASE stream[r].pc # "waiting"
    <3>1. stream' = stream
      BY <1>1, <2>6 DEF submit_approval
    <3>2. \A q \in Request : stream[q].pc # "waiting"
      BY <2>4, <2>6
    <3>3. slotTask' \in [Request -> Asks]
      BY <2>3 DEF ServerInv, ServerType
    <3> QED
      BY <2>1, <2>3, <3>1, <3>2, <3>3, SlotEmptied
  <2> QED
    BY <2>5, <2>6
<1>2. ASSUME NEW r \in Request, SlotCleanup(r)
      PROVE  ServerInv'
  <2>1. /\ slotTask[r] # NobodyAsks /\ slotTask' = [slotTask EXCEPT ![r] = NobodyAsks]
        /\ UNCHANGED <<contractVars, phase, active_turn, stream, bootTask, leaseTask, handleTask>>
        /\ slot' = IF slot.id = slotTask[r] THEN EmptySlot ELSE slot
    BY <1>2 DEF SlotCleanup, SlotIsMine
  <2>2. /\ slotTask' \in [Request -> Asks]
        /\ \A q \in Request : slotTask'[q] = IF q = r THEN NobodyAsks ELSE slotTask[q]
    BY <2>1, ServerFacts DEF ServerInv, ServerType
  <2>3. stream[r].pc = "gone" /\ slotTask[r].turn = r
    BY <2>1 DEF ServerInv, LeftBehind
  <2>4. ASSUME slot.id = slotTask[r], NEW q \in Request
        PROVE  stream[q].pc # "waiting"
    BY <2>3, <2>4 DEF ServerInv, SlotIsOwned
  <2> QED
    BY <2>1, <2>2, <2>4, SlotEmptied
<1> QED
  BY <1>1, <1>2

(* Everything that leaves streams and slot alone. *)
LEMMA SpawnedInv ==
    ASSUME ServerInv,
           \/ ShutdownRequested \/ ShutDown
           \/ \E r \in Request : \/ BootBegin(r) \/ LeaseCancel(r) \/ HandleCancel(r) \/ RuntimeActs(r)
                                 \/ BootReady(r) /\ stream[r].pc # "starting"
    PROVE  ServerInv'
<1>0. /\ ContractType /\ BegunFirst /\ Request \subseteq Turn
      /\ bootTask \in [Request -> {"none", "spawned", "begun"}]
      /\ leaseTask \in [Request -> BOOLEAN] /\ handleTask \in [Request -> BOOLEAN]
      /\ \A r \in Request : /\ bootTask[r] = "begun" => r \in begun
                            /\ handleTask[r] \/ leaseTask[r] => stream[r].pc = "gone"
                            /\ r \in Connected => stream[r].pc \notin Away
                            /\ r \in Connected /\ live = r /\ verdict[r] = "none"
                                  => ~stop[r] \/ phase = "down"
  BY ServerFacts DEF ServerInv, ServerType, TurnOfStream, LeftBehind, ConnectedTurnRuns
<1>1. CASE ShutdownRequested
  <2>1. ContractInv'
    BY <1>0, <1>1, NoOp DEF ContractInv, ShutdownRequested
  <2>2. /\ UNCHANGED <<live, begun, verdict, stop, stream, slot, active_turn, slotTask,
                       bootTask, leaseTask, handleTask>>
        /\ phase = "serving"
    BY <1>1 DEF ShutdownRequested, TaskVars, contractVars
  <2> QED
    BY <1>0, <2>1, <2>2, StreamsStay
<1>2. CASE ShutDown
  <2>1. ContractInv'
    BY <1>0, <1>2, CancelOp DEF ContractInv, ShutDown
  <2>2. /\ UNCHANGED <<live, begun, verdict, stream, slot, active_turn, slotTask,
                       bootTask, leaseTask, handleTask>>
        /\ phase' = "down"
    BY <1>2 DEF ShutDown, TaskVars, CancelLive
  <2> QED
    BY <1>0, <2>1, <2>2, StreamsStay
<1>3. ASSUME NEW r \in Request, BootBegin(r)
      PROVE  ServerInv'
  <2>1. ContractInv'
    BY <1>0, <1>3, BeginOp DEF ContractInv, BootBegin
  <2>2. /\ bootTask[r] = "spawned" /\ bootTask' = [bootTask EXCEPT ![r] = "begun"]
        /\ live' = r /\ begun' = begun \cup {r} /\ r \notin begun
        /\ stop' = [u \in Turn |-> stop[u] \/ u = live]
        /\ UNCHANGED <<stream, slot, active_turn, slotTask, leaseTask, handleTask, phase>>
    BY <1>3 DEF BootBegin, Begin, TaskVars
  <2>3. ~stop'[r]
    BY <1>0, <2>2, ContractAssumption DEF BegunFirst, ContractType
  <2> QED
    BY <1>0, <2>1, <2>2, <2>3, StreamsStay
<1>4. ASSUME NEW r \in Request, LeaseCancel(r) \/ HandleCancel(r)
      PROVE  ServerInv'
  <2>1. /\ CancelLive({r} \ {NoTurn}) \/ CancelLive({r})
        /\ stream[r].pc = "gone"
    BY <1>0, <1>4 DEF LeaseCancel, HandleCancel, LeaseHits
  <2>2. ContractInv'
    BY <1>0, <2>1, CancelOp DEF ContractInv
  <2>3. /\ UNCHANGED <<stream, slot, active_turn, slotTask, bootTask, phase>>
        /\ leaseTask' \in [Request -> BOOLEAN] /\ handleTask' \in [Request -> BOOLEAN]
        /\ \A q \in Request : (leaseTask'[q] => leaseTask[q]) /\ (handleTask'[q] => handleTask[q])
    BY <1>0, <1>4 DEF LeaseCancel, HandleCancel
  <2>4. /\ UNCHANGED <<live, verdict, begun>>
        /\ \A q \in Turn \ {r} : stop'[q] = stop[q]
    BY <1>0, <2>1 DEF CancelLive, ContractType
  <2>5. r \notin Connected
    BY <1>0, <2>1 DEF Away
  <2> QED
    BY <1>0, <2>2, <2>3, <2>4, <2>5, StreamsStay
<1>5. ASSUME NEW r \in Request, RuntimeActs(r)
      PROVE  ServerInv'
  <2>1. ContractInv'
    BY <1>0, <1>5, AskOp, SettleOp DEF ContractInv, RuntimeActs, Verdicts
  <2>2. UNCHANGED <<stream, slot, active_turn, slotTask, bootTask, leaseTask, handleTask, phase>>
    BY <1>5 DEF RuntimeActs, TaskVars
  <2>3. /\ UNCHANGED <<begun, stop>> /\ live' \in {live, NoTurn}
        /\ \A q \in Turn : verdict'[q] = "none" => verdict[q] = "none"
    BY <1>0, <1>5 DEF RuntimeActs, Ask, Settle, ContractType
  <2> QED
    BY <1>0, <2>1, <2>2, <2>3, ServerFacts, StreamsStay
<1>6. ASSUME NEW r \in Request, BootReady(r), stream[r].pc # "starting"
      PROVE  ServerInv'
  <2>1. /\ bootTask[r] = "begun" /\ bootTask' = [bootTask EXCEPT ![r] = "none"]
        /\ stop' = [stop EXCEPT ![r] = TRUE] /\ handleTask' = [handleTask EXCEPT ![r] = TRUE]
        /\ UNCHANGED <<live, begun, verdict, parked, asked, phase, active_turn, slot, stream,
                       leaseTask, slotTask>>
    BY <1>6 DEF BootReady
  <2>2. r \in begun /\ stream[r].pc = "gone" /\ r \notin Connected
    BY <1>0, <1>6, <2>1 DEF ServerInv, TurnOfStream, Away
  <2>3. ContractInv'
    BY <1>0, <2>1, <2>2 DEF ContractInv, ContractType, BegunFirst
  <2>4. /\ handleTask' \in [Request -> BOOLEAN]
        /\ \A q \in Request \ {r} : handleTask'[q] = handleTask[q] /\ stop'[q] = stop[q]
    BY <1>0, <2>1 DEF ContractType
  <2> QED
    BY <1>0, <2>1, <2>2, <2>3, <2>4, StreamsStay
<1> QED
  BY <1>1, <1>2, <1>3, <1>4, <1>5, <1>6

LEMMA ServerStep ==
    ASSUME ServerInv, ServerNext
    PROVE  ServerInv'
  BY MovesInv, DropsInv, SlotInv, SpawnedInv
  DEF ServerNext, ServerActs, StreamStep, SpawnedStep

-----------------------------------------------------------------------------
(* The properties *)

LEMMA InitFront ==
    ASSUME FrontInit
    PROVE  FrontInv
<1>1. ContractType /\ BegunFirst
  <2>1. NobodyAsks \in Asks /\ IsFiniteSet({})
    BY FS_EmptySet DEF NobodyAsks, Asks
  <2> QED
    BY <2>1 DEF FrontInit, ServerInit, ContractInit, ContractType, BegunFirst, Verdicts
<1>2. ServerInv
  <2>1. /\ \A r \in Request : stream[r] = NoStream /\ stream[r].pc = "idle"
        /\ slot = EmptySlot /\ slot.owner = NoTurn /\ begun = {} /\ live = NoTurn
        /\ slotTask = [r \in Request |-> NobodyAsks]
        /\ bootTask = [r \in Request |-> "none"]
        /\ leaseTask = [r \in Request |-> FALSE] /\ handleTask = [r \in Request |-> FALSE]
    BY DEF FrontInit, ServerInit, ContractInit, NoStream, EmptySlot
  <2>2. NoStream \in StreamType /\ EmptySlot \in [id : Asks, owner : Request \cup {NoTurn}]
        /\ NobodyAsks \in Asks
    BY DEF NoStream, StreamType, StreamPc, EmptySlot, NobodyAsks, Asks
  <2>3. ServerType
    BY <2>1, <2>2 DEF FrontInit, ServerInit, ServerType
  <2>4. TurnOfStream /\ LeftBehind /\ OneLease /\ ConnectedTurnRuns
    BY <2>1 DEF TurnOfStream, LeftBehind, OneLease, ConnectedTurnRuns, Connected, Attached
  <2>5. SlotIsOwned /\ SlotReachesItsStream
    BY <2>1 DEF SlotIsOwned, SlotReachesItsStream
  <2> QED
    BY <1>1, <2>3, <2>4, <2>5 DEF ServerInv, ContractInv
<1>3. HeadlessInv
  <2>1. /\ stage = "input" /\ run = FreshRun /\ code = EXIT_OK /\ signal = FALSE
        /\ deadline \in {"none", "ahead"}
    BY DEF FrontInit, HeadlessInit
  <2>2. FreshRun \in RunType /\ ~FreshRun.interrupted /\ ~FreshRun.timed_out
        /\ ~FreshRun.abandoned /\ FreshRun.status = "incomplete"
    BY DEF FreshRun, RunType
  <2> QED
    BY <1>1, <2>1, <2>2
    DEF HeadlessInv, HeadlessType, RunIsTrue, CodeIsTrue, SignalIsTold, Stages, ExitCodes
<1> QED
  BY <1>2, <1>3 DEF FrontInv, FrontInit, HeadlessInit

(* FrontInv holds in every reachable state. *)
LEMMA FrontInvariance == FrontSpec => []FrontInv
<1>1. FrontInit => FrontInv
  BY InitFront
<1>2. FrontInv /\ [FrontNext]_frontVars => FrontInv'
  <2> SUFFICES ASSUME FrontInv, [FrontNext]_frontVars
               PROVE  FrontInv'
    OBVIOUS
  <2>1. CASE Serves(ServerNext)
    BY <2>1, ServerStep DEF Serves, FrontInv, headlessVars
  <2>2. CASE Prints(HeadlessNext)
    BY <2>2, RunPrintInv, HeadlessOutside DEF Prints, FrontInv, HeadlessNext
  <2>3. CASE Draws(TuiNext)
    BY <2>3 DEF Draws, FrontInv, headlessVars
  <2>4. CASE UNCHANGED frontVars
    <3>1. ServerInv => ServerInv'
      BY <2>4 DEF frontVars, contractVars, serverVars, ServerInv, ContractInv, ContractType, BegunFirst,
         ServerType, TurnOfStream, LeftBehind, OneLease, SlotIsOwned, ConnectedTurnRuns,
         SlotReachesItsStream, Connected
    <3>2. HeadlessInv => HeadlessInv'
      BY <2>4 DEF frontVars, contractVars, headlessVars, HeadlessInv, HeadlessType, ContractType,
         RunIsTrue, CodeIsTrue, SignalIsTold
    <3> QED
      BY <2>4, <3>1, <3>2 DEF FrontInv, frontVars, headlessVars
  <2> QED
    BY <2>1, <2>2, <2>3, <2>4 DEF FrontNext
<1> QED
  BY <1>1, <1>2, PTL DEF FrontSpec

(* What an earlier request left running never stops the turn of a client    *)
(* that is connected, and the approval slot leads to the stream that waits  *)
(* on it or is about to be emptied (ActiveTurnLease::drop, cancel_turn_if,  *)
(* ApprovalSlotGuard).                                                      *)
THEOREM LeasesAreKept == FrontSpec => []LeasesHold
<1>1. FrontInv => LeasesHold
  BY DEF FrontInv, ServerInv, LeasesHold
<1> QED
  BY <1>1, FrontInvariance, PTL

(* Exit code 0 is only for a turn that finished, was saved and reported,    *)
(* and a signal or a deadline is never passed off as something else, in     *)
(* whatever order they race the turn and a stuck reader (run_turn,          *)
(* classify, run_print).                                                    *)
THEOREM ExitCodesAreTrue == FrontSpec => []ExitCodeIsTrue
<1>1. FrontInv => ExitCodeIsTrue
  BY DEF FrontInv, HeadlessInv, CodeIsTrue, SignalIsTold, ExitCodeIsTrue
<1> QED
  BY <1>1, FrontInvariance, PTL
=============================================================================
