------------------------------ MODULE Headless ------------------------------
(***************************************************************************)
(* One `-p` run: input, configuration, launch, one unattended turn, the    *)
(* report and the exit code, with a signal, a deadline and a consumer that *)
(* stops reading stdout or stderr arriving at any await.                   *)
(*                                                                         *)
(* Texts, envelopes and traces are left out; a write either reaches its    *)
(* reader, fails, or waits for ever.                                       *)
(***************************************************************************)
EXTENDS TurnContract

CONSTANTS
    Job,        \* the one turn this run starts
    MaxDenied   \* bound: approvals the turn asks for

ASSUME HeadlessAssumption == Job \in Turn /\ MaxDenied \in Nat

VARIABLES
    stage,      \* where run_print is
    format,     \* OutputFormat
    signal,     \* the Interrupt token
    deadline,   \* --timeout: "none", "ahead" or "past"
    stdout,     \* what reads stdout: "reads", "stuck" or "closed"
    stderr,     \* what reads stderr: "reads" or "stuck"
    run,        \* the locals of run_turn
    code        \* the exit code about to be returned

headlessVars == <<stage, format, signal, deadline, stdout, stderr, run, code>>

EXIT_OK        == 0
EXIT_FAILURE   == 1
EXIT_USAGE     == 2
EXIT_TIMEOUT   == 124
EXIT_INTERRUPT == 130

(* DriveStatus, the select loop's flags and what became of the output. *)
FreshRun ==
    [started |-> FALSE, interrupted |-> FALSE, timed_out |-> FALSE, abandoned |-> FALSE,
     boot |-> "none", seen |-> {}, denied |-> 0, status |-> "incomplete",
     saved |-> TRUE, reported |-> FALSE]

HeadlessInit ==
    /\ ContractInit
    /\ stage = "input" /\ format \in {"text", "json", "stream"}
    /\ signal = FALSE /\ deadline \in {"none", "ahead"}
    /\ stdout = "reads" /\ stderr = "reads"
    /\ run = FreshRun /\ code = EXIT_OK

Around == <<format, signal, deadline, stdout, stderr>>

-----------------------------------------------------------------------------
(* The world outside *)

Signalled ==
    /\ stage # "exited" /\ ~signal /\ signal' = TRUE
    /\ UNCHANGED <<contractVars, stage, format, deadline, stdout, stderr, run, code>>

DeadlinePasses ==
    /\ deadline = "ahead" /\ stage \notin {"input", "config", "resume", "launch", "ready", "exited"}
    /\ deadline' = "past"
    /\ UNCHANGED <<contractVars, stage, format, signal, stdout, stderr, run, code>>

ReaderStops ==
    /\ stage # "exited"
    /\ \/ stdout = "reads" /\ stdout' \in {"stuck", "closed"} /\ UNCHANGED stderr
       \/ stderr = "reads" /\ stderr' = "stuck" /\ UNCHANGED stdout
    /\ UNCHANGED <<contractVars, stage, format, signal, deadline, run, code>>

(* The model's turn asks for approvals and ends when it likes. *)
TurnGoesOn ==
    /\ \/ Ask(Job, MaxDenied)
       \/ \E v \in {"finished", "cancelled", "failed", "step_limit"} : Settle(Job, v)
    /\ UNCHANGED headlessVars

-----------------------------------------------------------------------------
(* Output::send: a stopped or expired writer fails, a stuck one waits. *)

Stopped == signal \/ deadline = "past" \/ run.timed_out

MutSendFails == stdout = "closed"

SendFails == Stopped \/ stdout = "closed"

SendWorks == ~Stopped /\ stdout = "reads"

(* Output::cleanup: its own token and 200 ms. *)
CleanupFails == stdout # "reads"

-----------------------------------------------------------------------------
(* Up to the turn *)

Exit(c) == stage' = "exited" /\ code' = c
Return(c) == stage' = "final" /\ code' = c

Aside == UNCHANGED <<contractVars, Around, run>>

(* Stdin, the configuration and the session store are read on blocking      *)
(* threads that an interrupt does not wait for.                             *)
Prepare ==
    /\ stage \in {"input", "config", "resume", "launch"}
    /\ IF signal THEN Return(EXIT_INTERRUPT)
       ELSE \/ stage = "input" /\ Return(EXIT_USAGE)             \* nothing to run
            \/ stage = "input" /\ stage' = "config" /\ UNCHANGED code
            \/ stage = "config" /\ Return(EXIT_FAILURE)          \* no workspace
            \/ stage = "config" /\ stage' = "resume" /\ UNCHANGED code
            \/ stage = "resume" /\ \E c \in {EXIT_USAGE, EXIT_FAILURE} : Return(c)
            \/ stage = "resume" /\ stderr = "reads" /\ stage' = "launch" /\ UNCHANGED code
            \/ stage = "launch" /\ Return(EXIT_FAILURE)          \* launch failed, or offline
            \/ stage = "launch" /\ stage' = "ready" /\ UNCHANGED code
    /\ Aside

(* Warnings are flushed first; then run_turn greets a streaming consumer. *)
Ready ==
    /\ stage = "ready"
    /\ \/ signal /\ Return(EXIT_INTERRUPT)
       \/ ~signal /\ stderr = "reads" /\ UNCHANGED code
          /\ stage' = IF format = "stream" THEN "greet" ELSE "drive"
    /\ Aside

Greet ==
    /\ stage = "greet"
    /\ \/ SendWorks /\ stage' = "drive" /\ UNCHANGED code
       \/ SendFails /\ Return(IF signal THEN EXIT_INTERRUPT
                              ELSE IF deadline = "past" THEN EXIT_TIMEOUT ELSE EXIT_FAILURE)
    /\ Aside

-----------------------------------------------------------------------------
(* The drive loop: a biased select of signal, deadline and driver *)

SignalDue   == signal /\ ~run.interrupted
DeadlineDue == deadline = "past" /\ ~run.timed_out /\ ~run.interrupted

(* Cancel once; a driver never polled has submitted nothing. *)
CancelTurnOnce ==
    IF run.started THEN CancelLive(Turn) /\ UNCHANGED stage
    ELSE stage' = "shutdown" /\ UNCHANGED contractVars

DriveSignal ==
    /\ stage = "drive" /\ SignalDue
    /\ run' = [run EXCEPT !.interrupted = TRUE,
                          !.status = IF run.started THEN @ ELSE "cancelled"]
    /\ CancelTurnOnce
    /\ UNCHANGED <<Around, code>>

DriveDeadline ==
    /\ stage = "drive" /\ ~SignalDue /\ DeadlineDue
    /\ run' = [run EXCEPT !.timed_out = TRUE,
                          !.status = IF run.started THEN @ ELSE "cancelled"]
    /\ CancelTurnOnce
    /\ UNCHANGED <<Around, code>>

Driving == stage = "drive" /\ ~SignalDue /\ ~DeadlineDue

(* drive_to_completion: start_turn spawns the bootstrap and waits for it. *)
DriveStart ==
    /\ Driving /\ ~run.started
    /\ run' = [run EXCEPT !.started = TRUE, !.boot = "spawned"]
    /\ UNCHANGED <<contractVars, Around, stage, code>>

BootBegins ==
    /\ run.boot = "spawned"
    /\ Begin(Job)
    /\ run' = [run EXCEPT !.boot = "begun"]
    /\ UNCHANGED <<Around, stage, code>>

Streaming == format = "stream"

(* on_event could not deliver: the turn is cancelled and the drive failed. *)
DriveOutputFails ==
    /\ Driving /\ run.boot = "begun" /\ Streaming /\ SendFails
    /\ CancelLive({Job})
    /\ run' = [run EXCEPT !.abandoned = TRUE, !.status = "failed"]
    /\ stage' = "shutdown"
    /\ UNCHANGED <<Around, code>>

EventReaches == Streaming => SendWorks

(* Every approval is denied with a note; one the runtime no longer waits    *)
(* for fails the drive and drops the handle.                                *)
DriveAsk ==
    /\ Driving /\ run.boot = "begun" /\ EventReaches
    /\ \E a \in asked \ run.seen :
         IF Accepts(a)
         THEN /\ Answer(a)
              /\ run' = [run EXCEPT !.seen = @ \cup {a}, !.denied = @ + 1]
              /\ UNCHANGED stage
         ELSE /\ CancelLive({Job})
              /\ run' = [run EXCEPT !.seen = @ \cup {a}, !.denied = @ + 1, !.status = "failed"]
              /\ stage' = "shutdown"
    /\ UNCHANGED <<Around, code>>

DriveTerminal ==
    /\ Driving /\ run.boot = "begun" /\ EventReaches
    /\ verdict[Job] # "none"
    /\ run' = [run EXCEPT !.status = IF verdict[Job] = "step_limit" THEN "failed"
                                     ELSE verdict[Job]]
    /\ stage' = "shutdown"
    /\ UNCHANGED <<contractVars, Around, code>>

-----------------------------------------------------------------------------
(* After the turn *)

(* LaunchedRuntime::shutdown cancels what is live and flushes the session,  *)
(* whose last save may have failed.                                         *)
Shutdown ==
    /\ stage = "shutdown"
    /\ CancelLive(Turn)
    /\ \E ok \in BOOLEAN :
         run' = [run EXCEPT !.saved = ok, !.timed_out = @ \/ deadline = "past",
                            !.interrupted = @ \/ signal]
    /\ stage' = "report"
    /\ UNCHANGED <<Around, code>>

MutDriveStatus ==
    IF run.timed_out \/ (run.abandoned /\ run.interrupted) THEN "cancelled" ELSE run.status

(* A finished turn that could not be saved has failed. *)
DriveStatus ==
    IF run.timed_out \/ (run.abandoned /\ run.interrupted) THEN "cancelled"
    ELSE IF ~run.saved /\ run.status = "finished" THEN "failed" ELSE run.status

classify(status) ==
    CASE status = "finished" -> EXIT_OK
      [] status = "failed" -> EXIT_FAILURE
      [] status \in {"cancelled", "incomplete"} ->
           IF run.timed_out THEN EXIT_TIMEOUT
           ELSE IF run.interrupted THEN EXIT_INTERRUPT ELSE EXIT_FAILURE

(* The report goes out once, through the cleanup writer after an interrupt  *)
(* or a timeout; a consumer that was given up on is not written to again.   *)
Report ==
    /\ stage = "report"
    /\ LET cleanup == run.interrupted \/ run.timed_out
           ends(c) ==
             IF signal THEN Return(EXIT_INTERRUPT)
             ELSE IF run.timed_out \/ deadline = "past" THEN Return(EXIT_TIMEOUT)
             ELSE stage' = "flush" /\ code' = c
           exit_code == classify(DriveStatus)
       IN  \/ /\ run.abandoned
              /\ ends(exit_code) /\ UNCHANGED run
           \/ /\ ~run.abandoned
              /\ IF cleanup THEN ~CleanupFails ELSE SendWorks
              /\ run' = [run EXCEPT !.reported = TRUE]
              /\ ends(exit_code)
           \/ /\ ~run.abandoned
              /\ IF cleanup THEN CleanupFails ELSE SendFails
              /\ ends(IF exit_code = EXIT_OK THEN EXIT_FAILURE ELSE exit_code)
              /\ UNCHANGED run
    /\ UNCHANGED <<contractVars, Around>>

(* The last select of run_turn. *)
Flush ==
    /\ stage = "flush"
    /\ \/ signal /\ Return(EXIT_INTERRUPT)
       \/ ~signal /\ deadline = "past" /\ Return(EXIT_TIMEOUT)
       \/ ~signal /\ deadline # "past" /\ stderr = "reads" /\ Return(code)
    /\ Aside

(* run_print: an interrupt overrides the code, a timeout waits 200 ms for   *)
(* stderr, everything else waits for stderr or for an interrupt.            *)
Final ==
    /\ stage = "final"
    /\ \/ signal /\ Exit(EXIT_INTERRUPT)
       \/ ~signal /\ code = EXIT_TIMEOUT /\ Exit(EXIT_TIMEOUT)
       \/ ~signal /\ code # EXIT_TIMEOUT /\ stderr = "reads" /\ Exit(code)
    /\ Aside

-----------------------------------------------------------------------------
(* Specification *)

RunPrint ==
    \/ Prepare \/ Ready \/ Greet \/ DriveSignal \/ DriveDeadline \/ DriveStart
    \/ DriveOutputFails \/ DriveAsk \/ DriveTerminal \/ Shutdown \/ Report \/ Flush \/ Final

HeadlessNext ==
    \/ RunPrint \/ BootBegins
    \/ Signalled \/ DeadlinePasses \/ ReaderStops \/ TurnGoesOn

allHeadlessVars == <<contractVars, headlessVars>>

(* What is bound to happen: the process runs and a turn that was told to    *)
(* stop ends.  Nothing makes a reader read, or a turn nobody stops come to  *)
(* an end.                                                                  *)
TurnMust == BootBegins \/ (stop[Job] /\ TurnGoesOn)

-----------------------------------------------------------------------------
(* Properties *)

(* Exit code 0 is only for a turn that finished, was saved and whose report *)
(* was delivered, and neither an interrupt nor the deadline is ever passed  *)
(* off as something else (run_turn, classify).                              *)
ExitCodeIsTrue ==
    stage = "exited" =>
        /\ code = EXIT_OK => verdict[Job] = "finished" /\ run.saved /\ run.reported
        /\ code = EXIT_TIMEOUT => deadline = "past"
        /\ code = EXIT_INTERRUPT <=> signal

(* A signal ends the run whatever stdout, stderr and the model do, in every *)
(* phase but the one between submitting the prompt and the turn's begin     *)
(* (Output::send, the biased selects of run_print and run_turn).            *)
SignalExits ==
    (signal /\ (stage = "drive" => ~run.interrupted /\ run.boot # "spawned"))
        ~> stage = "exited"

(* Cancel once, then let the driver observe the terminal event: a signal    *)
(* that the drive loop has taken stops the turn (headless/mod.rs).          *)
CancelOnceStops ==
    (stage = "drive" /\ run.interrupted /\ run.boot = "begun") => stop[Job]
=============================================================================
