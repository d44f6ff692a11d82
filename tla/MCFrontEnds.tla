---------------------------- MODULE MCFrontEnds ----------------------------
(***************************************************************************)
(* The three front ends, each against its own runtime: a behaviour is one  *)
(* of them.                                                                *)
(***************************************************************************)
EXTENDS ServerLease, Headless, TuiApp

VARIABLE part       \* the front end this behaviour is about

FrontInit ==
    /\ part \in {"server", "headless", "tui"}
    /\ ServerInit /\ HeadlessInit /\ TuiInit
    /\ part # "server" => ~autonomous
    /\ part # "headless" => format = "text" /\ deadline = "none"

Serves(A) == part = "server" /\ A /\ UNCHANGED <<headlessVars, tuiVars, part>>
Prints(A) == part = "headless" /\ A /\ UNCHANGED <<serverVars, tuiVars, part>>
Draws(A)  == part = "tui" /\ A /\ UNCHANGED <<serverVars, headlessVars, part>>

FrontNext == Serves(ServerNext) \/ Prints(HeadlessNext) \/ Draws(TuiNext)

frontVars == <<contractVars, serverVars, headlessVars, tuiVars, part>>

FrontSpec ==
    /\ FrontInit /\ [][FrontNext]_frontVars
    /\ \A r \in Request : WF_frontVars(Serves(ServerMust(r)))
    /\ WF_frontVars(Prints(RunPrint)) /\ WF_frontVars(Prints(TurnMust))
    /\ WF_frontVars(Draws(drain_stream_updates)) /\ WF_frontVars(Draws(SteerTask))
    /\ WF_frontVars(Draws(CancelTaskRuns)) /\ WF_frontVars(Draws(AnswerTask))
    /\ \A t \in Turn : WF_frontVars(Draws(TuiMust(t)))

-----------------------------------------------------------------------------
(* The server keeps a client and its turn together: a turn whose client is   *)
(* connected is running, and an approval in its slot reaches that stream.    *)
LeasesHold == part = "server" => ConnectedTurnRuns /\ SlotReachesItsStream

(* The terminal shows what is: it is idle only with nothing in flight, and   *)
(* an answer it sends is to a question that was on the screen.               *)
ScreenIsTrue == part = "tui" => IdleMeansIdle /\ AnswersWereSeen

(* Nothing hangs: a turn nobody watches ends, a signal ends a headless run,  *)
(* and Esc ends the turn on the screen.                                      *)
FrontEndsLetGo == UnwatchedTurnEnds /\ SignalExits /\ EscEndsTheTurn
=============================================================================
