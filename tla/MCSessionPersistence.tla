------------------------ MODULE MCSessionPersistence ------------------------
(***************************************************************************)
(* A small instance of SessionPersistence for TLC: a turn's loop, which    *)
(* appends and edits the record, beside a front end, which flushes; either *)
(* folds, the loop on its own account and the front end by hand.           *)
(***************************************************************************)
EXTENDS SessionPersistence

CONSTANTS
    turnLoop, frontEnd,
    MaxStarts     \* bound: calls that persist, started by either

VARIABLE starts   \* how many were

Savers == {turnLoop, frontEnd}

Starts ==
    \/ AppendEntry(turnLoop) \/ EditRecord(turnLoop)
    \/ FlushSession(frontEnd)
    \/ \E s \in Saver : PlanFold(s)

MCInit == SaveInit /\ starts = 0

MCNext ==
    \/ Starts /\ starts < MaxStarts /\ starts' = starts + 1
    \/ ((\E s \in Saver : SaverStep(s)) \/ ActorStep \/ Crash) /\ UNCHANGED starts

MCSpec == MCInit /\ [][MCNext]_<<saveVars, starts>> /\ SaveFairness
=============================================================================
