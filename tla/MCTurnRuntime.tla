--------------------------- MODULE MCTurnRuntime ---------------------------
(* Small instances of TurnRuntime for TLC. *)
EXTENDS TurnRuntime, TLC

CONSTANTS t1, t2

Turns == {t1, t2}

OneTurn == {t1}

Symmetry == Permutations(Turns)
=============================================================================
