------------------------------ MODULE MCStores ------------------------------
(* An instance of Stores for TLC: a directory with a file and a skipped      *)
(* entry (such as .git) in it, a top-level entry beside it; two processes.   *)
EXTENDS Stores, TLC

CONSTANTS d, a, g, s, root, f1, f2, p, q

Paths     == {d, a, g, s}
Parents   == [x \in Path |-> IF x \in {a, g} THEN d ELSE root]
Skips     == {g}
Contents  == {f1, f2}
Processes == {p, q}

Alike == Permutations(Contents) \cup Permutations(Processes)
=============================================================================
