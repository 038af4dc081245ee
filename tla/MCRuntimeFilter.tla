--------------------------- MODULE MCRuntimeFilter ---------------------------
(* TLC instance of RuntimeFilter.  The builds alternate between a join     *)
(* that has the key and one that has none: a scan that uses the filter of  *)
(* its neighbour in the slot loses a row.                                  *)
EXTENDS RuntimeFilter, TLC

AlternatingKeys == [t \in Targets |-> IF t % 2 = 1 THEN Keys ELSE {}]

Symmetry == Permutations(Probers)
=============================================================================
