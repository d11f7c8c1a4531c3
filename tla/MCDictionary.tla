---------------------------- MODULE MCDictionary ----------------------------
(* Dictionary for TLC.                                                       *)
EXTENDS Dictionary, TLC

CONSTANTS a, b

MCVals == {a, b}
Symmetry == Permutations(MCVals)

\* All share a chain in a table of one position, 0 and 2 still in one of two.
MCKeys == {0, 1, 2}
=============================================================================
