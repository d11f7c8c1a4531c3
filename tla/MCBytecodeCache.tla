--------------------------- MODULE MCBytecodeCache ---------------------------
(* BytecodeCache for TLC: two texts whose bytecode differs in length.        *)
EXTENDS BytecodeCache, TLC

CONSTANTS p1, p2, p3

Symmetry == Permutations({p1, p2, p3})

MCTexts == {"short", "long", "broken"}
MCBlocks == [t \in MCTexts |-> IF t = "long" THEN 2 ELSE 1]
=============================================================================
