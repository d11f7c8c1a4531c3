--------------------------- MODULE MCThreadHandle ---------------------------
(* ThreadHandle for TLC: who may call which method of the Thread object.     *)
EXTENDS ThreadHandle, TLC

CONSTANTS c1, c2

\* Callers that use the same methods, and blocks, are interchangeable.
Perms == Permutations({c1, c2}) \cup Permutations(Handles)

\* Two callers race everything on two blocks.
OpsAll == [c \in {c1, c2} |-> {"start", "join", "detach"}]

\* One caller starts and detaches its own thread.
OpsDetach == c1 :> {"start", "detach"}

=============================================================================
