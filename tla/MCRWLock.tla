------------------------------ MODULE MCRWLock ------------------------------
(***************************************************************************)
(* RWLock for TLC: main() and three workers, who may be started again.     *)
(***************************************************************************)
EXTENDS RWLock

ThreeWorkers == {"w1", "w2", "w3"}
=============================================================================
