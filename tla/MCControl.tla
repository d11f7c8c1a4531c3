----------------------------- MODULE MCControl ------------------------------
(***************************************************************************)
(* The programs of depth three.                                            *)
(***************************************************************************)
EXTENDS MCPrograms, Control

Translated == {Translate(t) : t \in {u \in Large : Accepted(u) /\ Accounted(u)}}
LargePrograms == Translated
=============================================================================
