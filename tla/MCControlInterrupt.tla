------------------------- MODULE MCControlInterrupt -------------------------
(***************************************************************************)
(* The programs of depth two, for runs with Ctrl-C.                        *)
(***************************************************************************)
EXTENDS MCPrograms, Control

Translated == {Translate(t) : t \in {u \in Small : Accepted(u) /\ Accounted(u)}}
SmallPrograms == Translated
=============================================================================
