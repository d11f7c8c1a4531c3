---------------------------- MODULE MCControlFor ----------------------------
(***************************************************************************)
(* The programs that jump out of a for loop, and all that the translator   *)
(* accepts.                                                                *)
(***************************************************************************)
EXTENDS MCPrograms, Control

LeavingFor  == {Translate(t) : t \in {u \in Small : Accepted(u) /\ ~Accounted(u)
                                         /\ \A i \in DOMAIN u : Bodies(u[i]) = {}}}
AllPrograms == {Translate(t) : t \in {u \in Small : Accepted(u)}}
=============================================================================
