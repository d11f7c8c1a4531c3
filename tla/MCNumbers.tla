------------------------------ MODULE MCNumbers ------------------------------
(* Numbers for TLC: two modules whose literals take every path of LOAD_NUMBER: *)
(* 0o5, 0b1.1 and -1.5 in the one, 0x1p2 and 3 in the other, where 4 and 5 do  *)
(* not fit an int64 and have the same key.                                     *)
EXTENDS Numbers

MCModules == {"main", "lib"}
MCLiterals ==
  [m \in MCModules |->
     IF m = "main"
       THEN <<Text(FALSE, 8, 5, 0, 0), Text(FALSE, 2, 3, 1, 0), Text(TRUE, 10, 15, 1, 0)>>
       ELSE <<Text(FALSE, 16, 1, 0, 2), Text(FALSE, 10, 3, 0, 0)>>]
=============================================================================
