----------------------------- MODULE OrderedMap -----------------------------
(***************************************************************************)
(* What a map of the interpreter promises its users: a value for each key, *)
(* and the keys in the order in which they were first put since they were  *)
(* last absent.                                                            *)
(***************************************************************************)
CONSTANTS Keys, Vals

VARIABLES
  map,     \* the value of each key that is present
  before   \* the pairs of present keys, the older one first

Init ==
  /\ map = [k \in {} |-> k]
  /\ before = {}

Put(k, v) ==
  /\ map' = [l \in DOMAIN map \cup {k} |-> IF l = k THEN v ELSE map[l]]
  /\ before' = IF k \in DOMAIN map THEN before
                                   ELSE before \cup ((DOMAIN map) \X {k})

Delete(k) ==
  /\ k \in DOMAIN map
  /\ map' = [l \in DOMAIN map \ {k} |-> map[l]]
  /\ before' = {p \in before : k \notin {p[1], p[2]}}

Clear ==
  /\ map' = [k \in {} |-> k]
  /\ before' = {}

Next ==
  \/ \E k \in Keys, v \in Vals : Put(k, v)
  \/ \E k \in Keys : Delete(k)
  \/ Clear

Spec == Init /\ [][Next]_<<map, before>>
=============================================================================
