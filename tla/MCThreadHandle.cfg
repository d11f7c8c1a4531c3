SPECIFICATION Spec
CONSTANTS
  c1 = c1
  c2 = c2
  Callers = {c1, c2}
  Handles = {h1, h2}
  NULL = NULL
  Ops <- OpsAll
SYMMETRY Perms
INVARIANTS
  NoDoubleFree
  JoinXorDetach
  OnlyDetachPullsTheRug
  NoLeakBut
CHECK_DEADLOCK FALSE
