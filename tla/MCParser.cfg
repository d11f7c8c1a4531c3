SPECIFICATION Spec
CONSTANTS
  Sources <- MCSources
  TEMPLATE_STACK_MAX = 2
INVARIANTS
  EveryAtomOnce
  OperandsBind
  BlocksAreIndented
  SameParametersBut
PROPERTY
  Advances
\* A text that is read to its end leaves nothing to do.
CHECK_DEADLOCK FALSE
