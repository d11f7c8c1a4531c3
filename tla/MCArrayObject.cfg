SPECIFICATION Spec
CONSTANTS
  ARGON_NULL = ARGON_NULL
  Nowhere = Nowhere
  INT64_MAX = 15
  Values = {1, 2}
  CHUNK = 2
  CUTOFF = 2
  MaxCalls = 3
  MaxYields = 2
  Methods <- MCMethods
  Later <- MCLater
  Starts <- MCStarts
INVARIANTS UndisturbedIsExactBut DeliversItemsBut StaysInBufferBut
CHECK_DEADLOCK FALSE
