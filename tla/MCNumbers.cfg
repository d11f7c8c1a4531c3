SPECIFICATION Spec
CONSTANTS
  INT64_MAX = 3
  Modules <- MCModules
  Literals <- MCLiterals
  MaxNum = 5
  MaxDen = 2
INVARIANTS
  NormalForm
  ExactBut
  OrderBut
  LoadsWhatIsWritten
CHECK_DEADLOCK FALSE
