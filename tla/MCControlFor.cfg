SPECIFICATION Spec
CONSTANTS
  MaxChoices = 4
  MaxInterrupts = 0
  Programs <- LeavingFor
INVARIANTS RunsAsWritten
CHECK_DEADLOCK FALSE
