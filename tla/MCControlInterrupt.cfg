SPECIFICATION FairSpec
CONSTANTS
  MaxChoices = 2
  MaxInterrupts = 2
  Programs <- SmallPrograms
PROPERTIES Terminates InterruptEndsProgram
CHECK_DEADLOCK FALSE
