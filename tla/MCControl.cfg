SPECIFICATION Spec
CONSTANTS
  MaxChoices = 4
  MaxInterrupts = 0
  Programs <- LargePrograms
INVARIANTS TranslationIsTyped NestingAsTyped RunsAsWritten TraceGoesUp IteratorInPlace SavedScopesAreOpen
CHECK_DEADLOCK FALSE
