SPECIFICATION Spec
CONSTANTS
  p1 = p1
  p2 = p2
  p3 = p3
  Processes = {p1, p2, p3}
  Texts <- MCTexts
  Broken = {"broken"}
  Blocks <- MCBlocks
  MaxLoads = 3
  MaxEdits = 2
SYMMETRY Symmetry
INVARIANTS
  WholeUnlessRewritten
  FreshUnlessTorn
  SteadySourceRuns
CHECK_DEADLOCK FALSE
