SPECIFICATION FairSpec
CONSTANTS
  Main = "main"
  Workers <- ThreeWorkers
INVARIANTS
  OnlyMainRaces
PROPERTIES
  FastOnlyAlone
  ReaderEnters
