SPECIFICATION Spec
CONSTANTS
  main = main
  w1 = w1
  Main = main
  Threads <- MCThreads
  Files <- MCFiles
  Names <- MCNames
  CWD <- Home
  EXC_DIR <- Bin
  MaxRuns = 3
INVARIANT
  OneModuleBut
PROPERTY
  CircularBut
CHECK_DEADLOCK FALSE
