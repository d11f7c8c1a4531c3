CONSTANTS
    PathMax = 6
    Procs <- MCProcs
    Random = {"n1", "n2"}
    Attempts = 2
    Offsets <- MCOffsets
    Scenes <- MCScenes
    MaxFaults = 1
SPECIFICATION FairSpec
INVARIANTS
    NothingLostBut
    OkMeansDoneBut
    OnlyFailedCloseDangles
PROPERTY EveryCallReturns
