SPECIFICATION PSpec
CONSTANTS
    MaxThreads = 3
    Blocks = 10
    MaxFrames = 2
    CountMod = 8
    ExecShared = FALSE
INVARIANTS
    ProcTypeOK
    MemoryOwned
    CountIsExact
    AllReclaimed
