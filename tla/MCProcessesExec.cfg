SPECIFICATION PSpec
CONSTANTS
    MaxThreads = 2
    Blocks = 8
    MaxFrames = 2
    CountMod = 8
    ExecShared = TRUE
INVARIANTS
    ImagesKept
