CONSTANTS
    HiMod = 2
    LoMod = 9
    ChunkSize = 3
    Capacity = 2
    MaxLen = 8
    MaxResizes = 1
    MaxSignals = 1
SPECIFICATION FairSpec
INVARIANTS
    TypeOK
    Tiling
    WholeFile
    MismatchOnlyIfResized
    CounterNonces
PROPERTY
    Termination
