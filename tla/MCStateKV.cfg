SPECIFICATION Spec
CONSTANTS
    None = None
    BlockSize = 5
    Keys <- MCKeys
    Values <- MCValues
    MaxKeyChunk = 2
    TableSize = 2
    MaxBlocks = 6
    MaxOperations = 5
INVARIANTS
    TypeOK
    GetsWhatWasPut
    NoOverlap
PROPERTY
    NothingLost
