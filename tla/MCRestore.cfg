SPECIFICATION FairSpec
CONSTANTS
    Sets <- MCSets
    Pasters <- Both
    Disks <- TwoDisks
    Restarts <- Either
    MaxRestarts = 1
INVARIANTS
    RestoredWhole
    Handshake
    StreamInOrder
    UnsplitWhole
PROPERTIES
    RestoreEnds
