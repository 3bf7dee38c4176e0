SPECIFICATION FairSpec
CONSTANTS
    MAXIOSIZE = 3
    Kb = 2
    maxcdsize = 2
    Capacities <- MCCapacities
    Lengths <- MCLengths
    Volnos <- MCVolnos
INVARIANTS
    TypeOK
    OutputIsInput
    PiecesFull
    PieceFits
    CompleteAtExit
PROPERTIES
    Termination
    AbstractSpec
