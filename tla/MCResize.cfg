SPECIFICATION Spec
CONSTANTS
    Tables <- MCTables
    Targets <- MCTargets
    Track = 1
    Digits = 10000
    Blank = Blank
    GnuExpr = TRUE
INVARIANTS
    NoOverlap
    RoomForData
    NeverShrinks
