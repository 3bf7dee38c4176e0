SPECIFICATION Spec
CONSTANTS
    Layouts <- MCLayouts
    Modes <- MCModes
    MaxOld = 2
    MaxRuns = 2
INVARIANTS
    TapeComplete
    RootImage
    RightArchive
