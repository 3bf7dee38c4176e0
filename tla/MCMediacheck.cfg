SPECIFICATION FairSpec
CONSTANTS
    Block = 4
    Word = 16
    Sector = 7
    FirstSector = 3
    Buffer = 21
    AppOffset = 3
    AppLength = 2
    SizeOffset = 1
    SkipSectors = 2
    UInt = 49
    Images <- MCImages
INVARIANTS
    ImplantedAccepted
    DamageDetected
    Md5Chunks
PROPERTIES
    OnlyAppdata
    CheckEnds
