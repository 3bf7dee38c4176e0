SPECIFICATION FairSpec
CONSTANTS
    MAXCDSIZE = 4
    BootSize = 1
    LogSize = 2
    SizeLists <- MCSizeLists
    Configs <- MCConfigs
INVARIANTS
    TypeOK
    NothingLost
    VolumeFits
    RestorableSet
PROPERTIES
    NoVolumeDestroyed
    BackupEnds
