SPECIFICATION RSpec
CONSTANTS
    MAXCDSIZE = 4
    BootSize = 1
    LogSize = 2
    SizeLists <- MCSizeLists
    Configs <- MCConfigs
    Pasters <- MCPasters
    Disks <- MCDisks
INVARIANT
    DataSurvives
PROPERTY
    Recovers
