SPECIFICATION FairSpec
CONSTANTS
    Pids <- MCPids
    Tables <- MCTables
    MaxSignals = 2
    MaxFailures = 1
    Daemons = 1
INVARIANTS
    PidsRight
    Stages
    ShutdownDone
PROPERTIES
    ListedSpared
    ConsolesRespawned
    SignalsActedUpon
