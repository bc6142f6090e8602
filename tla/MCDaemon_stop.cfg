SPECIFICATION FairSpec
CONSTANTS
    ccl = ccl
    thunk = thunk
    daemon = daemon
    NoSpec = NoSpec
    Lib <- MCOneLib
    Generator <- MCGenerator
    Self = daemon
    MaxVersion = 2
    FaultyOps <- MCAllFaults
    MaxFaults = 1
    RefreshEnabled = TRUE
    CleanupModes <- MCBothModes
    SlowIO <- MCSlowAll
    MaxBoots = 1
PROPERTIES
    SignalStops
