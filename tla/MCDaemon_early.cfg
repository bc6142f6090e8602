SPECIFICATION Spec
CONSTANTS
    ccl = ccl
    thunk = thunk
    daemon = daemon
    NoSpec = NoSpec
    Lib <- MCOneLib
    Generator <- MCGenerator
    Self = daemon
    MaxVersion = 2
    FaultyOps = {}
    MaxFaults = 1
    RefreshEnabled = TRUE
    CleanupModes <- MCCleanup
    SlowIO = {}
    MaxBoots = 1
INVARIANTS
    CleanupNeverRaces
