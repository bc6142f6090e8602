SPECIFICATION Spec
CONSTANTS
    ccl = ccl
    thunk = thunk
    daemon = daemon
    NoSpec = NoSpec
    Lib <- MCOneLib
    Generator <- MCGenerator
    Self = daemon
    MaxVersion = 2
    FaultyOps <- MCFileFaults
    MaxFaults = 1
    RefreshEnabled = TRUE
    CleanupModes <- MCBothModes
    SlowIO <- MCSlowProbe
    MaxBoots = 2
INVARIANTS
    TypeOK
    CleanupExclusive
    GracefulExitRemovesSpecs
    LockCoversFileAccess
    ReadyMeansServing
    ReadySpecIsFresh
PROPERTIES
    NoCleanupKeepsSpec
