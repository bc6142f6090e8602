SPECIFICATION FairSpec
CONSTANTS
    ccl = ccl
    thunk = thunk
    watcher = watcher
    cli = cli
    NoSpec = NoSpec
    Lib <- MCOneLib
    Generator <- MCWatcherOnly
    Self = watcher
    MaxVersion = 1
    FaultyOps = {"probe", "npu"}
    MaxFaults = 2
    Rollback = FALSE
    EarlyUpgrade = FALSE
PROPERTIES
    ErrorHeals
