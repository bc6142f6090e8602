SPECIFICATION FairSpec
CONSTANTS
    ccl = ccl
    thunk = thunk
    watcher = watcher
    cli = cli
    NoSpec = NoSpec
    Lib <- MCOneLib
    Generator <- MCWatcherOnly
    Self = watcher
    MaxVersion = 2
    FaultyOps = {}
    MaxFaults = 0
    Rollback = FALSE
    EarlyUpgrade = TRUE
PROPERTIES
    SpecConverges
