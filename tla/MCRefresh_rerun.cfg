SPECIFICATION RerunSpec
CONSTANTS
    ccl = ccl
    thunk = thunk
    watcher = watcher
    cli = cli
    NoSpec = NoSpec
    Lib <- MCOneLib
    Generator <- MCWatcherAndCli
    Self = watcher
    MaxVersion = 2
    FaultyOps <- MCAllFaults
    MaxFaults = 1
    Rollback = TRUE
    EarlyUpgrade = TRUE
PROPERTIES
    RerunRepairs
