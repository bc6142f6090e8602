SPECIFICATION Spec
CONSTANTS
    ccl = ccl
    thunk = thunk
    watcher = watcher
    cli = cli
    NoSpec = NoSpec
    Lib <- MCOneLib
    Generator <- MCWatcherOnly
    Self = watcher
    MaxVersion = 1
    FaultyOps = {"probe"}
    MaxFaults = 1
    Rollback = FALSE
    EarlyUpgrade = FALSE
PROPERTIES
    ErrorsDoNotTrigger
