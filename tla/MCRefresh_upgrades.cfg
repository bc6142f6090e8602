SPECIFICATION FairSpec
CONSTANTS
    ccl = ccl
    thunk = thunk
    watcher = watcher
    cli = cli
    NoSpec = NoSpec
    Lib <- MCTwoLibs
    Generator <- MCWatcherOnly
    Self = watcher
    MaxVersion = 3
    FaultyOps <- MCRegenFaults
    MaxFaults = 2
    Rollback = FALSE
    EarlyUpgrade = FALSE
INVARIANTS
    TypeOK
    NoMissedUpgrade
    FailureStaysPending
PROPERTIES
    SpecConverges
    ErrorHeals
    CancelEndsWatcher
