SPECIFICATION Spec
CONSTANTS
    toolkit = toolkit
    operator = operator
    NoFile = NoFile
    Broken = Broken
    Actor <- MCOneActor
    Programs <- MCDaemon
    Nodes <- MCOverridden
    Modes <- MCRestarting
    MaxRetries = 3
    FaultyOps = {}
    MaxFaults = 0
INVARIANTS
    RestartOnce
