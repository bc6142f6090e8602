SPECIFICATION Spec
CONSTANTS
    toolkit = toolkit
    operator = operator
    NoFile = NoFile
    Broken = Broken
    Actor <- MCOneActor
    Programs <- MCDaemon
    Nodes <- MCAll
    Modes <- MCRestarting
    MaxRetries = 3
    FaultyOps = {"kill"}
    MaxFaults = 1
INVARIANTS
    DaemonServes
