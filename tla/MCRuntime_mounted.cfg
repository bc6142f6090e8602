SPECIFICATION Spec
CONSTANTS
    toolkit = toolkit
    operator = operator
    NoFile = NoFile
    Broken = Broken
    Actor <- MCOneActor
    Programs <- MCInstaller
    Nodes <- MCMounted
    Modes <- MCRestarting
    MaxRetries = 3
    FaultyOps = {}
    MaxFaults = 0
INVARIANTS
    SetupSucceeds
