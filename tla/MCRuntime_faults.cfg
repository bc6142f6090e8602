SPECIFICATION Spec
CONSTANTS
    toolkit = toolkit
    operator = operator
    NoFile = NoFile
    Broken = Broken
    Actor <- MCOneActor
    Programs <- MCAllPrograms
    Nodes <- MCAll
    Modes <- MCAllModes
    MaxRetries = 3
    FaultyOps <- MCMostFaults
    MaxFaults = 3
INVARIANTS
    TypeOK
    RestartOnce
    SetupServes
