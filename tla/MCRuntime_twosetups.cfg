SPECIFICATION Spec
CONSTANTS
    toolkit = toolkit
    operator = operator
    NoFile = NoFile
    Broken = Broken
    Actor <- MCOneActor
    Programs <- MCInstaller
    Nodes <- MCAll
    Modes <- MCRestarting
    MaxRetries = 3
    FaultyOps = {}
    MaxFaults = 0
PROPERTIES
    CleanupAlwaysReverts
