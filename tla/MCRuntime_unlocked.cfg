SPECIFICATION Spec
CONSTANTS
    toolkit = toolkit
    operator = operator
    NoFile = NoFile
    Broken = Broken
    Actor <- MCTwoActors
    Programs <- MCDaemonCli
    Nodes <- MCOneOfEach
    Modes <- MCRestarting
    MaxRetries = 3
    FaultyOps = {}
    MaxFaults = 0
INVARIANTS
    SettingsKept
