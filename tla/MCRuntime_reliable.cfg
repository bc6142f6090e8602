SPECIFICATION FairSpec
CONSTANTS
    toolkit = toolkit
    operator = operator
    NoFile = NoFile
    Broken = Broken
    Actor <- MCTwoActors
    Programs <- MCLocked
    Nodes <- MCAll
    Modes <- MCRestarting
    MaxRetries = 3
    FaultyOps = {"version", "check", "remove"}
    MaxFaults = 2
INVARIANTS
    DaemonServes
    SettingsKept
PROPERTIES
    CleanupReverts
    ProgramsEnd
