SPECIFICATION Spec
CONSTANTS
    Files <- MCFiles
    JsonFiles <- MCJsonFiles
    Users = {u1, u2}
    Settings <- MCSettings
    Initial <- MCInitial
    MaxCalls = 2
    AppTasks <- MCAppTasks
    Slots = 2
    MaxRuns = 2
INVARIANTS
    TypeOK
    EveryFileCounts
    ParsesUnlessCut
PROPERTIES
    SetIsLocal
    SignalEnds
    TasksStart
\* The process ends.
CHECK_DEADLOCK FALSE
