SPECIFICATION Spec
CONSTANTS
    NumWorkers = 2
    Threads <- MCThreads
    Tasks <- MCTasks
    Poster <- MCPoster
    MayFail <- MCMayFail
    NoWorker = NoWorker
INVARIANTS
    TypeOK
    NoUseAfterClose
    Balanced
PROPERTIES
    CtorReturns
    QueuedTasksRun
    DtorReturns
    WorkersExecute
\* The pool stops for good when it is destroyed.
CHECK_DEADLOCK FALSE
