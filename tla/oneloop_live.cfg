SPECIFICATION FairSpec
CONSTANTS
    p1 = p1
    p2 = p2
    w = w
    a1 = a1
    a2 = a2
    b1 = b1
    s1 = s1
    Threads <- MCThreads
    Worker = w
    Tasks <- MCTasks
    Poster <- MCPoster
    Openers <- MCOpeners
    Closers <- MCClosers
    InOrder = TRUE
    Quiesced = FALSE
    MayFailInit = FALSE
PROPERTIES PostedBeforeExitRuns CloseThenDestroyReturns QueuedTaskRuns DtorReturnsOnceHandlesClose
CHECK_DEADLOCK FALSE
