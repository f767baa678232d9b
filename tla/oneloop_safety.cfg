SPECIFICATION Spec
CONSTANTS
    p1 = p1
    p2 = p2
    w = w
    a1 = a1
    a2 = a2
    b1 = b1
    s1 = s1
    Threads <- MCThreads
    Worker = w
    Tasks <- MCTasks
    Poster <- MCPoster
    Openers <- MCOpeners
    Closers <- MCClosers
    InOrder = FALSE
    Quiesced = TRUE
    MayFailInit = TRUE
INVARIANTS TypeOK NoLostWakeup SendOnOpenHandle
PROPERTY ExecutorSpec
CHECK_DEADLOCK FALSE
