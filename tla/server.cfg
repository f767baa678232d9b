SPECIFICATION FairSpec
CONSTANTS
    a1 = a1
    a2 = a2
    Addrs = {a1, a2}
    Listeners = {l1, l2}
    Conns = {c1, c2}
    Null = Null
    MaxCalls = 3
INVARIANTS TypeOK ContextAlive NoDanglingEntry NoClientLost RunningListens Watched
PROPERTY PortReleased
CHECK_DEADLOCK FALSE
