SPECIFICATION Spec
CONSTANTS
    good = good
    bad = bad
    Hosts = {good}
    Parseable = {good}
    Handles = {h1, h2, h3}
    ReconnectTimers = {r1, r2, r3}
    TimeoutTimers = {d1, d2, d3}
    Null = Null
    DefaultInitial = 1
    DefaultMax = 3
    Settings = {}
    IntMax = 7
    Api <- MCLoopCalls
    MaxCalls = 3
    MaxBacklog = 1
INVARIANT ConnectedHasHandle
CHECK_DEADLOCK FALSE
