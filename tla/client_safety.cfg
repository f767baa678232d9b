SPECIFICATION Spec
CONSTANTS
    good = good
    bad = bad
    Hosts = {good, bad}
    Parseable = {good}
    Handles = {h1, h2}
    ReconnectTimers = {r1, r2}
    TimeoutTimers = {d1, d2}
    Null = Null
    DefaultInitial = 1
    DefaultMax = 3
    Settings <- MCSettings
    IntMax = 7
    Api <- MCSafetyCalls
    MaxCalls = 3
    MaxBacklog = 1
INVARIANTS TypeOK  NoHandleLost Watched BackoffInRange
CHECK_DEADLOCK FALSE
