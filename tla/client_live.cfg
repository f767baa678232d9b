SPECIFICATION NetworkSpec
CONSTANTS
    good = good
    bad = bad
    Hosts = {good}
    Parseable = {good}
    Handles = {h1, h2, h3}
    ReconnectTimers = {r1, r2, r3}
    TimeoutTimers = {d1, d2}
    Null = Null
    DefaultInitial = 1
    DefaultMax = 1
    Settings = {}
    IntMax = 7
    Api <- MCLiveCalls
    MaxCalls = 4
    MaxBacklog = 1
PROPERTIES GetsConnection ConnectsAgain
CHECK_DEADLOCK FALSE
