\* Liveness with no symmetry; and, in seconds, a timer every 30, up to 1 late,
\* checks of 2 to 10.
CONSTANTS
    web = web
    host = host
    broken = broken
    Monitors = {m1}
    Configs = {web, host}
    Malformed = {}
    TypeOf <- MCLiveTypeOf
    Slots = {s1, s2}
    Crons = {c1}
    BatchLimit = 50
    MaxFaults = 0
    Period = 30
    Threshold = 30
    Jitter = 1
    MinLatency = 2
    MaxLatency = 10
    Interval = 60
SPECIFICATION MCSpec
CHECK_DEADLOCK FALSE
INVARIANTS
    NotTooSeldom
    EverySecondTick
PROPERTIES
    DueIsChecked
    StaleStatusHeals
    RunningReleased
