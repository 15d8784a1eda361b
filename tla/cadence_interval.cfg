\* A monitor with intervalSec 30, as the seed data has.
CONSTANTS
    Period = 30
    Threshold = 30
    Jitter = 1
    MinLatency = 2
    MaxLatency = 10
    Interval = 30
SPECIFICATION CadenceSpec
INVARIANT IntervalKept
