\* One monitor, two runs of the cron job, three calls of checkMonitor.
CONSTANTS
    web = web
    host = host
    broken = broken
    Monitors = {m1}
    Configs = {web, broken}
    Malformed = {broken}
    TypeOf <- MCTypeOf
    Slots = {s1, s2, s3}
    Crons = {c1, c2}
    BatchLimit = 50
    MaxFaults = 1
SPECIFICATION Spec
SYMMETRY Symmetry
CHECK_DEADLOCK FALSE
INVARIANTS
    TypeInv
    RunningBacked
    CronSolo
    StatusMatchesNewest
