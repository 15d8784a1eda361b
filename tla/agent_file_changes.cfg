\* No faults: every batch is stored once.
CONSTANTS
    Files = {hosts, passwd}
    Contents = {x, y}
    Batches = {b1}
    Conns = {c1}
    MaxAttempts = 2
    MaxFaults = 0
SPECIFICATION Spec
CHECK_DEADLOCK FALSE
INVARIANTS
    RowsAreChanges
