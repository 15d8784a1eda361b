\* No file is edited; one batch at a time, two attempts, two requests, two faults.
CONSTANTS
    Files = {hosts}
    Contents = {x}
    Batches = {b1}
    Conns = {c1, c2}
    MaxAttempts = 2
    MaxFaults = 2
SPECIFICATION FairSpec
CHECK_DEADLOCK FALSE
PROPERTIES
    BackOnline
