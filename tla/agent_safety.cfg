\* One file, one batch at a time, two attempts, two requests, two faults.
CONSTANTS
    Files = {hosts}
    Contents = {x, y}
    Batches = {b1}
    Conns = {c1, c2}
    MaxAttempts = 2
    MaxFaults = 2
SPECIFICATION Spec
SYMMETRY Symmetry
CHECK_DEADLOCK FALSE
INVARIANTS
    TypeOK
    CopiesBounded
PROPERTIES
    NoPhantomChange
    UploadSpec
