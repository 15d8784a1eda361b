SPECIFICATION MCSpec
CONSTANTS
    MaxWorkers = 2
    Ifaces = {eth0}
    Width = 2
    MaxBurst = 3
    MaxAge = 2
    MaxKeys = 2
INVARIANTS
    MCTypeOK
    RateTrue
    InstallKeeps
PROPERTIES
    GatherSpec
    RoundEnds
