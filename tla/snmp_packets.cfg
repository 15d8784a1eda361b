\* The packets, as in backoffice.cfg, held against what is said of them.
SPECIFICATION MCSpec
CONSTANTS
    Boards = {b1, b2}
    Rules = {q1, q2}
    Incidents = {i1}
    Requests = {r1, r2}
    Rows = {x, y}
    MaxChanges = 2
    Monitors = {m1, m2}
    Since = 2
    Limit = 2
    MaxResults = 3
    MaxTime = 4
    Bits = 3
    OctetBits = 2
    Bases = {0, 1, 2, 3, 4, 5, 6, 7}
    Kinds = {"cidr", "run", "single"}
    Concurrency = {1, 2, 4}
    MaxAlive = 2
    ImportBits = 2
    ImportOctetBits = 1
    ImportBases = {0}
    ImportKinds = {"cidr"}
    ImportConcurrency = {2}
    UserAddresses = {1}
    Assets = {a1, a2}
    Imports = {p1, p2}
    Orgs = {o1, o2}
    Accounts = {u1, u2}
    Emails = {e1, e2}
    Callers = {c1, c2}
    MaxRestarts = 1
    Emptied = {"dashboard", "metric"}
    Septet = 8
    Root = 2
    IntBits = 6
    Communities <- ShownNames
    Oids <- ShortAndLong
    Public <- DefaultName
    SysDescr <- DefaultOid
    Slots = {s1, s2}
INVARIANT PacketsAsSaid
