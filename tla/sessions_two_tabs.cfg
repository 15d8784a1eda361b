\* Two tabs with one request each; three pairs let both exchange the same one.
CONSTANTS
    A = A
    B = B
    a1 = a1
    a2 = a2
    b1 = b1
    Tabs = {A, B}
    Requests = {a1, b1}
    TabOf <- MCTabOf
    MaxPairs = 3
    MaxFaults = 1
SPECIFICATION Spec
CHECK_DEADLOCK FALSE
INVARIANTS
    StoreUsable
