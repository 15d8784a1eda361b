\* One tab with two requests under way, of which one call may be lost; the
\* second pair is what one of them gets for the first.
CONSTANTS
    A = A
    B = B
    a1 = a1
    a2 = a2
    b1 = b1
    Tabs = {A}
    Requests = {a1, a2}
    TabOf <- MCTabOf
    MaxPairs = 2
    MaxFaults = 1
SPECIFICATION FairSpec
CHECK_DEADLOCK FALSE
INVARIANTS
    ExchangedOncePerTab
PROPERTIES
    FlagReleased
