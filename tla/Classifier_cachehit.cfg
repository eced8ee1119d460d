SPECIFICATION ClassifierSpec
CONSTANTS
    Calls = {r1, r2}
    Prompts = {p1, p2}
    MaxCached = 1
    NoUsage = NoUsage
INVARIANT SpendChargedOnce
CHECK_DEADLOCK FALSE
