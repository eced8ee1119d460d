SPECIFICATION FairSpec
CONSTANTS
    None = None
    u1 = u1
    u2 = u2
    b1 = b1
    Users = {u1, u2}
    Sessions = {s1}
    Subs = {b1}
    Events = {e1, e2}
    Payments <- FewPayments
    SubNotices <- MCNotices
    Managed = {u2}
    MaxGranted = 0
    MaxFaults = 1
INVARIANTS ActiveOnlyByFunds
PROPERTIES NeverResurrected EventuallyAnswered
CHECK_DEADLOCK FALSE
