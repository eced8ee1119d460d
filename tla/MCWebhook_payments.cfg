SPECIFICATION Spec
CONSTANTS
    None = None
    u1 = u1
    u2 = u2
    b1 = b1
    Users = {u1, u2}
    Sessions = {s1, s2}
    Subs = {}
    Events = {e1, e2}
    Payments <- MCPayments
    SubNotices <- NoNotices
    Managed = {u2}
    MaxGranted = 1
    MaxFaults = 2
INVARIANTS TypeOK CreditedAtMostOnce CreditGoesToPayer EchoedReferenceCorrelates
    ProcessedMeansCredited CompletedCheckoutsArePaid
PROPERTY ImplementsLedger
SYMMETRY Symmetry
CHECK_DEADLOCK FALSE
