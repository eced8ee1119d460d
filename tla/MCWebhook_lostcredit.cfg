SPECIFICATION Spec
CONSTANTS
    None = None
    u1 = u1
    u2 = u2
    b1 = b1
    Users = {u1}
    Sessions = {s1}
    Subs = {}
    Events = {e1}
    Payments <- PlainPayments
    SubNotices <- NoNotices
    Managed = {}
    MaxGranted = 0
    MaxFaults = 1
INVARIANT AckedPaymentIsCredited
CHECK_DEADLOCK FALSE
