SPECIFICATION RelaySpec
CONSTANTS
    None = None
    Anonymous = anonymous
    CompactionCost = 2
    TopUpAmount = 2
    Gate = 1
    MaxDemos = 0
    Users = {u1}
    Requests = {r1, r2}
    Charges <- OneCharge
    MaxTopUps = 1
    LastDay = 0
    MaxFaults = 1
    MaxCrashes = 1
    ApiKeys = {k1}
    Enforced = TRUE
    Grace = 4
SYMMETRY Symmetry
INVARIANTS OverdraftBounded
PROPERTY ImplementsGate
CHECK_DEADLOCK FALSE
