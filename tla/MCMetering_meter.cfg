SPECIFICATION Spec
CONSTANTS
    None = None
    Anonymous = anonymous
    CompactionCost = 2
    TopUpAmount = 10
    Gate = 1
    MaxDemos = 1
    Users = {u1}
    Requests = {r1, r2}
    Charges <- OneCharge
    MaxTopUps = 1
    LastDay = 1
    MaxFaults = 2
    MaxCrashes = 2
SYMMETRY Symmetry
INVARIANTS TypeOK Conserved BalanceMatchesUsage CompactionIsCharged SessionWithinGlobal
PROPERTIES OneWindowPending
CHECK_DEADLOCK FALSE
