SPECIFICATION CompactionSpec
CONSTANTS
    Compactors = {r1, r2}
    t1 = t1
    t2 = t2
    t3 = t3
    Threads = {t1, t2, t3}
    History <- MCHistory
    MaxSummaries = 2
    MaxDropped = 2
    Nobody = Nobody
INVARIANT SummaryIsText
CHECK_DEADLOCK FALSE
