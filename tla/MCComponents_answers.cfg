SPECIFICATION MCSpec
CONSTANTS
    None = None
    m1 = m1
    m2 = m2
    m3 = m3
    Requests = {r1}
    Models = {m1, m2, m3}
    Chain <- MCChain
    Capped = {m1}
    Incompatible = {m3}
    Tools = {t1}
    Ids = {a, b}
    Conversations <- MCConversations
    Budgets <- MCBudgets
    Exchanges = 3
    Keep = 2
    MinKept = 1
    MostKept = 3
    Compactors = {r1, r2, r3}
    t1 = t1
    t2 = t2
    t3 = t3
    Threads = {t1, t2, t3}
    History <- MCHistory
    MaxSummaries = 2
    MaxDropped = 2
    Nobody = Nobody
    Calls = {r1, r2}
    Prompts = {p1, p2}
    MaxCached = 1
    NoUsage = NoUsage
    Catalog <- MCCatalog
    Asked <- MCAsked
    FallbackModel = m1
    NoModel = NoModel
    Keys = {k1, k2}
    MaxChunks = 4
    Emails = {e1}
    Attempts = {r1, r2, r3}
    FailLimit = 2
    NoOne = NoOne
    Owners = {u1, u2}
    OldKeys = {k1}
    Days = {d1}
    Claims = {c1, c2}
    MaxTicks = 3
    Unowned = Unowned
    Weights <- MCWeights
    Seen <- MCSeen
    Nearby <- MCNearby
    Answers <- MCAnswers
    Threshold = 65
    Offered <- MCOffered
    Essential = {"Read"}
    MetaTool = "ToolSearch"
    ToolCaps = {2, 3}
    Families = {f1, f2}
    MaxFamilies = 1
INVARIANTS LargestSafeCut KeptIsFitToSend OneCallPerKey SummaryCoversDropped
    UsageIsAttributed NoBetterModelLeft StreamWellFormed FinishedIsDelivered
    OneAccountPerEmail ClaimsConserveUsage ImageIsSeen ReviewIsHonoured
    WorkingSetFits
PROPERTIES EventuallyAnswered ClassificationEnds OwnerIsKept
CHECK_DEADLOCK FALSE
