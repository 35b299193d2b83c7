SPECIFICATION FairSpec
CONSTANTS
    hist = hist
    logs = logs
    NoId = NoId
    Turns = {t1, t2}
    ClientIds = {c1}
    Foci = {f1, f2}
    Collectors <- MCCollectors
    TTLs <- MCTTLs
    Plans <- MCPlans
    Backends = {"sqlite"}
    MaxConvos = 1
    MaxEntries = 1
    IdleTTL = 0
    MaxChats = 2
    MaxNow = 1
INVARIANTS TypeOK CacheSound ServedInScope
PROPERTIES Answered
CHECK_DEADLOCK FALSE
