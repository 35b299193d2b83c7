SPECIFICATION Spec
CONSTANTS
    hist = hist
    logs = logs
    NoId = NoId
    Turns = {t1, t2}
    ClientIds = {c1}
    Foci = {f1}
    Collectors <- MCCollectors
    TTLs <- MCTTLs
    Plans <- MCNoPlans
    Backends = {"file", "sqlite"}
    MaxConvos = 1
    MaxEntries = 1
    IdleTTL = 1
    MaxChats = 2
    MaxNow = 1
PROPERTIES FreshIdsAreUnique
CHECK_DEADLOCK FALSE
