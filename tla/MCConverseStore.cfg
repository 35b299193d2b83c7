SPECIFICATION Spec
SYMMETRY TurnSymmetry
CONSTANTS
    hist = hist
    logs = logs
    NoId = NoId
    Turns = {t1, t2, t3}
    ClientIds = {c1}
    Foci = {f1}
    Collectors <- MCCollectors
    TTLs <- MCTTLs
    Plans <- MCNoPlans
    Backends = {"file", "sqlite"}
    MaxConvos = 1
    MaxEntries = 1
    IdleTTL = 1
    MaxChats = 2
    MaxNow = 1
INVARIANTS WholeTurns SerialTurnsKeepHistory
PROPERTIES TranscriptsSpec
CHECK_DEADLOCK FALSE
