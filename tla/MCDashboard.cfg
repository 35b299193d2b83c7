SPECIFICATION FairSpec
CONSTANTS
    web = web
    pod = pod
    NoFix = NoFix
    None = None
    Findings <- MCFindings
    Kind <- MCKind
    NLists = 2
    ListOf <- MCListOf
    BestEffort = {2}
    Requests = {r1, r2}
    Setups <- MCSetups
    MaxChanges = 1
INVARIANTS TypeOK ReportIsOneReading BatchReportsAll RestartsBeforeDeletes
PROPERTIES Converges
CHECK_DEADLOCK FALSE
