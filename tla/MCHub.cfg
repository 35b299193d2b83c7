SPECIFICATION FairSpec
CONSTANTS
    None = None
    Hubs = {h1, h2}
    Runs = {r1, r2}
    Ids = {syslog}
    AnalyzerOf <- MCAnalyzerOf
    Ports = {p1, p2}
    DefaultPort = p1
INVARIANTS TypeOK LoneHubIsDiscoverable NoSecretLeftBehind HeldByTheHubRead
PROPERTIES RunsSettle
CHECK_DEADLOCK FALSE
