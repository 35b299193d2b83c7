SPECIFICATION Spec
CONSTANTS
    None = None
    Hubs = {h1, h2}
    Runs = {r1, r2}
    Ids = {syslog}
    AnalyzerOf <- MCAnalyzerOf
    Ports = {p1, p2}
    DefaultPort = p1
INVARIANTS RunningHubIsDiscoverable
CHECK_DEADLOCK FALSE
