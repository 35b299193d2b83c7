SPECIFICATION LogSpec
CONSTANTS
    N = 3
    Concurrency = 2
    MaxRetries = 1
    MaxPlanSteps = 8
    Load = 7
    MaxTurns = 2
    Times = {1, 12}
    MaxBursts = 2
    Stretches = {1, 6}
    Counts = {3, 12}
    MaxChanges = 2
    Objectives = {0, 1, 10}
    Spacings = {1, 5, 66}
    MaxSamples = 3
    MaxEvents = 2
    MaxBytes = 3
    PageSize = 1
    Sizes = {1, 2, 4}
    MaxLines = 4
    MaxRuns = 2
    logs = logs
    notify = notify
    None = None
    ns1 = ns1
    ns2 = ns2
    web = web
    job = job
    tier = tier
    x = x
    y = y
    main = main
    side = side
    Scopes = {ns1, All}
    All = All
    LabelKeys = {App, tier}
    App = App
    Absent = Absent
    Healths = {"ok", "CrashLoopBackOff", "ImagePullBackOff"}
    MaxPods = 1
    MaxDrift = 1
    MaxFixes = 1
    Runs = {p, q}
    a = a
    RecordIds = {a, b}
    Document = a
    MaxWrites = 2
    cli = cli
    Workers = {cli, req1, req2}
    Process <- MCProcess
    MaxSecond = 2
    MaxOps = 4
    Commands = {c1, c2}
    TfRuns = {t1}
    MaxDeliveries = 2
    Windows = {1, 7}
    LeadTimes = {200}
    Outages = {30}
    MaxDays = 1
    Batches = {1, 12}
    MaxBatches = 2
    MaxIncidents = 2
INVARIANTS RemedyIsForACrash
CHECK_DEADLOCK FALSE
