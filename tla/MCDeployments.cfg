SPECIFICATION Spec
CONSTANTS
    Commands = {c1}
    TfRuns = {t1, t2}
    MaxSecond = 2
    MaxDeliveries = 1
INVARIANTS RecordedIsCounted
CHECK_DEADLOCK FALSE
