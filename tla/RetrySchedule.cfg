\* a task that is given up has no next attempt, so the system may stop
SPECIFICATION Spec
CHECK_DEADLOCK FALSE
CONSTANTS
    MaxDuration = 127
    Saturating = FALSE
    Configs <- MCConfigs
    Latencies = {1, 2}
    MaxDispatched = 12
INVARIANTS
    BackoffMatchesGrowth
    BackoffInRange
PROPERTIES
    EventuallyDropped
