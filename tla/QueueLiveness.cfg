\* two tasks, two drivers and one slot to share, under fairness
SPECIFICATION FairSpec
CONSTANTS
    TaskState = {t1, t2}
    Name = {n1, n2}
    Driver = {w1, w2}
    None = None
    NewQueues <- UntimedQueues
    Defaults <- UntimedDefaults
    Targets = {FALSE}
    Delays = {0}
    Outcomes = {"5xx"}
    PollInterval = 0
    EngineConfigs <- UntimedEngines
    Horizon = 0
    MaxUpdates = 0
    MaxDispatches = 3
    MaxDuration = 127
    Saturating = FALSE
PROPERTIES
    Drained
    KeepsContract
