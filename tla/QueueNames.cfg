\* two tasks that follow each other under one name, with the clock
SPECIFICATION Spec
SYMMETRY TimedSymmetry
CONSTANTS
    TaskState = {t1, t2}
    Name = {n1}
    Driver = {w1}
    None = None
    NewQueues <- TimedQueues
    Defaults <- TimedDefaults
    Targets = {TRUE, FALSE}
    Delays = {0, 1}
    Outcomes = {"ok", "noresponse"}
    PollInterval = 1
    EngineConfigs <- TimedEngines
    Horizon = 2
    MaxUpdates = 0
    MaxDispatches = 2
    MaxDuration = 127
    Saturating = FALSE
INVARIANTS
    ReservedNamesFree
    TombstonesReclaimed
PROPERTY
    KeepsContract
