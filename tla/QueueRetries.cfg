\* one task, every outcome of its attempts, delays and a TTL within the horizon
SPECIFICATION FairSpec
CONSTANTS
    TaskState = {t1}
    Name = {n1}
    Driver = {w1}
    None = None
    NewQueues <- SingleTaskQueues
    Defaults <- TimedDefaults
    Targets = {TRUE, FALSE}
    Delays = {0, 1}
    Outcomes = {"ok", "4xx", "5xx", "noresponse"}
    PollInterval = 1
    EngineConfigs <- SingleTaskEngines
    Horizon = 4
    MaxUpdates = 0
    MaxDispatches = 3
    MaxDuration = 127
    Saturating = FALSE
INVARIANTS
    NotEarly
    CountersConsistent
PROPERTIES
    ExpiresInTime
