\* what the guide says of MaxAttempts, with RunTask during an attempt
SPECIFICATION Spec
SYMMETRY Symmetry
CONSTANTS
    TaskState = {t1, t2}
    Name = {n1, n2}
    Driver = {w1, w2}
    None = None
    NewQueues <- UntimedQueues
    Defaults <- UntimedDefaults
    Targets = {FALSE}
    Delays = {0}
    Outcomes = {"ok", "5xx"}
    PollInterval = 0
    EngineConfigs <- UntimedEngines
    Horizon = 0
    MaxUpdates = 1
    MaxDispatches = 3
    MaxDuration = 127
    Saturating = FALSE
INVARIANT AttemptsAlwaysBounded
