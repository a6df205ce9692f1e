SPECIFICATION FairSpec
CONSTANTS
    QueueNames = {q1, q2}
    BadNames = {bad}
    Empty = Empty
    Unset = Unset
    Port = Port
    Issuer = Issuer
    BadIssuer = BadIssuer
    RPCs = {r1, r2}
    q1 = q1
    q2 = q2
    bad = bad
    Inputs <- MCInputs
INVARIANTS FailedStartLeavesNothing QueuesBeforeReady CleanExit
PROPERTY SignalEnds
