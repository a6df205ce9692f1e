\* two callers, two names, two queue objects: enough to delete and recreate
SPECIFICATION FairSpec
CONSTANTS
    Caller = {c1, c2}
    QueueName = {q1, q2}
    QueueState = {s1, s2}
    Policy = {p1}
    None = None
INVARIANTS
    TypeOK
    LostQueuesStopped
    StoppedQueuesHidden
    PoliciesOfQueues
PROPERTIES
    ImplementsRegistry
    CallsReturn
