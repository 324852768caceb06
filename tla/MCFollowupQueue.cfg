SPECIFICATION Spec
CONSTANTS
    Messages <- MCMessages
    Settings <- MCRelevant
    Unroutable = Unroutable
    Queues <- MCQueues
    NoQueue = NoQueue
    MaxRedeliveries = 1
    MaxRuns = 2
    MaxClears = 1
    MaxFailures = 1
INVARIANTS
    TypeOK
    RunsOnce
    LostOnlyBehindOverflow
    WaitingHasDriver
PROPERTIES
    QueueDrained
CHECK_DEADLOCK FALSE
