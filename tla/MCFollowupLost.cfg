SPECIFICATION Spec
CONSTANTS
    Messages <- MCMessages
    Settings <- MCOfTwo
    Unroutable = Unroutable
    Queues <- MCQueues
    NoQueue = NoQueue
    MaxRedeliveries = 1
    MaxRuns = 2
    MaxClears = 1
    MaxFailures = 1
INVARIANTS
    EachReadOrTold
CHECK_DEADLOCK FALSE
