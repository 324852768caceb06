SPECIFICATION Spec
CONSTANTS
    poll = poll
    job = job
    NoWake = NoWake
    Wakes <- MCWakes
    CronWakes <- MCCronWakes
    Batches <- MCBatches
    MaxPriority = 2
    MaxRequests = 2
    MaxRegistrations <- MCMaxRegistrations
INVARIANTS
    TypeOK
    NoWakeStranded
    NoIdleTimer
    NoWakeLost
    OverlapBounded
PROPERTIES
    EveryWakeServed
CHECK_DEADLOCK FALSE
