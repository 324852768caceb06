SPECIFICATION AgentSpec
CONSTANTS
    sA = sA
    sB = sB
    sC = sC
    sD = sD
    rA = rA
    rI = rI
    cC = cC
    tD = tD
    xAB = xAB
    xBA = xBA
    none = none
    NoEntry = none
    Entries <- RunEntries
    Lanes <- RunLanes
    LaneOf <- RunLaneOf
    Outer <- RunOuter
    BoundedWait <- RunBoundedWait
    Waiters = {}
    MaxConcurrency = 2
    MaxGeneration = 0
    Replies <- MCReplies
    CronRuns <- MCCronRuns
    TimerRuns <- MCTimerRuns
    Sends <- MCSends
    SessionOf <- MCSessionOf
    SenderOf <- MCSenderOf
    CronMax = 1
    SessionsMax = 2
INVARIANTS
    OneRunPerSession
PROPERTIES
    AllWorkSettles
CHECK_DEADLOCK FALSE
