SPECIFICATION Spec
CONSTANTS
    first = first
    second = second
    shared = shared
    agent = agent
    NoRequest = NoRequest
    NoId = NoId
    Requests <- MCRequests
    Ids <- MCIds
    Waiters <- MCWaiters
    MaxRuns <- MCMaxRuns
INVARIANTS
    FallbackUsable
CHECK_DEADLOCK FALSE
