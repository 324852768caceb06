SPECIFICATION Spec
CONSTANTS
    first = first
    second = second
    shared = shared
    agent = agent
    NoRequest = NoRequest
    NoId = NoId
    Requests <- MCRequests
    Ids <- MCIds
    Waiters <- MCWaiters
    MaxRuns <- MCMaxRuns
INVARIANTS
    OneDecisionTold
    RunsAsDecided
    ExpiresInTime
    FoundUnderItsId
PROPERTIES
    RequestsEnd
CHECK_DEADLOCK FALSE
