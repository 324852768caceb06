SPECIFICATION Spec
CONSTANTS
    reply = reply
    reply2 = reply2
    notice = notice
    startup = startup
    drain = drain
    drain2 = drain2
    NoEntry = NoEntry
    Replies <- OneReply
    Lenient <- OneReply
    Notices <- OneNotice
    Startups <- OneStartup
    Drains <- OneDrain
    MAX_RETRIES = 2
    MaxCrashes = 1
CONSTRAINT LenientUntilCrash
INVARIANTS
    TypeOK
    ClaimsExact
    OneHolder
    MarkersCollected
PROPERTIES
    KeepsPromise
CHECK_DEADLOCK FALSE
