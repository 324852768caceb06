SPECIFICATION Spec
CONSTANTS
    reply = reply
    reply2 = reply2
    notice = notice
    startup = startup
    drain = drain
    drain2 = drain2
    NoEntry = NoEntry
    Replies <- TwoReplies
    Lenient = {}
    Notices = {}
    Startups <- OneStartup
    Drains <- TwoDrains
    MAX_RETRIES = 2
    MaxCrashes = 1
PROPERTIES
    AckedNotResent
CHECK_DEADLOCK FALSE
