SPECIFICATION AdapterSpec
CONSTANTS
    Attempts = {t1, t2}
    Codes = {x}
    Scripts <- SomeScripts
    MaxChain = 2
    MaxQueued = 1
    MaxIncarnation = 2
    None = None
    MaxRequests = 3
    Replies = {"ok", "error", "undecodable", "oversized"}
INVARIANTS
    VerifiedState
    Transcript
    CallsReportTheirOwn
PROPERTIES
    ImplementsContract
    InterruptedWorkEnds
    StartReturns
CHECK_DEADLOCK FALSE
