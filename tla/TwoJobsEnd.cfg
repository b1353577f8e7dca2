\* Two jobs whose dispatch may fail.
SPECIFICATION LiveSpec
CONSTANTS
    NumJobs = 2
    Workers = {w1}
    NoWorker = NoWorker
    MaxRetries = 0
    RetryDelay = 60
    SyncLimit = 2
    PostAttempts = 1
    Events = {"post"}
INVARIANTS
    OneTicket
    TicketIsWaiting
    Accounted
PROPERTY AckedEnds
