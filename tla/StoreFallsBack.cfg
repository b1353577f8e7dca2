\* One job and no fault.
SPECIFICATION Spec
CONSTANTS
    NumJobs = 1
    Workers = {w1}
    NoWorker = NoWorker
    MaxRetries = 0
    RetryDelay = 60
    SyncLimit = 2
    PostAttempts = 1
    Events = {}
INVARIANT StoreCatchesUp
