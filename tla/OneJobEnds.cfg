\* One job with retries on a worker that may not answer.
SPECIFICATION LiveSpec
CONSTANTS
    NumJobs = 1
    Workers = {w1}
    NoWorker = NoWorker
    MaxRetries = 1
    RetryDelay = 0
    SyncLimit = 2
    PostAttempts = 2
    Events = {"post", "unreachable", "slow"}
INVARIANTS
    Accounted
    DispatchBudget
PROPERTY AckedEnds
