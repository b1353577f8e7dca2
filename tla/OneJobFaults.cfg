\* One job, every fault.
SPECIFICATION Spec
CONSTANTS
    NumJobs = 1
    Workers = {w1, w2}
    NoWorker = NoWorker
    MaxRetries = 1
    RetryDelay = 60
    SyncLimit = 2
    PostAttempts = 1
    Events = {"redis", "store", "post", "unreachable", "no_id", "slow", "health", "crash"}
SYMMETRY WorkerSymmetry
INVARIANTS
    TypeOK
    OneTicket
    TicketIsWaiting
    VerdictIsJustified
    DispatchBudget
    StoreTerminalIsTrue
PROPERTIES
    TerminalIsFinal
    FollowsLifecycle
    LossIsNamed
