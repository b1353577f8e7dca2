\* Two workers, two requests, every fault.
SPECIFICATION Spec
CONSTANTS
    Workers = {w1, w2}
    Requests = {r1, r2}
    All = All
    RolloutEvents = {"storage", "redis", "worker", "crash"}
SYMMETRY RolloutSymmetry
INVARIANTS
    TypeOK
    CurrentIsStored
    OnlyPublished
    ReportIsTrue
    AloneTakesEffect
