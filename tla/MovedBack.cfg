\* One worker that is registered anew while /health runs.
SPECIFICATION Spec
CONSTANTS
    WorkerIds = {w1}
    Urls = {u1, u2}
    u1 = u1
    Admins = {a1}
    Free = Free
    Seeds = {}
    SeedRecord <- SeedsAtU1
    MaxOps = 2
    RegistryEvents = {}
INVARIANT UrlIsStored
