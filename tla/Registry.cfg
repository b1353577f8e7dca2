\* Two workers, one of them a seed, two concurrent requests, every fault.
SPECIFICATION Spec
CONSTANTS
    WorkerIds = {w1, w2}
    Urls = {u1, u2}
    u1 = u1
    Admins = {a1, a2}
    Free = Free
    Seeds = {w1}
    SeedRecord <- SeedsAtU1
    MaxOps = 3
    RegistryEvents = {"store", "crash", "unconnected"}
SYMMETRY AdminSymmetry
INVARIANTS
    TypeOK
    Durable
    MemoryAgrees
PROPERTIES
    ChangesAreSerial
