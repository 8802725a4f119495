CONSTANTS
    Workers = {w1, w2}
    ThreadCount = 1
    Clients = {m, n}
    Caller = m
    UseCaller = TRUE
    AutoStop = TRUE
    Fibers = {}
    Callbacks = {c1, c2}
    Root = root
    AnyThread = any
    None = none
    UserOps = {"schedule"}
    ClientOps = {"schedule", "batch", "stop", "destroy"}
    MaxQueue = 2
SPECIFICATION Spec
SYMMETRY Symmetry
INVARIANTS TypeOK CountersExact QuiescentWhenDrained
PROPERTIES ImplementsTaskPool JoinNeverReturns
