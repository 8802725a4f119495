CONSTANTS
    Workers = {w1, w2}
    ThreadCount = 2
    Clients = {m}
    Caller = m
    UseCaller = FALSE
    AutoStop = FALSE
    Fibers = {f1}
    Callbacks = {c1}
    Root = root
    AnyThread = any
    None = none
    UserOps = {"yield", "ready", "hold", "switch"}
    ClientOps = {"schedule"}
    MaxQueue = 2
SPECIFICATION FairSpec
PROPERTIES StartsEventually HeldIsLost
