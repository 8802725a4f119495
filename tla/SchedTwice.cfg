CONSTANTS
    Workers = {w1, w2}
    ThreadCount = 2
    Clients = {m}
    Caller = m
    UseCaller = FALSE
    AutoStop = FALSE
    Fibers = {f1}
    Callbacks = {c1}
    Root = root
    AnyThread = any
    None = none
    UserOps = {}
    ClientOps = {"schedule"}
    MaxQueue = 2
SPECIFICATION Spec
INVARIANT ResumesSuspended
