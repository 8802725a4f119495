CONSTANTS
    Workers = {w1, w2}
    Users = {u}
    Outside = {}
    Fds = {2, 3}
    Interests <- MCInterests
    Arrivals <- MCArrivals
    InitialSize = 4
    Tasks = {k1, k2}
    AutoStop = FALSE
    MaxGen = 1
    None = none
SPECIFICATION Spec
INVARIANT TriggersRegistered
