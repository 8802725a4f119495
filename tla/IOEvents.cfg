CONSTANTS
    Workers = {w1}
    Users = {u1, u2}
    Outside = {}
    Fds = {2, 3}
    Interests <- MCInterests
    Arrivals <- MCArrivals
    InitialSize = 1
    Tasks = {k1, k2}
    AutoStop = FALSE
    MaxGen = 2
    None = none
SPECIFICATION FairSpec
INVARIANTS PendingExact EpollAgrees HandlersKept
PROPERTY EventDelivered
