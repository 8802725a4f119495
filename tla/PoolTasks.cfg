CONSTANTS
    k1 = k1
    k2 = k2
    k3 = k3
    k4 = k4
    k5 = k5
    Workers = {w1, w2}
    Producers = {p1, p2}
    Tasks = {k1, k2, k3, k4, k5}
    Spawners = {k1, k2}
    Child <- NextTask
    Modes = {"FIXED", "CACHED"}
    InitialThresholds = {1}
    Thresholds = {1, 2}
    None = none
SPECIFICATION FairSpec
INVARIANTS NoLostWakeup OnePlace
PROPERTIES EveryTaskRuns AddTaskReturns
CHECK_DEADLOCK FALSE
