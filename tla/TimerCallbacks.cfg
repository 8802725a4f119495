CONSTANTS
    Timers = {1, 2}
    Users <- MCUsers
    Ops <- MCOps
    Recurring = {2}
    Periods = {1, 2}
    StartNow = 1
    MaxNow = 3
    Hour = 2
    Width = 16
SPECIFICATION Spec
INVARIANTS ArmedIsQueued OneShotFate NeverEarly WakesForFront
