CONSTANTS
    Timer = {1, 2, 3}
    Second = 2
    Moments <- PastMoment
    Waits = {1, 3}
    MaxLate = 0
    MaxSettings = 1
SPECIFICATION Spec
INVARIANTS
    TypeOK
    ArmedInTime
    OwnedOnce
PROPERTIES
    CallsLiveTimerOnce
    EveryTimerRuns
CHECK_DEADLOCK FALSE
