SPECIFICATION Spec
CONSTANTS
    Items = {1, 2}
    Sensors = {1}
    TTL = 2
    StopGrace = 1
    DownGrace = 2
    Lag = 0
    MaxNow = 6
    MaxFaults = 1
    Enabled <- MCEnabled
    AlertAfters = {0, 2}
    RepeatEvery = 3
    MaxClock = 9
    MaxFlips = 4
INVARIANTS
    TaskTypeOK
    EventsEnd
    FailsOpenInTime
    OutagesAlert
PROPERTIES
    MotionTaskRecovers
CHECK_DEADLOCK FALSE
