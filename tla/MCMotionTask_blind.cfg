SPECIFICATION Spec
CONSTANTS
    Items = {1}
    Sensors = {1}
    TTL = 2
    StopGrace = 1
    DownGrace = 2
    Lag = 0
    MaxNow = 4
    MaxFaults = 1
    Enabled <- MCPixel
    AlertAfters = {2}
    RepeatEvery = 3
    MaxClock = 1
    MaxFlips = 1
PROPERTY NoBlindTrust
CHECK_DEADLOCK FALSE
