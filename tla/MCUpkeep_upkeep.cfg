SPECIFICATION Spec
CONSTANTS
    Names = {"a", "b"}
    Sources = {"s", "t"}
    Requests = {"r1"}
    MaxRequests = 2
    MaxMishaps = 1
    Segs = {1, 2, 3}
    Disks = {"main", "second"}
    Capacity <- Two
    Floor = 1
    Policies <- MCPolicies
    Batch = 4
    Born = 2
    MaxPins = 1
    MaxErrors = 1
    Cameras = {"c", "d"}
    Configs = {"v", "w"}
    Backends = {"env", "gpu"}
    Services = {"archiver"}
    MaxEdits = 2
    MaxFaults = 2
INVARIANTS
    UpkeepTypeOK
    NoZombieStreams
    TasksAreOwned
PROPERTIES
    EvictionsAreNeeded
    UpkeepConverges
CHECK_DEADLOCK FALSE
