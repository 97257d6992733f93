SPECIFICATION Spec
CONSTANTS
    Workloads = {"w1", "w2"}  LogWorkloads = {"w1", "w2"}  DataWorkloads = {"w1", "w2"}
    PodmanName <- MCPodmanName
    System = "system"
    Intervals = {"slow"}
    Transports = {t1}
    NoWriter = NoWriter
    Storages = {"s1", "s2"}
    NoStorage = "nowhere"
    NoTick = NoTick  NoUpdate = NoUpdate  Idle = Idle
    Configs <- MCConfigs
    MaxEvents = 3
CHECK_DEADLOCK FALSE
INVARIANTS
    NothingLeftBehind
    ReadersOwned
    SystemFollows
    StorageFollows
