SPECIFICATION Spec
CONSTANTS
    a = a  b = b  aPod = aPod  bPod = bPod
    plain = plain  ports = ports  illegal = illegal  broken = broken  auth1 = auth1
    None = None  Garbled = Garbled
    Names <- MCNames
    PodNames <- MCPodNames
    PodmanName <- MCPodmanName
    Dirs <- MCDirs
    DirOf <- MCDirOf
    Specs = {plain, ports, illegal, broken}
    Unparsable = {broken}
    IllegalPorts = {illegal}
    WithPorts = {ports, illegal}
    AuthFiles = {auth1}
    Configs <- MCConfigs
    PodIds = {i1, i2, i3}
    MaxFaults = 2
INVARIANTS
    TypeOK
    MappingsInverse
    ManifestTruthful
    UpdateResult
    DeregisterResult
PROPERTIES
    NothingAfterDeregister
