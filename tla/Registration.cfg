SPECIFICATION FairSpec
CONSTANTS
    Garbled = Garbled
    MaxKeys = 3
    MaxFaults = 3
CHECK_DEADLOCK FALSE
INVARIANTS
    FilesHoldGroup
    RenewalIsSafe
    RegisteredHasCert
PROPERTIES
    KeyKept
    Registers
