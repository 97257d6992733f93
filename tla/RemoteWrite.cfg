SPECIFICATION FairSpec
CONSTANTS
    NumSeries = 2
    MaxNow = 2
    Retentions = {d, r}
    DefaultRetention = d
    Receivers <- MCReceivers
    NoReceiver = NoReceiver
    CaFiles = {f1, f2}
    NoFile = NoFile
    NoClient = NoClient
    RangeDurations = {0, 1}
    MaxEvents = 2
INVARIANTS
    NothingSkipped
    OneWriter
    CaFileKept
    RequestFits
PROPERTIES
    Forwards
    CatchesUp
CHECK_DEADLOCK FALSE
