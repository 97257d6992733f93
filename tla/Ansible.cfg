SPECIFICATION FairSpec
CONSTANTS
    Messages = {m1, m2}
    Contents = {c1, c2}
    NoPath = NoPath  Garbled = Garbled  NoResults = NoResults  NoPlays = NoPlays
    Results = {NoPlays, plays}
    MaxModTime = 2
    MaxFaults = 1
INVARIANTS
    RunningIsRecorded
    FinishedIsForgotten
    WaitGroupCounts
PROPERTIES
    HandlersReturn
