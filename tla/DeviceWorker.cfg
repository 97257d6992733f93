SPECIFICATION FairSpec
CONSTANTS
    v1 = v1  v2 = v2
    Default = Default  Empty = Empty  None = None  Garbled = Garbled
    NoTicker = NoTicker
    Versions <- MCVersions
    Content <- MCContent
    Observers <- MCObservers
    Deregistrables <- MCDeregistrables
    Tickers = {t1, t2, t3}
    Events = {e1}
    LateMessages = TRUE
    MaxMessages = 2
    MaxFaults = 1
INVARIANTS
    OneLiveTicker
    EventsInOnePlace
    FileMatchesMemory
    ObserversFollow
    ConfiguredSendsHeartbeats
PROPERTIES
    MessagesConsumed
    RetriesEnd
