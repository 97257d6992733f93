SPECIFICATION FairSpec
CONSTANTS
    Commits = {c1, c2}
    NoCommit = NoCommit
    EmptyCommit = EmptyCommit
    Unknown = Unknown
    MaxFaults = 2
PROPERTIES
    UpdateReturns
