SPECIFICATION Spec
CONSTANTS
    Commits = {c1, c2}
    NoCommit = NoCommit
    EmptyCommit = EmptyCommit
    Unknown = Unknown
    MaxFaults = 3
SYMMETRY Symmetry
INVARIANTS
    RebootAfterStop
    CompletionAnswersRequest
