SPECIFICATION Spec
CONSTANTS
    TaskIds = {a, b}
    NoId = NoId
    Results <- MCResults
INVARIANTS
    PlaysFramed
    HostsAnswered
    TasksTracked
