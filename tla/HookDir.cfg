SPECIFICATION Spec
CONSTANTS
    Pairs = {p1}
    MaxVersion = 3
    MaxRuns = 2
    MaxChanges = 2
INVARIANTS FailsClosed PublishesSoundly
CHECK_DEADLOCK FALSE
