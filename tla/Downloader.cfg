SPECIFICATION FairSpec
CONSTANTS
    f1 = f1
    f2 = f2
    f3 = f3
    n1 = n1
    n2 = n2
    c1 = c1
    c2 = c2
    c3 = c3
    NoFile = NoFile
    NoEndpoint = NoEndpoint
    Files = {f1, f2, f3}
    Endpoints = {n1}
    Chains = {c1, c2}
    MaxThreads = 2
    MaxRetries = 0
    MaxStarts = 2
    FailLimit = 1
INVARIANTS WorkersAccountedFor FilesAccountedFor OutcomeSound
PROPERTIES UpdateBeginsAlone EventuallyDecided
CHECK_DEADLOCK FALSE
