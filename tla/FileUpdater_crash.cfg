SPECIFICATION Spec
CONSTANTS
    asar = asar
    f1 = f1
    f2 = f2
    Files <- MCFiles
    VersionFile = asar
    MaxRetries = 2
    MaxPrompts = 1
    Interference = {}
SYMMETRY MCSymmetry
PROPERTY KeepsItsPromise
CHECK_DEADLOCK FALSE
