SPECIFICATION FairSpec
CONSTANTS
    asar = asar
    f1 = f1
    f2 = f2
    Files = {asar, f1}
    VersionFile = asar
    MaxRetries = 3
    MaxPrompts = 1
    Interference = {"app", "backup"}
INVARIANTS OriginalsRecoverable VersionFileTellsTheTruth CompleteMeansInstalled UnrestoredBackupIsRetained
CHECK_DEADLOCK FALSE
PROPERTY Terminates
