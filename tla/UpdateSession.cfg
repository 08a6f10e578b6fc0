SPECIFICATION FairSpec
CONSTANT Endpoints = 2
INVARIANTS OutcomeTold EndsInOrder SkipIsASkip NothingKeptFromUser
PROPERTY EventuallyExits
CHECK_DEADLOCK FALSE
