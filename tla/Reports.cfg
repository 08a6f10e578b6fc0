SPECIFICATION Spec
CONSTANTS
    Warnings <- MCWarnings
    HookFailures <- MCHookFailures
    MaxEndpoints = 1
    MaxCrashes = 2
INVARIANTS FailureIsKept ReportsSound
PROPERTY RunEnds
CHECK_DEADLOCK FALSE
