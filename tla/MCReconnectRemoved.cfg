CONSTANTS
    MaxLinks = 3
    MaxBreaks = 2
    HostAttempts = 1
    ClientAttempts = 1
SPECIFICATION Spec
INVARIANT
    BackForGood
CHECK_DEADLOCK FALSE
