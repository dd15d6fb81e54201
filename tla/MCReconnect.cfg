CONSTANTS
    MaxLinks = 3
    MaxBreaks = 2
    HostAttempts = 1
    ClientAttempts = 1
SPECIFICATION FairSpec
CHECK_DEADLOCK FALSE
INVARIANTS
    NoEntryLeft
    NoSecondReconn
PROPERTIES
    Heals
    BackRunsAgain
