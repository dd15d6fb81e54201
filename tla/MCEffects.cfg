CONSTANTS
    Priority   = {1, 2, 3}
    Meddling   = {"Start", "TempStart", "Stop", "ClearStop", "Timer", "Add"}
    Stubborn   = FALSE
    MaxEffect  = 3
    MaxRemove  = 3
    MaxExecute = 2
SPECIFICATION Spec
INVARIANTS
    Balanced
    Layered
    Restored
\* Effects end: the bounds on creations, removals and rounds are reached.
CHECK_DEADLOCK FALSE
