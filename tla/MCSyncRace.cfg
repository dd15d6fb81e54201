CONSTANTS
    h = h
    a = a
    b = b
    Client = {h, a}
    Host = h
    PreSend = 0
    Games <- RaceGame
SPECIFICATION Spec
CHECK_DEADLOCK FALSE
INVARIANT
    SameControl
