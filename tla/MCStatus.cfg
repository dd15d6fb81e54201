CONSTANTS
    h = h
    a = a
    b = b
    Client = {h, a, b}
    Host = h
    PreSend = 0
    Games <- AllGames
SPECIFICATION FairSpec
CHECK_DEADLOCK FALSE
INVARIANTS
    NeverTooLate
    SameSyncs
    TypeOK
PROPERTIES
    LostRemoved
    StatusAcknowledged
