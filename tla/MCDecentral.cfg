CONSTANTS
    h = h
    a = a
    b = b
    x = x
    y = y
    Client = {h, a}
    Host = h
    Activated = {h, a}
    All = All
    Mode = "Decentral"
    Input = {x, y}
    ResInput = {}
    ControlRate = 1
    PreSend = 0
    Backlog = 1
    Settings <- AllSettings
    MaxTick = 1
    Setups <- DecentralGames
SPECIFICATION FairSpec
INVARIANTS
    IInv
    Agreement
    InputFaithful
    NoControlMissing
    NoRunaway
    RequestCanBeAnswered
PROPERTIES
    ReachTarget
