CONSTANTS
    h = h
    a = a
    b = b
    x = x
    y = y
    Client = {h, a}
    Host = h
    Activated = {h, a}
    All = All
    Mode = "Async"
    Input = {x, y}
    ResInput = {y}
    ControlRate = 2
    PreSend = 0
    Backlog = 1
    Settings <- StartOnly
    MaxTick = 1
    Setups <- AsyncGames
SPECIFICATION FairSpec
PROPERTIES
    ImplementsLog
    Progress
