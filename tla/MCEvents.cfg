CONSTANTS
    main = main
    net = net
    log = log
    e1 = e1
    e2 = e2
    io = io
    tcp = tcp
    Thread = {main, net}
    Main = main
    Net = net
    Nobody = Nobody
    Event = {e1, e2}
    Proc = {io, tcp}
    Timed = {io}
    InOrder = TRUE
    MaxEvent = 2
    PipeSize = 3
    MaxCalls = 3
SPECIFICATION FairSpec
CHECK_DEADLOCK FALSE
INVARIANTS
    IInv
    OnlyMembersExecuted
PROPERTIES
    ImplementsQueue
    EveryEventProcessed
    CallReturns
