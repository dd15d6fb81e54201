CONSTANTS
    Computers = {"a", "b"}
    Callers = {"a"}
    Senders = {"b"}
    Sizes = {1, 2}
    ConnectRetries = 1
    MaxAsk = 1
    MaxBacklog = 5
    Reorder = FALSE
    Timely = TRUE
    MaxSend = 3
    MaxConnect = 1
    MaxClose = 1
    MaxFaults = 2
    MaxFlight = 2
SPECIFICATION FairSpec
INVARIANTS
    InOrder
    NoStarvation
PROPERTIES
    Delivered
CHECK_DEADLOCK FALSE
