CONSTANTS
    left = left
    right = right
    tcp = tcp
    udp = udp
    udp2 = udp2
    Computer = {left, right}
    Udp = {udp, udp2}
    Tcp = {tcp}
    Caller <- RightCalls
    Established = {tcp, udp}
    Speaker = left
    NoConn = NoConn
    SameAddress = TRUE
    AtomicClear = TRUE
    MaxTraffic = 2
    MaxBreak = 2
SPECIFICATION FairSpec
CHECK_DEADLOCK FALSE
INVARIANTS
    NothingVanishes
    NeverTooEarly
    HandledOnceInOrder
PROPERTIES
    AttemptSettles
