CONSTANTS
    left = left
    right = right
    tcp = tcp
    udp = udp
    udp2 = udp2
    Computer = {left, right}
    Udp = {udp}
    Tcp = {tcp}
    Caller <- RightCalls
    Established = {tcp, udp}
    Speaker = left
    NoConn = NoConn
    SameAddress = TRUE
    AtomicClear = TRUE
    MaxTraffic = 2
    MaxBreak = 1
SPECIFICATION Spec
CHECK_DEADLOCK FALSE
INVARIANTS
    PostMortemRecovers
