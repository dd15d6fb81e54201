CONSTANTS
    src = src
    a = a
    b = b
    Computer = {src, a, b}
    Source = {src}
    Connected <- Mesh
    Breakable <- LoaderLink
    ChunkCnt = 2
    MaxLoad = 3
    MaxLoadPerPeer = 1
    Fresh = FALSE
    Announced = TRUE
    MaxFaults = 1
    MaxDiscover = 1
SYMMETRY LoaderSymmetry
SPECIFICATION Spec
INVARIANTS
    TypeOK
    FileComplete
    RequestsAnswerable
    LoadsApart
    NobodyStuck
PROPERTIES
    NotGivenUp
CHECK_DEADLOCK FALSE
