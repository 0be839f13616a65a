SPECIFICATION Spec
CONSTANTS
    None = None
    ByteBits = 4
    V4Octets = 1
    V6Octets = 2
    PoolV4 <- V4Pool
    CommandLines <- OperatorCommandLines
    Files <- OperatorFiles
    RequestSet <- ClientRequests
    DnsAnswers <- Resolved
    Loads <- SomeLoads
    CapsuleLists <- Sayings
    Frames <- KernelFrames
    Mss = {0, 2, 3}
    MaxDatagrams = {1, 4, 5}
    Streams = {12, 16}
CHECK_DEADLOCK FALSE
INVARIANTS
    AnswerIsRight
    RoutesAreTheScope
    CapsulesArriveIntact
    FrameArrivesIntact
