SPECIFICATION ServerSpec
CONSTANTS
    Session = {s1}
    BindSession = {b1}
    a1 = a1
    c1 = c1
    Conn = {c1}
    StreamOf <- OneConnection
    Pools <- OneAddress
    Families <- TwoFamilies
    MaxSessions = 1
    MaxChunks = 1
    MaxFaults = 1
    MaxLives = 1
    None = None
CHECK_DEADLOCK FALSE
PROPERTY BindTunnelsContinue
\* INVARIANT FailedStartLeavesNothing
