SPECIFICATION FairSpec
CONSTANTS
    Session = {s1}
    a1 = a1
    a2 = a2
    Pools <- OneAddress
    MaxSessions = 0
    MaxChunks = 1
    None = None
CHECK_DEADLOCK FALSE
PROPERTY ReapedIsTornDown
