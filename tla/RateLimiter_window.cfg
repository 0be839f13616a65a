SPECIFICATION LimiterSpec
CONSTANTS
    PacketRate = 3
    ByteRate = 4
    Second = 3
    Micro = 2
    Size = {1, 2}
    Step = {0, 1, 2, 3}
    Horizon = 9
CHECK_DEADLOCK FALSE
INVARIANTS
    WindowBound
