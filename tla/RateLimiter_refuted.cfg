SPECIFICATION LimiterSpec
CONSTANTS
    PacketRate = 3
    ByteRate = 0
    Second = 3
    Micro = 2
    Size = {1, 2}
    Step = {0, 1, 2, 3}
    Horizon = 9
INVARIANTS
    RefillProportional
CHECK_DEADLOCK FALSE
