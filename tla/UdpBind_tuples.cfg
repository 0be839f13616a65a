SPECIFICATION BindSpec
CONSTANTS
    BindSession = {s1, s2}
    Ips = 2
    PortLo = 7
    PortHi = 8
    BindAttempts = 2
    NoTuple = NoTuple
CHECK_DEADLOCK FALSE
INVARIANTS
    TupleExclusive
    ScanCoversPool
