\* Two properties that the comment on allocations in udp_bind/alloc.rs states and the code does not have, one
\* at a time: move the comment sign to see the other counterexample.
SPECIFICATION BindSpec
CONSTANTS
    BindSession = {s1, s2}
    Ips = 1
    PortLo = 7
    PortHi = 8
    BindAttempts = 2
    NoTuple = NoTuple
CHECK_DEADLOCK FALSE
INVARIANT ReleasedByAllocator
\* INVARIANT ReleasedBySocket
