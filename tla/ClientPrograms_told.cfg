SPECIFICATION FairSpec
CONSTANTS
    Addr <- MCAddr
    Prefix <- MCPrefix
    Proxy = 3
    Assignable = {0, 1}
    Capsule <- MCCapsule
    MaxCapsules = 3
    Pieces = 2
    QueueDepth = 1
    Option <- MCOption
    Mtu = {1, 2}
    MtuStep = 1
    MaxFaults = 1
    Pings = 2
    MaxStrays = 1
CHECK_DEADLOCK FALSE
INVARIANTS
    TransportOffTunnel
    KernelIsTold
    NothingLeft
    CountedHasCome
PROPERTIES
    CapsulesTakeEffect
\* What test_client.rs says besides, and TLC refutes:
\* INVARIANT AllReceivedAllEchoed
