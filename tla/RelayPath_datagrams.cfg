SPECIFICATION PathSpec
CONSTANTS
    QueueCap = 1
    MaxEngage = 2
    Peer = Peer
    Stranger = Stranger
    Candidate = Candidate
    ZeroPort = {}
    DeniedNets = {Candidate}
    AllowedNets = {Candidate, Peer}
    LocalNets = {Candidate, Peer}
    ChannelCap = 1
    MaxOut = 1
    MaxIn = 2
    None = None
CHECK_DEADLOCK FALSE
INVARIANTS
    FallbackCarried
    AddressesKept
    UplinkIsKnown
PROPERTIES
    StrangersStopped
    AckNoticed
\* What does not hold the other way, and TLC refutes:
\* INVARIANT DownlinkIsKnown
