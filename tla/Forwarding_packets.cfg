SPECIFICATION Spec
CONSTANTS
    s1 = s1
    s2 = s2
    Session = {s1, s2}
    None = None
    Outside = Outside
    Addr <- MCAddr
    Prefix <- MCPrefix
    Pools <- MCPools
    Protocol = {0, 1, 17}
    AnyProtocol = 0
    Icmp = 1
    Advertisement <- MCAdvertisement
    MaxPrefixes = 2
    MaxAdvertisements = 1
    Deployment <- MCDeployment
    Idler = {s1}
    Scope <- MCScope
    Mtu = 2
    PathSize <- MCPathSize
    Packet <- MCPacket
    Unroutable = {0}
CHECK_DEADLOCK FALSE
INVARIANTS
    ServingReceives
    DeliveredInScope
    NoFalseProhibition
    TooBigHelps
