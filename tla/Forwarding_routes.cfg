SPECIFICATION Spec
CONSTANTS
    s1 = s1
    s2 = s2
    Session = {s1, s2}
    None = None
    Outside = Outside
    Addr <- MCAddr
    Prefix <- MCPrefix
    Pools <- MCPools
    Protocol = {0, 1, 17}
    AnyProtocol = 0
    Icmp = 1
    Advertisement <- MCAdvertisements
    MaxPrefixes = 3
    MaxAdvertisements = 2
    Deployment <- MCDeployment
    Idler = {}
    Scope <- MCScope
    Mtu = 2
    PathSize <- MCPathSize
    Packet = {}
    Unroutable = {0}
INVARIANTS
    PoolNotHijacked
    RoutesAreAdvertised
CHECK_DEADLOCK FALSE
