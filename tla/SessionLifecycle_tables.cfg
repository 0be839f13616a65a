SPECIFICATION Spec
CONSTANTS
    Session = {s1, s2}
    a1 = a1
    a2 = a2
    Pools <- TwoAddresses
    MaxSessions = 0
    MaxChunks = 1
    None = None
CHECK_DEADLOCK FALSE
SYMMETRY Symmetry
INVARIANTS
    ServedAddressesAreRouted
    SnapshotIsLeased
    NoResidue
