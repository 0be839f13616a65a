SPECIFICATION Spec
CONSTANTS
    Session = {s1, s2}
    V4Size = 5
    V6Size = 4
    V6Reach = 3
    Named <- SomeNamed
    None = None
INVARIANTS
    NothingLost
    ReservedV4
PROPERTIES
    Leases
