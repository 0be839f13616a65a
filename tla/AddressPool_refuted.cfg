\* Two properties that comments of address_pool.rs state and the code does not have, one
\* at a time: move the comment sign to see the other counterexample.
SPECIFICATION Spec
CONSTANTS
    Session = {s1, s2}
    V4Size = 5
    V6Size = 4
    V6Reach = 4
    Named <- AllNamed
    None = None
INVARIANT ExclusiveNamedLease
\* INVARIANT GatewayKept
