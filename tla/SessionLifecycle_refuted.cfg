\* Properties that comments of session/mod.rs and forwarding/router.rs state and
\* the code does not have, one at a time: move the comment sign for the other.
SPECIFICATION Spec
CONSTANTS
    Session = {s1, s2}
    a1 = a1
    a2 = a2
    Pools <- OneAddress
    MaxSessions = 1
    MaxChunks = 1
    None = None
CHECK_DEADLOCK FALSE
INVARIANT SessionLimit
\* INVARIANT RoutedToLessee
