\* Two properties that the comment of engage in relay_socket.rs states and the code does not have, one
\* at a time: move the comment sign to see the other counterexample.
SPECIFICATION Spec
CONSTANTS
    QueueCap = 8
    MaxEngage = 11
CHECK_DEADLOCK FALSE
INVARIANT TimeoutLeavesSession
\* INVARIANT EngagedIsNarrow
