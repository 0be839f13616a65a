\* Properties that comments of strawcat.rs and p2p/stun.rs state and the code does not have, one
\* at a time: move the comment sign to see another counterexample.
SPECIFICATION CatSpec
CONSTANTS
    Attempts = 2
    Issuer = Issuer
    Other_ = Other
    None = None
    PipeConfigs <- DefaultOnly
    Chunks = 2
CHECK_DEADLOCK FALSE
INVARIANT WrittenHasArrived
\* INVARIANT UploadReachesEof
\* INVARIANT OpenIsReported
