SPECIFICATION CatSpec
CONSTANTS
    Attempts = 2
    Issuer = Issuer
    Other_ = Other
    None = None
    PipeConfigs <- DefaultOnly
    Chunks = 2
CHECK_DEADLOCK FALSE
INVARIANTS
    VerdictIsRight
    MappingIsForwarded
    NothingCutOff
