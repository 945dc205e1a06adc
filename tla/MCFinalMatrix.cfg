SPECIFICATION MCFairSpec
CONSTANTS
    None = None
    Modes <- MCModes
    Conditions = 1
    Planned = {1, 2}
    ResumeExisting = TRUE
    MaxRuns = 2
INVARIANTS
    EvidenceAccounted
    GatewaysAccounted
PROPERTIES
    ImplementsContract
    InvocationEnds
