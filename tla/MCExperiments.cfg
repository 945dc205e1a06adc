SPECIFICATION MCSpec
CONSTANTS
    Waits = 2
    Rates = 2
    Load = 2
    MaxRuns = 3
    Requests = {1, 2, 3, 4}
    Target <- MCTarget
    PoolSizes = {2, 4}
    Timeout = 3
    MaxStall = 2
    Threshold = 0
    AllowedLate = 1
    Duration = 5
    Interval = 1
    SampleTimeout = 3
    MaxRows = 2
INVARIANTS
    EvidenceIsWhole
    CleanMeasurement
    OneRecordEach
    OpenLoopKept
    SamplerAccounted
PROPERTIES
    EverythingEnds
