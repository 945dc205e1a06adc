SPECIFICATION MCSpec
CONSTANTS
    Waits = 2
    Rates = 2
    Load = 2
    MaxRuns = 3
    Requests = {1, 2, 3, 4}
    Target <- MCTarget
    PoolSizes = {2}
    Timeout = 3
    MaxStall = 0
    Threshold = 0
    AllowedLate = 0
    Duration = 5
    Interval = 1
    SampleTimeout = 3
    MaxRows = 2
INVARIANT
    OfferedLoad
