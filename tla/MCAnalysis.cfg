SPECIFICATION MCSpec
CONSTANTS
    None = None
    Requests = {1, 2, 3, 4}
    Calls = {1, 2, 3, 4}
    MaxBatchSize = 3
    Modes = {"direct", "fixed"}
    Rates = {1, 2}
    Disks <- MCDisks
    Repetitions = {1, 2}
    Batching = {"fixed"}
    Comparisons <- MCComparisons
INVARIANTS
    CallsRebuilt
    WholeMatrixOnly
    FairResults
