SPECIFICATION MCSpec
CONSTANTS
    r1 = r1
    r2 = r2
    r3 = r3
    r4 = r4
    NoDeadline = NoDeadline
    Requests = {r1, r2, r3, r4}
    Allowance <- MCAllowance
    Policy = "fixed"
    LowLoadThreshold = 1
    MaxBatchSize = 3
    MaxWait = 3
    BackendTime = 2
    Gaps = {0, 1, 3}
    Horizon = 4
INVARIANTS
    WindowHonoured
    SlackKept
    OthersWaitOneWindow
PROPERTIES
    Closes
