SPECIFICATION MCSpec
CONSTANTS
    a1 = a1
    a2 = a2
    a3 = a3
    b1 = b1
    A = A
    B = B
    Requests = {a1, a2, a3, b1}
    Keys = {A, B}
    KeyOf <- MCKeyOf
    MaxBatchSize = 2
    QueueMaxSize = 2
    Deployments <- MCDeployments
INVARIANTS
    CountersMatchReplies
    NoCallOnClosedClient
    GracefulShutdown
PROPERTIES
    NobodyWaitsForever
