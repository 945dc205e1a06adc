SPECIFICATION MCSpec
CONSTANTS
    a1 = a1
    a2 = a2
    a3 = a3
    b1 = b1
    b2 = b2
    A = A
    B = B
    None = None
    Requests = {a1, a2, b1}
    Keys = {A, B}
    KeyOf <- MCKeyOf
    MaxBatchSize = 2
    QueueMaxSize = 2
INVARIANTS
    ShutdownSettles
