CONSTANTS
    Instances = {i1}
    Requests = {r1, r2}
    None = None
    Lifetimes = {1}
    Relists = FALSE
    MaxBatch = 1
    MaxNonces = 2
    MaxKey = 1
    MaxTime = 1
SPECIFICATION FairChutesSpec
INVARIANTS InvokedUnderOwnBinding NonceUsedOnce
PROPERTIES AcquireEnds
