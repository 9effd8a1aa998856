CONSTANTS
    Callers = {r1, b1}
    Requests = {r1}
    Keys = {k1, n1}
    Tee = {k1}
    None = None
    MaxRotations = 2
    MaxReverify = 2
    MaxCandidates = 2
    MaxEffort = 3
SPECIFICATION FairForwardingSpec
INVARIANTS ServedOnce RefreshIsFresh FailClosed  ReceiptNamesServingChannel FailuresReported
PROPERTIES CachedBindingAdvances RequestsFinish
CHECK_DEADLOCK FALSE
