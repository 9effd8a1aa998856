SPECIFICATION Spec
CONSTANTS
    Upstreams = {1, 2}
    Requests = {q1, q2}
    Texts <- MCTexts
    Samples <- MCSamples
    None = None
    AbsThreshold = 1
    RelThreshold = 1500
    CacheThreshold = 300
    MaxHistory = 1
    MaxPolls = 2
    MaxToggles = 1
SYMMETRY MCSymmetry
INVARIANTS RunningCountsGuards SelectionAvoidsBlocked SamplesAreLastRounds
CHECK_DEADLOCK FALSE
