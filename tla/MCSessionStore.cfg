CONSTANTS
    Sessions = {a, b}
    Sealers = {s1, s2}
    Compactor = Compactor
    None = None
    Ttl = 3
    MaxSeq = 3
    MaxTime = 3
    MaxLag = 1
SPECIFICATION Spec
INVARIANTS LogReplayable SessionRetained
CHECK_DEADLOCK FALSE
SYMMETRY Symmetry
