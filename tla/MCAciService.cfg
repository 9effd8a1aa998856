CONSTANTS
    Callers = {c1, c2}
    Ttl = 2
    Timeout = 1
    Lifetimes = {1, 5}
    MaxRotations = 2
    MaxClock = 5
SYMMETRY Symmetry
SPECIFICATION AciSpec
INVARIANT SlotHoldsHonestReport
PROPERTY AciAnswersRecent
