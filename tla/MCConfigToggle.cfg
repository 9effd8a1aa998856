CONSTANTS
    u1 = u1
    u2 = u2
    oldOrigin = oldOrigin
    newOrigin = newOrigin
    None = None
    Names = {u1, u2}
    Origins = {oldOrigin, newOrigin}
    Admins = {a1, a2}
    Requests = {}
    Rounds = {w1, w2}
    Inodes = {i1, i2, i3}
    SeedConfig <- MCTwoPlain
    Submitted <- MCNoPut
SPECIFICATION ToggleSpec
INVARIANTS
    TogglesKept
CHECK_DEADLOCK FALSE
