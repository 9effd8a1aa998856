CONSTANTS
    u1 = u1
    u2 = u2
    oldOrigin = oldOrigin
    newOrigin = newOrigin
    None = None
    Names = {u1, u2}
    Origins = {oldOrigin, newOrigin}
    Admins = {a1}
    Requests = {r1}
    Rounds = {w1, w2}
    Inodes = {i1, i2}
    SeedConfig <- MCSeed
    Submitted <- MCSubmitted
SPECIFICATION Spec
INVARIANTS ReplacementIsAllOrNothing SwapKeepsBinding VerifiedInBackground
SYMMETRY Symmetry
