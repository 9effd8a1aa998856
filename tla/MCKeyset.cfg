CONSTANTS
    Materials = {m1, m2}
    Admins = {a1, a2}
    Readers = {r1}
    None = None
    Window = 2
    MaxTime = 2
    MaxVersion = 3
SPECIFICATION FairSpec
INVARIANTS VersionIdentifiesKeyset RevocationSticks NoLateReport
PROPERTIES StartsUnrevoked StartEnds
CHECK_DEADLOCK FALSE
