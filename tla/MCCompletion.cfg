CONSTANTS
    Requests = {r1, r2}
    Messages = {m1, m2}
    None = None
    Window = 2
    Timestamps = {0, 3, 5}
    MaxTime = 4
SPECIFICATION CompletionSpec
SYMMETRY Symmetry
INVARIANTS NamedReceiptIsStored 
 
CHECK_DEADLOCK FALSE
