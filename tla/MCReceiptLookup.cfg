CONSTANTS
    ReceiptIds = {"r1", "x"}
    ChatIds = {"x", "c1"}
    Owners = {o1, o2}
    None = None
    Ttl = 2
    MaxTime = 4
    MaxLag = 1
    Handlers = {h1}
SPECIFICATION LookupSpec
INVARIANTS IndexesAgree 
PROPERTIES KeepsReceipts
CHECK_DEADLOCK FALSE
