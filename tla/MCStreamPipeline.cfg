SPECIFICATION FairSpec
CONSTANTS
    Modes <- MCModes
    None = None
    MaxTokens = 7
    MaxChunk = 4
    MaxComments = 1
INVARIANTS ReceiptCoversExchange VisibleIdResolves TerminalIsEarned
PROPERTIES
    CompleteStreamIsReceipted
CHECK_DEADLOCK FALSE
