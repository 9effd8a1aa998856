CONSTANTS
    None = None
    GatewayDefault = GatewayDefault
    MaxRequests = 2
    MaxTexts = 2
    MaxMerged = 3
SPECIFICATION ConversationSpec
INVARIANTS BlocksInOrder   CandidatesAskAlike
CHECK_DEADLOCK FALSE
