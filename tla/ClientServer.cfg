SPECIFICATION Spec
CONSTANTS
    RequestPieces = 3
    ReplyPieces = 4
INVARIANTS
    Answered
    CutShortOnlyByGivingUp
PROPERTIES
    BothEnd
CHECK_DEADLOCK FALSE
