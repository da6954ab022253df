SPECIFICATION PacketSpec
CONSTANTS
    Types = {"HTTP_RESPONSE"}
    Lexemes <- WrittenStock
    Requests <- MCRequests
    Replies <- MCReplies
    MaxBytes = 100
    HTTP_MAX_HEADER_SIZE = 200
    ULLONG_MAX = 63
    MethodString <- MCMethodString
    FirstMethod <- MCFirstMethod
    MethodSwitch <- MCMethodSwitch
    Keyword <- MCKeyword
    MaxCalls = 2
    MaxMessages = 1
INVARIANTS
    StockReplyIsRead
CHECK_DEADLOCK FALSE
