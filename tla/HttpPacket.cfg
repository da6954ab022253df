SPECIFICATION MCSpec
CONSTANTS
    Types = {"HTTP_REQUEST", "HTTP_RESPONSE"}
    Lexemes <- AllWritten
    Requests <- MCRequests
    Replies <- MCReplies
    MaxBytes = 100
    HTTP_MAX_HEADER_SIZE = 200
    ULLONG_MAX = 63
    MethodString <- MCMethodString
    FirstMethod <- MCFirstMethod
    MethodSwitch <- MCMethodSwitch
    Keyword <- MCKeyword
    MaxCalls = 4
    MaxMessages = 1
INVARIANTS
    GoodAtTheEnd
    MessageIsReadBack
CHECK_DEADLOCK FALSE
