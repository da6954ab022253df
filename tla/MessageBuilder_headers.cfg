SPECIFICATION MCSpec
CONSTANTS
    Types = {"HTTP_REQUEST", "HTTP_RESPONSE"}
    Lexemes <- AllLexemes
    MaxBytes = 6
    HTTP_MAX_HEADER_SIZE = 31
    ULLONG_MAX = 63
    MethodString <- MCMethodString
    FirstMethod <- MCFirstMethod
    MethodSwitch <- MCMethodSwitch
    Keyword <- MCKeyword
    MaxCalls = 3
    MaxMessages = 1
INVARIANTS
    HeadersAreWhole
CHECK_DEADLOCK FALSE
