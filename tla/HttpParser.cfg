SPECIFICATION MCSpec
CONSTANTS
    Types = {"HTTP_REQUEST", "HTTP_RESPONSE", "HTTP_BOTH"}
    Lexemes <- AllLexemes
    MaxBytes = 3
    HTTP_MAX_HEADER_SIZE = 35
    ULLONG_MAX = 63
    MethodString <- MCMethodString
    FirstMethod <- MCFirstMethod
    MethodSwitch <- MCMethodSwitch
    Keyword <- MCKeyword
INVARIANTS
    AssertsHold
    BodyIsWhole
    OneFraming
    HeadersAreLimited
    EveryByteIsTaken
PROPERTIES
    LengthsAreExact
    CallbacksInOrder
