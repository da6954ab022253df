SPECIFICATION BothSpec
INVARIANTS
    OnlyResolveOutlivesVerdict
    SocketClosedAtEnd
    TlsToldBeforeBlocking
PROPERTIES
    ImplementsContract
    ClientEnds
    TlsLateRequest
    TlsImplementsContract
CHECK_DEADLOCK FALSE
