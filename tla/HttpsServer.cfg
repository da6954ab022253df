SPECIFICATION FairSpec
CONSTANTS
    Sessions = {s1, s2}
    MaxRuns = 1
INVARIANTS
    OneOperation
    NoSessionForgotten
PROPERTIES
    NoLateReply
    SessionsEnd
    ShutdownDrains
