SPECIFICATION FairSpec
CONSTANTS
    Sessions = {s1, s2}
    MaxRuns = 1
INVARIANTS
    ManagedSessionIsDriven
    NoBufferReuse
    TimerNeverRearmedWhileArmed
    NoSessionAfterStop
    AcceptLoopAlive
PROPERTIES
    NoLateReply
    SessionsEnd
    ShutdownDrains
