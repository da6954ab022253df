SPECIFICATION FairSpec
CONSTANTS
    Sessions = {s1, s2}
    MaxRuns = 1
PROPERTIES
    StopAllReturns
