SPECIFICATION Spec
CONSTANTS
    Threads = {t1, t2, t3}
    Sessions = {s1, s2, s3}
    NoThread = nobody
INVARIANTS
    NoneEscapes
PROPERTIES
    ImplementsRegistry
    RemovedIsStopped
