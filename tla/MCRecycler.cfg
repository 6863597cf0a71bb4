SPECIFICATION FairSpec
CONSTANTS
    cls = cls
    a = a
    b = b
    c = c
    Object = {cls, a, b, c}
    Class = cls
    Nil = Nil
    Threshold = 2
    MaxHandles = 1
    MaxItems = 1
CHECK_DEADLOCK FALSE
INVARIANTS
    TypeOK
    MemorySafe
    CountsExact
    ColorsAtRest
    FoundIsGarbage
PROPERTIES
    ReleaseReturns
