SPECIFICATION Spec
CONSTANTS
    cls = cls
    a = a
    b = b
    c = c
    Object = {cls, a, b, c}
    Class = cls
    Nil = Nil
    Threshold = 2
    MaxHandles = 2
    MaxItems = 1
CHECK_DEADLOCK FALSE
SYMMETRY Symmetry
INVARIANTS
    LiveNotFreed
