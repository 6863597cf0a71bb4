SPECIFICATION Spec
CONSTANTS
    Number = {1, 2}
    Object = {o}
    Box = {b}
    Null = Null
    Ref = Ref
    Var = Var
    MinCapacity = 2
    MaxSize = 3
    Precaution = {"stale", "last", "alias", "empty", "compare"}
INVARIANTS TypeOK CountsExact SpareSlotsNull
PROPERTY ImplementsList
CHECK_DEADLOCK FALSE
