SPECIFICATION Spec
CONSTANTS
    Param = Param
    Each = Each
    Null = Null
    Freed = Freed
    Global = {g}
    Local = {a}
    Scalar = {s}
    Box = {b1, b2, b3}
    List = {l1, l2}
    MaxLength = 2
    Precaution = {"acyclic", "update", "loop", "plain", "collection"}
INVARIANTS
    TypeOK
    SharedListsPlain
    IteratorFollowsCollection
    ResolveEnds
SYMMETRY Symmetry
PROPERTIES
    ImplementsStore
