SPECIFICATION Spec
CONSTANTS
    Param = Param
    Each = Each
    Null = Null
    Freed = Freed
    Global = {g}
    Local = {a}
    Scalar = {s, t}
    Box = {b1, b2, b3}
    List = {l1, l2, l3}
    MaxLength = 1
    Precaution = {"acyclic", "loop", "plain", "collection"}
PROPERTIES
    ItemAssigned
