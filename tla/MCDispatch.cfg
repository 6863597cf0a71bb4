SPECIFICATION Spec
CONSTANTS
    Object = Object
    Number = Number
    Integer = Integer
    String = String
    int_num = int_num
    num_int = num_int
    int = int
    int2 = int2
    ref_str = ref_str
    num_ref = num_ref
    int_num_obj = int_num_obj
    f = f
    g = g
    Class <- MCNumeric
    Base <- MCBase
    Null = Null
    Func = {f,g}
    Closure = {int_num, num_int, int, int2, num_ref}
    Signature <- MCSignature
    RefFlags <- MCRefFlags
    NoClosure = NoClosure
    MaxArgs = 2
    MaxNested = 2
SYMMETRY Symmetry
INVARIANTS
    TypeOK
    SortedByArity
    SignaturesDistinct
    ReferenceConsistent
    CheapestSelected
    PassedAsDeclared
