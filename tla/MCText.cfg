SPECIFICATION Spec
CONSTANTS
    Character <- MCCharacter
    Joined <- MCJoined
    Blank <- MCBlank
    NewLine <- MCBlank
    Upper <- MCUpper
    Lower <- MCLower
    Buffer = {b1, b2, b3, b4}
    Static = static
    Self = "s"
    Other = "t"
    Index <- MCIndex
    Count <- MCCount
    MinCapacity = 2
    MaxSize = 3
    MaxOther = 2
    Null = Null
    Error = Error
    Hangs = Hangs
    Precaution = {"empty", "grapheme", "self", "split", "exact"}
SYMMETRY BufferSymmetry
VIEW WithoutCall
INVARIANT BuffersSound
PROPERTY ImplementsTexts
CHECK_DEADLOCK FALSE
