SPECIFICATION Spec
CONSTANTS
    Sessions <- MCSessions
    Programs <- MCPrograms
    Module <- MCModule
    Mean <- MCMean
    Readable <- MCReadable
INVARIANTS TypeOK ParsedAsWritten OutputAsMeant OperandsAboveLocals LoopsBalanced FramesDisjoint QuietWhenIdle
PROPERTY SessionsEnd
