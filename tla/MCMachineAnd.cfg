SPECIFICATION Spec
CONSTANTS
    Sessions <- CarelessSessions
    Programs <- CarelessPrograms
    Module <- CarelessModule
    Mean <- MCMean
    Readable <- MCReadable
INVARIANT ReturnAboveLocals
