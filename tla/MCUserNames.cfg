SPECIFICATION Spec
CONSTANTS
    Chars <- MCChars
    Letters <- MCLetters
    Space <- MCSpace
    Newline <- MCNewline
    Upper <- MCUpper
    Inputs <- MCInputs
    NoText = NoText
CHECK_DEADLOCK FALSE
INVARIANTS
    TypeOK
    UserCanBeLoaded
    SavedUpToCase
    RevertedUpToCase
