SPECIFICATION Spec
CONSTANTS
    Attempts = {a1, a2, a3}
    Passwords = {p, q}
    InitialPassword = p
    MaxFailedAccess = 2
    MayFail = TRUE
    NoAsk = NoAsk
SYMMETRY AttemptSymmetry
CHECK_DEADLOCK FALSE
INVARIANTS
    TypeOK
    TokenUsedOnce
    LogTellsTheTruth
    AnswersAreTrue
PROPERTIES
    NothingRestored
    ImplementsCredentials
