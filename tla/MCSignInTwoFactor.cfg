SPECIFICATION Spec
CONSTANTS
    Attempts = {a1}
    Passwords = {p, q}
    InitialPassword = p
    MaxFailedAccess = 2
    MayFail = FALSE
    NoAsk = NoAsk
CHECK_DEADLOCK FALSE
INVARIANTS
    LoggedInMeansSignedIn
