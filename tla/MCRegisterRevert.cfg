SPECIFICATION Spec
CONSTANTS
    r1 = r1
    r2 = r2
    r3 = r3
    ann = ann
    ANN = ANN
    bob = bob
    annName = annName
    bobName = bobName
    NoRow = NoRow
    NoCommand = NoCommand
    Emails <- MCEmails
    Names <- MCNames
    NormalizedName <- MCNormalizedName
    UserIds <- MCTwoRequests
    Flaws <- MCNoFlaws
    MaxFailed = 0
    LoggerMayFail = TRUE
    DatabaseMayFail = FALSE
    MayCrash = FALSE
CHECK_DEADLOCK FALSE
INVARIANTS
    ExceptionReverts
