SPECIFICATION ApiFairSpec
CONSTANTS
    r1 = r1
    r2 = r2
    ann = ann
    ANN = ANN
    bob = bob
    annName = annName
    bobName = bobName
    NoRow = NoRow
    NoCommand = NoCommand
    Emails <- MCEmails
    Names <- MCNames
    NormalizedName <- MCNormalizedName
    UserIds <- MCRequests
    Flaws <- MCAllFlaws
    MaxFailed = 1
    NoToken = NoToken
    MaxStamp = 3
    LoggerMayFail = FALSE
    DatabaseMayFail = FALSE
    MayCrash = FALSE
CHECK_DEADLOCK FALSE
INVARIANTS
    ServerErrorHasACause
PROPERTIES
    WellFormedNameGetsAccount
