SPECIFICATION ApiFairSpec
CONSTANTS
    r1 = r1
    r2 = r2
    ann = ann
    ANN = ANN
    bob = bob
    annName = annName
    bobName = bobName
    NoRow = NoRow
    NoCommand = NoCommand
    Emails <- MCEmails
    Names <- MCNames
    NormalizedName <- MCNormalizedName
    UserIds <- MCRequests
    Flaws <- MCAllFlaws
    MaxFailed = 1
    NoToken = NoToken
    MaxStamp = 2
    LoggerMayFail = TRUE
    DatabaseMayFail = TRUE
    MayCrash = TRUE
CHECK_DEADLOCK FALSE
INVARIANTS
    ApiTypeOK
    InfoIsOwn
PROPERTIES
    ImplementsFairRegistry
