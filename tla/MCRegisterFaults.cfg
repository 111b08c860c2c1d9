SPECIFICATION Spec
CONSTANTS
    r1 = r1
    r2 = r2
    r3 = r3
    ann = ann
    ANN = ANN
    bob = bob
    annName = annName
    bobName = bobName
    NoRow = NoRow
    NoCommand = NoCommand
    Emails <- MCEmails
    Names <- MCNames
    NormalizedName <- MCNormalizedName
    UserIds <- MCRequests
    Flaws <- MCAllFlaws
    MaxFailed = 2
    LoggerMayFail = TRUE
    DatabaseMayFail = TRUE
    MayCrash = TRUE
SYMMETRY MCSymmetry
CHECK_DEADLOCK FALSE
INVARIANTS
    TypeOK
    UniqueUserName
    CreatedIsDurable
    RefusedWriteStaysRefused
    BadRequestLeavesNothing
    LogImpliesRow
    IInv
PROPERTIES
    NothingUndone
    ImplementsRegistry
