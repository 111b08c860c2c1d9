SPECIFICATION FairSpec
CONSTANTS
    a1 = a1
    a2 = a2
    v1 = v1
    v2 = v2
    Aggregates <- MCAggregates
    Values <- MCValues
    Absent = Absent
    MaxEvents = 3
    DatabaseMayFail = TRUE
    AnswerMayBeLost = TRUE
CHECK_DEADLOCK FALSE
INVARIANTS
    TypeOK
    AllOrNothing
    EventsOnceInOrder
    EventsAreKept
PROPERTIES
    RevertLeavesNothing
    DeletedStaysDeleted
    ImplementsCommand
    Terminates
