SPECIFICATION Spec
CONSTANTS
    a1 = a1
    a2 = a2
    v1 = v1
    v2 = v2
    Aggregates <- MCOneAggregate
    Values <- MCValues
    Absent = Absent
    MaxEvents = 0
    DatabaseMayFail = FALSE
    AnswerMayBeLost = FALSE
CHECK_DEADLOCK FALSE
INVARIANTS
    RevertClearsAllPendingChanges
