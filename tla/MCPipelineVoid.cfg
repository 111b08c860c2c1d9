SPECIFICATION Spec
CONSTANTS
    ExecutedKinds <- MCVoid
    SentKinds <- MCNone
    MaxCalls = 1
    NoRequest = NoRequest
CHECK_DEADLOCK FALSE
INVARIANTS
    VoidCommandIsCommitted
