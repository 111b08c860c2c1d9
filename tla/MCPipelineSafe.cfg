SPECIFICATION Spec
CONSTANTS
    ExecutedKinds <- MCAllKinds
    SentKinds <- MCAllKinds
    MaxCalls = 3
    NoRequest = NoRequest
CHECK_DEADLOCK FALSE
INVARIANTS
    TypeOK
    HandlersAreGuarded
    CommandsAreAtomic
    LogTellsTheOutcome
