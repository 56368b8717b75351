\* three requests for two enclaves
CONSTANTS
    NumOfEnclaves = 2
    Requests = {r1, r2, r3}
    Failing = {r1}
    None = None
SPECIFICATION FairSpec
INVARIANTS TypeOK EnclavesKept InterpreterIsMine OwnResponse
PROPERTIES EveryRequestEnds
CHECK_DEADLOCK FALSE
