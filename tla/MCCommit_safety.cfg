CONSTANTS
    None = None
    Saved = Saved
    Other = Other
    c1 = c1
    ReplicationSet <- AllServices
    NumProvableReplicas <- SameQuorum
    ContractOf <- OneContract
    OldState <- Predecessor
    Dependencies <- NoDependencies
    Requests = {1, 2}
    Services = {s1, s2}
    Quorum = 2
    Unchanged = {}
    Workers = {1}
    NoConnection = {}
    NoStore = {s2}
    NoBlocks = {}
    Threads = {a}
    Contracts = {c1}
    OtherClients = TRUE
    LedgerFaults = TRUE
SPECIFICATION Spec
CHECK_DEADLOCK FALSE
INVARIANTS RecordedIsReplicated AnswerIsRight
PROPERTIES ImplementsTransactions
