CONSTANTS
    None = None
    Saved = Saved
    Other = Other
    c1 = c1
    ReplicationSet <- AllServices
    NumProvableReplicas <- SameQuorum
    ContractOf <- OneContract
    OldState <- Predecessor
    Dependencies <- NoDependencies
    Requests = {1, 2}
    Services = {s1, s2}
    Quorum = 1
    Unchanged = {}
    Workers = {1}
    NoConnection = {s2}
    NoStore = {s2}
    NoBlocks = {}
    Threads = {a}
    Contracts = {c1}
    OtherClients = FALSE
    LedgerFaults = FALSE
SPECIFICATION Spec
CHECK_DEADLOCK FALSE
PROPERTIES WaitForCommitEnds
