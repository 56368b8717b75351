CONSTANTS
    None = None
    Saved = Saved
    Other = Other
    c1 = c1
    c2 = c2
    ContractOf <- ContractOfRequest
    OldState <- OldStateOfRequest
    Dependencies <- DependenciesOfRequest
    Requests = {1, 2, 3, 4}
    Contracts = {c1, c2}
    OtherClients = TRUE
    LedgerFaults = TRUE
    ReplicationFaults = TRUE
SPECIFICATION Spec
CHECK_DEADLOCK FALSE
INVARIANTS TypeOK IdsAreReal KeptIsFounded
