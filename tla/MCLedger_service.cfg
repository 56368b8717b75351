CONSTANTS
    e1 = e1
    e2 = e2
    m1 = m1
    m2 = m2
    None = None
    Nodes = {n1, n2}
    Keys = {k1, k2}
    FlagValues = {TRUE, FALSE}
    Measurements = {m1, m2}
    Enclaves = {e1, e2}
    Measurement <- TwoMeasurements
    Creators = {p1, p2}
    Contracts = {c1}
    Hashes = {h1}
    Metadata = {d1}
    MaxUncommitted = 2
    MaxEvaluations = 1
    MaxInfos = 2
SPECIFICATION Spec
CHECK_DEADLOCK FALSE
INVARIANTS ReplyHolds OneLedgerKey RegisteredUnderPolicy ContractEnclaves
SYMMETRY ServiceSymmetry
