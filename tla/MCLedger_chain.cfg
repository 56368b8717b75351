CONSTANTS
    e1 = e1
    e2 = e2
    m1 = m1
    m2 = m2
    None = None
    Nodes = {n1, n2}
    Keys = {}
    FlagValues = {FALSE}
    Measurements = {m1}
    Enclaves = {e1}
    Measurement <- OneMeasurement
    Creators = {p1}
    Contracts = {c1, c2}
    Hashes = {h1, h2, h3}
    Metadata = {d1}
    MaxUncommitted = 2
    MaxEvaluations = 3
    MaxInfos = 1
SPECIFICATION Spec
CHECK_DEADLOCK FALSE
INVARIANTS UnforkedHistories HistoryComplete  CausallyClosed
PROPERTIES CommittedKept ImplementsStateChain
SYMMETRY StateSymmetry
