CONSTANTS
    None = None
    ReplicationSet <- AllServices
    NumProvableReplicas <- SameQuorum
    Requests = {1, 2, 3}
    Services = {s1, s2}
    Quorum = 1
    Unchanged = {2}
    Workers = {w1, w2}
    NoConnection = {s1, s2}
    NoStore = {s1, s2}
    NoBlocks = {1}
    Threads = {a}
SPECIFICATION Spec
CHECK_DEADLOCK FALSE
INVARIANTS HandedOnIsReplicated HandedOnOnce FailureIsFinal CountedOncePerService
SYMMETRY Alike
