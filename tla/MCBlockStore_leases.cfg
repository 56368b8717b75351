CONSTANTS
    None = None
    Blocks = {b1}
    Clients = {c1, c2}
    Durations = {0, 3}
    MaxDuration = 2
    MinimumTime = 1
    MinimumDuration = 1
    SyncDuration = 2
    MaxTime = 4
SPECIFICATION Spec
INVARIANTS TypeOK DatabasesAgree LeaseKept SyncComplete
PROPERTIES ExpiredAreCollected
