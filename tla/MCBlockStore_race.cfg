CONSTANTS
    None = None
    Blocks = {b1, b2}
    Clients = {c1}
    Durations = {2}
    MaxDuration = 0
    MinimumTime = 1
    MinimumDuration = 1
    SyncDuration = 2
    MaxTime = 4
SPECIFICATION Spec
INVARIANTS ExpiredOnly
