SPECIFICATION Spec
CONSTANTS
    JobIds = {j1, j2}
    Keys = {k1, k2}
    NoKey = NoKey
    NoJobId = NoJobId
    Fingerprints = {f1}
    Clients = {c1, c2}
    Workers = {w1, w2}
    MaximumQueuedJobs = 1
    MaximumRetainedJobs = 1
    MaximumIdempotencyRecords = 1
    JobRetention = 0
    IdempotencyRetention = 1
    MaxTime = 2
SYMMETRY Symmetry
INVARIANTS
    LaunchIsOnRecord
    LedgerCoversLaunches
    AvailableIsDurable
PROPERTIES
    KeepsPromise
