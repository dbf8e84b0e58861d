SPECIFICATION FairSpec
CONSTANTS
    JobIds = {j1, j2}
    Keys = {k1}
    NoKey = NoKey
    NoJobId = NoJobId
    Fingerprints = {f1, f2}
    Clients = {c1}
    Workers = {w1, w2}
    MaximumQueuedJobs = 2
    MaximumRetainedJobs = 4
    MaximumIdempotencyRecords = 1
    JobRetention = 0
    IdempotencyRetention = 1
    MaxTime = 1
INVARIANTS
    AnswersMatchRequest
PROPERTIES
    AdmittedIsSettled
    StopEnds
