SPECIFICATION FairSpec
CONSTANTS
    RequestIds = {i1, i2}
    NoRequestId = NoRequestId
    Servers = {s1, s2}
    NoServer = NoServer
    NoDevice = NoDevice
    NoOutage = NoOutage
    AuditLimit = 7
    Events = {e1, e2}
    Window = 1
    MaxRevision = 1
    MaxResets = 1
    MaxFailures = 2
INVARIANTS
    UncertainIsRemembered
    AckedIsDurable
PROPERTIES
    NoSecondSubscription
    UncertainIsReconciled
