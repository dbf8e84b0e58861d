SPECIFICATION Spec
CONSTANTS
    RequestIds = {i1, i2}
    Devices = {d1, d2}
    Outages = {o1, o2}
    NoOutage = NoOutage
    NoDevice = NoDevice
    NoRequestId = NoRequestId
    Operations = {"power", "outage_recovery", "host_recovery", "event_push"}
    Servers = {s1, s2}
    NoServer = NoServer
    Cooldown = 1
    Day = 2
    DailyBudget = 1
    AuditLimit = 4
    MaxTime = 3
SYMMETRY Symmetry
INVARIANTS
    RequestCommandedOnce
    IntentIsDurable
    AnswersAgree
    RecoveryFenced
