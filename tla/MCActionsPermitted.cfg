SPECIFICATION Spec
CONSTANTS
    RequestIds = {i1, i2}
    Devices = {d1}
    Outages = {o1}
    NoOutage = NoOutage
    NoDevice = NoDevice
    NoRequestId = NoRequestId
    Operations = {"power", "outage_recovery", "host_recovery", "event_push"}
    Servers = {s1}
    NoServer = NoServer
    Cooldown = 1
    Day = 1
    DailyBudget = 1
    AuditLimit = 4
    MaxTime = 2
SYMMETRY Symmetry
INVARIANTS
    RecoveryPermitted
