SPECIFICATION Spec
CONSTANTS
    ServiceCount = 1
    HostCount = 1
    FailureSamples = 2
    Outage = 1
    Recovery = 0
    Cooldown = 2
    Day = 3
    DailyBudget = 2
    Retention = 3
    CompactAt = 2
    MaxIntents = 3
    MaxTime = 5
    MaxFaults = 0

PROPERTIES
    RecoveryIsSustained
\* A journal that does not parse ends the watchdog: it really may stop.
CHECK_DEADLOCK FALSE
