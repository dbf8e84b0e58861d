SPECIFICATION FairSpec
CONSTANTS
    Kinds = {"server", "tracey"}
    Handlers = {h1}
    QueueLimit = 1
    BatchLimit = 1
    Second = 2
    MaxChanges = 1
    MaxEvents = 3
    MaxTime = 3
    MaxFailures = 2
INVARIANTS
    BacklogIsBounded
    NoEventVanishes
    EventsKeepOrder
    CleanStopSaves
PROPERTIES
    ChangesReachDisk
    StopEnds
CHECK_DEADLOCK FALSE
