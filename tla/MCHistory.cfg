SPECIFICATION FairHistorySpec
CONSTANTS
    NumHosts = 1
    PageSize = 1
    CheckpointEvery = 1
    FreshFor = 1
    MaxBoots = 3
    MaxResets = 2
    MaxClock = 2
    MaxFailures = 2
INVARIANTS
    CheckpointIsBehindJournal
    PagesAreComplete
PROPERTIES
    BootIsReported
