SPECIFICATION FairSpec
CONSTANTS
    Tasks = {t1, t2}
    NoTask = NoTask
    Threads = {th1, th2}
    MaxRecords = 1
    Retention = 1
    MaxRuns = 3
    MaxTime = 4
    MaxFailures = 2
INVARIANTS
    SubmittedOnce
    RunIsTheTasks
    TerminalIsOver
PROPERTIES
    RunIsFound
CHECK_DEADLOCK FALSE
