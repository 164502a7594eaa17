SPECIFICATION FairSpec
CONSTANTS
    Jobs = {j1, j2}
    WideJobs = {j2}
    Requests = {}
    NoJob = NoJob
    Updater = Updater
    MaxQueue = 1
    MaxReports = 1
    MaxFaults = 1
INVARIANT NotForgotten
PROPERTIES CarriedOut
CHECK_DEADLOCK FALSE
