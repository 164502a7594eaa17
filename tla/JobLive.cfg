SPECIFICATION FairSpec
CONSTANTS
    Jobs = {j1}
    WideJobs = {}
    Requests = {r1}
    NoJob = NoJob
    Updater = Updater
    MaxQueue = 2
    MaxReports = 0
    MaxFaults = 1
INVARIANT CancelFollowsSubmit
PROPERTIES CarriedOut
CHECK_DEADLOCK FALSE
