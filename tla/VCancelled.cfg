SPECIFICATION Spec
CONSTANTS
    Passes = {r1}
    MaxJobs = 1
    AutoResume = TRUE
    MaxAutoResumes = 1
    AutoMerge = FALSE
    Requests = {"cancel"}
    MaxRequests = 1
    Faults = {}
    MaxFaults = 0
INVARIANTS CancelledHasStopped
CHECK_DEADLOCK FALSE
