SPECIFICATION LiveSpec
CONSTANTS
    Passes = {r1}
    MaxJobs = 1
    AutoResume = TRUE
    MaxAutoResumes = 1
    AutoMerge = FALSE
    Requests = {}
    MaxRequests = 0
    Faults = {}
    MaxFaults = 0
PROPERTIES FailureIsActedOn
CHECK_DEADLOCK FALSE
