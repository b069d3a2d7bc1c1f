SPECIFICATION LiveSpec
CONSTANTS
    Passes = {r1}
    MaxJobs = 1
    AutoResume = TRUE
    MaxAutoResumes = 1
    AutoMerge = TRUE
    Requests = {"close","retry","restart"}
    MaxRequests = 1
    Faults = {"read","write","crash"}
    MaxFaults = 1
INVARIANTS TypeOK
PROPERTIES SettledIsNoticed QueuedRuns
CHECK_DEADLOCK FALSE
