SPECIFICATION Spec
CONSTANTS
    Passes = {r1,r2}
    MaxJobs = 1
    AutoResume = TRUE
    MaxAutoResumes = 1
    AutoMerge = TRUE
    Requests = {"push","rebase","merge","cancel"}
    MaxRequests = 1
    Faults = {}
    MaxFaults = 0
INVARIANTS MergesChecked
PROPERTIES ResumesWithinLimit
SYMMETRY PassSymmetry
CHECK_DEADLOCK FALSE
