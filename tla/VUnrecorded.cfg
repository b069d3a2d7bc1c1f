SPECIFICATION Spec
CONSTANTS
    Jobs = {j1, j2}
    NoJob = NoJob
    MaxPid = 2
    MaxLines = 0
    MaxAttachFailures = 2
    Outcomes = {"failed"}
    Faults = {"setup"}
    MaxFaults = 1
    MaxRequests = 0
SYMMETRY JobSymmetry
INVARIANT LeftAgentSignalled
CHECK_DEADLOCK FALSE
