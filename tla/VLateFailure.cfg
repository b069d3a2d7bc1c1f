SPECIFICATION Spec
CONSTANTS
    Jobs = {j1, j2}
    NoJob = NoJob
    MaxPid = 1
    MaxLines = 0
    MaxAttachFailures = 2
    Outcomes = {"failed"}
    Faults = {"setup"}
    MaxFaults = 1
    MaxRequests = 1
SYMMETRY JobSymmetry
PROPERTY FailsOnlyOwnRun
CHECK_DEADLOCK FALSE
