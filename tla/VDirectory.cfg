SPECIFICATION Spec
CONSTANTS
    Jobs = {j1, j2}
    NoJob = NoJob
    MaxPid = 2
    MaxLines = 0
    MaxAttachFailures = 2
    Outcomes = {"failed"}
    Faults = {}
    MaxFaults = 0
    MaxRequests = 1
SYMMETRY JobSymmetry
PROPERTY RemovesFinishedDirectory
CHECK_DEADLOCK FALSE
