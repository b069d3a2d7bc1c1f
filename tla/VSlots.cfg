SPECIFICATION Spec
CONSTANTS
    Jobs = {j1, j2}
    NoJob = NoJob
    MaxPid = 2
    MaxLines = 0
    MaxAttachFailures = 2
    Outcomes = {"failed"}
    Faults = {"lease"}
    MaxFaults = 1
    MaxRequests = 1
SYMMETRY JobSymmetry
INVARIANT SlotGivenBackOnce
CHECK_DEADLOCK FALSE
