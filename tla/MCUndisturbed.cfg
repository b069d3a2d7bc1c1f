SPECIFICATION Undisturbed
CONSTANTS
    Jobs = {j1, j2, j3}
    NoJob = NoJob
    MaxPid = 2
    MaxLines = 1
    MaxAttachFailures = 1
    Outcomes = {"completed", "failed"}
    Faults = {"lease", "stream", "stall", "shutdown", "pod"}
    MaxFaults = 1
    MaxRequests = 1
SYMMETRY JobSymmetry
INVARIANTS
    CompletedIsWhole
    StreamsOwnOutput
    NoOrphan
    OneAgent
CHECK_DEADLOCK FALSE
