SPECIFICATION LiveSpec
CONSTANTS
    Jobs = {j1, j2, j3, j4}
    NoJob = NoJob
    MaxPid = 3
    MaxLines = 0
    MaxAttachFailures = 2
    Outcomes = {"completed", "pr_opened"}
    Faults = {"crash", "setup", "drop", "stream", "pod", "stall"}
    MaxFaults = 2
    MaxRequests = 0
PROPERTY ActiveRunEnds
CHECK_DEADLOCK FALSE
