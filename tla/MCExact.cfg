SPECIFICATION Spec
CONSTANTS
    Jobs = {j1, j2, j3}
    NoJob = NoJob
    MaxPid = 2
    MaxLines = 1
    MaxAttachFailures = 2
    Outcomes = {"completed"}
    Faults = {"crash", "lease"}
    MaxFaults = 1
    MaxRequests = 1
SYMMETRY JobSymmetry
INVARIANTS
    TypeOK
    LogExact
    SpendOnce
    StartsFresh
    HolderHasAgent
PROPERTY
    LedgerSpec
CHECK_DEADLOCK FALSE
