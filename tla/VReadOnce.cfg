SPECIFICATION Spec
CONSTANTS
    Messages = {m1}
    Jobs = {j1,j2}
    NoJob = NoJob
    Passes = {r1}
    MaxTurns = 4
    FailureLimit = 3
    Intents = {"restart"}
    MaxIntents = 1
    Faults = {}
    MaxFaults = 0
INVARIANT ReadOnce
CHECK_DEADLOCK FALSE
