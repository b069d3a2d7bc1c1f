SPECIFICATION Spec
CONSTANTS
    Messages = {m1}
    Jobs = {j1,j2}
    NoJob = NoJob
    Passes = {r1}
    MaxTurns = 4
    FailureLimit = 3
    Intents = {"pause","resume","restart"}
    MaxIntents = 1
    Faults = {"setup"}
    MaxFaults = 1
PROPERTY RestsUntilResumed
CHECK_DEADLOCK FALSE
