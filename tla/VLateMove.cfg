SPECIFICATION Spec
CONSTANTS
    Messages = {m1,m2,m3}
    Jobs = {j1,j2}
    NoJob = NoJob
    Passes = {r1}
    MaxTurns = 3
    FailureLimit = 2
    Intents = {}
    MaxIntents = 0
    Faults = {}
    MaxFaults = 0
INVARIANTS OneTurn
CHECK_DEADLOCK FALSE
