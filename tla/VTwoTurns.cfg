SPECIFICATION Spec
CONSTANTS
    Messages = {m1}
    Jobs = {j1,j2}
    NoJob = NoJob
    Passes = {r1}
    MaxTurns = 3
    FailureLimit = 2
    Intents = {"restart"}
    MaxIntents = 1
    Faults = {}
    MaxFaults = 0
INVARIANTS OneTurn
CHECK_DEADLOCK FALSE
