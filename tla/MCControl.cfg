SPECIFICATION LiveSpec
CONSTANTS
    Messages = {m1}
    Jobs = {j1,j2}
    NoJob = NoJob
    Passes = {r1}
    MaxTurns = 3
    FailureLimit = 2
    Intents = {"pause","resume","restart","archive"}
    MaxIntents = 1
    Faults = {"lease","stall"}
    MaxFaults = 1
PROPERTY TurnsGiveBack
CHECK_DEADLOCK FALSE
