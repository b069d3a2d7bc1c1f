SPECIFICATION LiveSpec
CONSTANTS
    Messages = {m1,m2}
    Jobs = {j1,j2}
    NoJob = NoJob
    Passes = {r1}
    MaxTurns = 3
    FailureLimit = 2
    Intents = {}
    MaxIntents = 0
    Faults = {"crash","setup","stream","pod","reap","attach"}
    MaxFaults = 1
ACTION_CONSTRAINT Prompt
INVARIANTS TypeOK NothingLost OneTurn
PROPERTIES InboxSpec TurnsEnd EveryMessageRead
CHECK_DEADLOCK FALSE
