SPECIFICATION LiveSpec
CONSTANTS
    a = a
    b = b
    c = c
    Tasks = {a,c}
    Wanted <- WantedByC
    Unknown = {}
    Edits <- NoEdits
    Limits <- OneLimit
    Workers = {w1}
    NoTask = NoTask
    Passes = {r1}
    MaxJobs = 1
    Upsets = {"cancel","retry","boot","crash","setup","read"}
    MaxUpsets = 2
INVARIANTS TypeOK WaitedForParents
PROPERTIES TasksMoveOn
CHECK_DEADLOCK FALSE
