SPECIFICATION Spec
CONSTANTS
    a = a
    b = b
    c = c
    Tasks = {a,b}
    Wanted <- WantedByC
    Unknown = {}
    Edits <- BothWays
    Limits <- OneLimit
    Workers = {w1}
    NoTask = NoTask
    Passes = {r1}
    MaxJobs = 1
    Upsets = {"link"}
    MaxUpsets = 2
INVARIANTS NoCycle
CHECK_DEADLOCK FALSE
