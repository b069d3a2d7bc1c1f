SPECIFICATION Spec
CONSTANTS
    a = a
    b = b
    c = c
    Tasks = {a,b,c}
    Wanted <- WantedByC
    Unknown = {}
    Edits <- Back
    Limits <- TwoLimits
    Workers = {w1,w2}
    NoTask = NoTask
    Passes = {}
    MaxJobs = 1
    Upsets = {"cancel","retry","boot","link","unlink","crash","setup"}
    MaxUpsets = 4
INVARIANTS LimitHeld WaitedForParents
CHECK_DEADLOCK FALSE
