SPECIFICATION Spec
CONSTANTS
    call = call
    hook = hook
    Events = {e}
    Listeners = {t1}
    Schedules = {s}
    Calls <- NoCalls
    Instances = {i1}
    Nothing = Nothing
    MaxAttempts = 2
    MaxTicks = 1
    Upsets = {"toggle","error"}
    MaxUpsets = 2
INVARIANTS TargetResumed
CHECK_DEADLOCK FALSE
