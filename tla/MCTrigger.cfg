SPECIFICATION LiveSpec
CONSTANTS
    call = call
    hook = hook
    Events = {e}
    Listeners = {t1}
    Schedules = {s}
    Calls <- OneCall
    Instances = {i1,i2}
    Nothing = Nothing
    MaxAttempts = 1
    MaxTicks = 1
    Upsets = {"toggle","retry","error","crash","tx"}
    MaxUpsets = 2
INVARIANTS TypeOK OneTarget MatchedAll
PROPERTIES TickKept DeliveriesEnd
CHECK_DEADLOCK FALSE
