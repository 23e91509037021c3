SPECIFICATION Spec
CONSTANTS
    e1 = e1
    e2 = e2
    e3 = e3
    x = x
    y = y
    bad = bad
    Event = {e1, e2, e3}
    Recipients <- OneEach
    BadAddress = {bad}
    BatchSizes = {0}
    MaxPerMinute = 1
    Minute = 3
    MaxTime = 1
INVARIANT
    ThrottleHolds
CHECK_DEADLOCK FALSE
