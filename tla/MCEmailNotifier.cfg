SPECIFICATION FairSpec
CONSTANTS
    e1 = e1
    e2 = e2
    e3 = e3
    x = x
    y = y
    bad = bad
    Event = {e1, e2, e3}
    Recipients <- Mixed
    BadAddress = {bad}
    BatchSizes = {0, 2}
    MaxPerMinute = 1
    Minute = 2
    MaxTime = 2
INVARIANTS
    HeldOnce
    NoEmptyMail
    FullBatchesLeave
    LoneSendersThrottled
PROPERTY
    TasksEnd
CHECK_DEADLOCK FALSE
