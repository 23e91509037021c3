SPECIFICATION Spec
CONSTANTS
    a = a
    b = b
    r1 = r1
    bad = bad
    Path = {a, b}
    Rule = {r1}
    Invalid = {}
    Http = {h1}
    Signal = {}
    FirstFiles <- OneWatch
    AdminFiles <- NoAdmin
    MaxWatches = 2
    MaxEdits = 2
    MaxLoads = 1
    MaxStarts = 1
INVARIANT AddedWatchStays
