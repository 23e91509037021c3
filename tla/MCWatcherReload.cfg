SPECIFICATION FairSpec
CONSTANTS
    a = a
    b = b
    r1 = r1
    bad = bad
    Path = {a, b}
    Rule = {r1, bad}
    Invalid = {bad}
    Http = {h1}
    Signal = {s}
    FirstFiles <- OneWatch
    AdminFiles <- TwiceTheSame
    MaxWatches = 2
    MaxEdits = 1
    MaxLoads = 2
    MaxStarts = 2
INVARIANT OneWatcherPerPath
INVARIANT GaugeAccounts
INVARIANT PendingReloadExact
PROPERTY KeptWatcherNotRestarted
PROPERTY LoneReloadConverges
PROPERTY ReloadEnds
