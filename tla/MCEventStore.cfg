SPECIFICATION FairSpec
CONSTANTS
    Client = {c1}
    MaxRow = 3
    Matching = {1, 2, 3}
    Stamp <- Stamps
    After <- Begin
    Before <- End
    PerPage = 1
    Capacity = 1
    FirstVersions = {0, 1}
    MaxStarts = 2
CHECK_DEADLOCK FALSE
INVARIANT RunningOnCurrentSchema
INVARIANT OnlyMigrationKills
INVARIANT InsertIsTold
INVARIANT PagePresent
INVARIANT BrowseComplete
PROPERTY CallsEnd
