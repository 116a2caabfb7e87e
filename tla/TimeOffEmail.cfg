SPECIFICATION FairSpec
CONSTANTS
    Workers = {w1, w2}
    NoWorker = NoWorker
    MaxCalls = 4
    MaxFaults = 2
    MaxChanges = 4
    MaxLosses = 1
CHECK_DEADLOCK FALSE
INVARIANTS
    TypeOK
    OneMailOnRecord
    StatusIsTrue
PROPERTIES
    SettledStays
    OpenOnlyIfLost
