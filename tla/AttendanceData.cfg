SPECIFICATION DataSpec
CONSTANTS
    Days = {d1, d2}
    Workers = {w1, w2}
    CutoverDay = d1
    MaxChanges = 3
    MaxFaults = 2
    MaxOrdinary = 1
    MaxRenders = 1
    Ids = {1, 2}
    WorkDays = {1, 2}
    Installed = {TRUE, FALSE}
    Overlap = 1
    MaxTime = 5
    MaxEdits = 2
    MaxHides = 1
    MaxTroubles = 1
    MaxDirect = 1
CONSTRAINT Bounded
INVARIANTS QueueIsRight MirrorIsRight
PROPERTIES LedgerSpec ReviveIsNew DataSettles
CHECK_DEADLOCK FALSE
