SPECIFICATION FairSpec
CONSTANTS
    Tasks = {t1}
    MaxPunches = 3
    MaxTime = 2
    MaxFaults = 1
    MaxFetches = 1
    MaxEdits = 1
    ShiftStart = 2
    ShiftEnd = 9
    InBefore = 1
    InAfter = 0
    OutBefore = 1
    OutAfter = 0
CONSTRAINT Budget
INVARIANTS  KioskShowsLastPunch
PROPERTIES NoSecondClose AllSynced
CHECK_DEADLOCK FALSE
