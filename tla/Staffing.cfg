SPECIFICATION StaffingSpec
CONSTANTS
    People = {"p1", "p2", "p3"}
    Centers = {"ca", "cb"}
    Skills <- MCSkills
    Movable = {"p1"}
    MaxOpen = 2
    MaxSaves = 2
    MaxTimeOff = 1
    Volunteers = 3
    WorkCenters = 3
    MaxSlots = 2
    Threads = {"t1", "t2"}
    Ops = {"read", "save", "publish", "unpublish", "api", "share", "toggle",
           "hours", "absent", "delete", "seed"}
    MaxOps = 4
    MaxVer = 2
CONSTRAINT Bounded
INVARIANTS  MatchingIsRight ScheduleIsRight
PROPERTIES ClosedIsFrozen 
CHECK_DEADLOCK FALSE
