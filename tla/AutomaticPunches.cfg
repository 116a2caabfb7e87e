SPECIFICATION AutomaticSpec
CONSTANTS
    OutAt = 2
    InAt = 4
    FlexAfter = 1
    FlexLen = 2
    MaxTime = 5
    MaxPunches = 3
    MaxFaults = 1
    DayOver = 5
    MaxDayFaults = 1
    MaxEdits = 1
CONSTRAINT Bounded
INVARIANTS LunchIsRight 
PROPERTIES ClosedStaysClosed AutomationsEnd
CHECK_DEADLOCK FALSE
