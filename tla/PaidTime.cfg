SPECIFICATION PaidSpec
CONSTANTS
    Procs = {"g1", "g2"}
    Excess = 3
    Tol = 1
    MaxDur = 6
    Edits = {"duration", "validate", "regenerate"}
    MaxEdits = 1
    MaxFaults = 2
    MaxAttempts = 2
    Workers = {"w1", "w2"}
    MaxPto = 2
    MaxDays = 2
    MaxPtoFaults = 2
    MaxOutside = 1
    MaxSubmits = 2
    Rollover = TRUE
CONSTRAINT Bounded
INVARIANTS ConversionIsRight PayrollIsRight
PROPERTIES PaidDayStays UndoneStaysUndone CorrectedIsNoop PaidTimeSettles
CHECK_DEADLOCK FALSE
