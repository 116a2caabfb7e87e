SPECIFICATION FeedbackSpec
CONSTANTS
    Workers = {"w1", "w2"}
    MaxAttempts = 2
    MaxRows = 3
    MaxFaults = 3
    MaxOutside = 1
    MaxReleases = 1
    MaxSupersedes = 1
    MaxResends = 1
    SlowOdoo = TRUE
    Batches = {"w1", "w2"}
    MaxTasks = 4
    MaxCopies = 4
    MaxTroubles = 4
    MaxContract = 2
    MaxReplays = 1
    Image = TRUE
INVARIANTS SyncIsRight TasksAreRight
PROPERTIES AmbiguousIsHeld FeedbackEnds
CHECK_DEADLOCK FALSE
