SPECIFICATION Spec
CONSTANTS
    Workers = {w1, w2}
    NumOps = 2
    CreateOps = {2}
    Lease = 2
    FixerCap = 2
    MaxFaults = 3
    MaxEdits = 1
SYMMETRY WorkerSymmetry
INVARIANTS
    TypeOK
    SafeWrites
    HonestOutcome
PROPERTIES
    ProgressIsKept
