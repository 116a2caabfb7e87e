SPECIFICATION Spec
CONSTANTS
    Workers = {w1, w2}
    NumOps = 2
    CreateOps = {2}
    Lease = 2
    FixerCap = 2
    MaxFaults = 2
    MaxEdits = 0
SYMMETRY WorkerSymmetry
INVARIANTS CapLeavesOdooUntouched
