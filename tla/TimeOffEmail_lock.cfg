SPECIFICATION Spec
CONSTANTS
    Workers = {w1, w2}
    NoWorker = NoWorker
    MaxCalls = 2
    MaxFaults = 0
    MaxChanges = 1
    MaxLosses = 1
SYMMETRY WorkerSymmetry
CHECK_DEADLOCK FALSE
INVARIANTS OneMailEver
