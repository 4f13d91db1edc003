SPECIFICATION Spec
CONSTANTS
    N = 3
    MaxBehind = 1
    MaxMoves = 1
    MaxCalls = 0
INVARIANTS FillsForLaterDma
CHECK_DEADLOCK FALSE
