SPECIFICATION Spec
CONSTANTS
    N = 3
    MaxBehind = 1
    MaxMoves = 2
    MaxCalls = 2
INVARIANTS TypeOK PinsFollowPort StepsSentOnce DirectInPassthrough
PROPERTIES StepsNotLost WaitingEnds
CHECK_DEADLOCK FALSE
