\* The same link without faults: the lines that reach the queue have gaps.
CONSTANTS
    QUEUE_CAPACITY = 2
    Faults = {}
    MayFlush = FALSE
    MaxLines = 6
    MaxHeld = 2
SPECIFICATION Spec
INVARIANT NoLineSkipped
CHECK_DEADLOCK FALSE
