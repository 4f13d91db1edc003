\* Either driver may fail at any transaction; a queue of two fills often.
CONSTANTS
    QUEUE_CAPACITY = 2
    Faults = {"master_error", "slave_error"}
    MayFlush = FALSE
    MaxLines = 5
    MaxHeld = 2
SPECIFICATION FairSpec
PROPERTY SentLinesArrive
CHECK_DEADLOCK FALSE
