\* A queue of one, so that a packet in sequence can find it full; a source of four
\* lines, every fault, and flushes at any time.
CONSTANTS
    QUEUE_CAPACITY = 1
    Faults = {"missed", "master_error", "slave_error"}
    MayFlush = TRUE
    MaxLines = 4
    MaxHeld = 1
SPECIFICATION Spec
INVARIANTS TypeOK BufferOwnership AlwaysABuffer FlushDiscards
           AckedLinesAccepted
PROPERTY ChannelSpec
CHECK_DEADLOCK FALSE
