\* The same port: a cancel that strikes during a read does not flush.
CONSTANTS
    RX_BUFFER_SIZE = 4
    FifoLen = 1
    MaxChars = 4
SPECIFICATION Spec
INVARIANT CancelFlushes
CHECK_DEADLOCK FALSE
