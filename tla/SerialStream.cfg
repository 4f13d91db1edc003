\* A buffer that holds three and a FIFO of one overflow with four characters.
CONSTANTS
    RX_BUFFER_SIZE = 4
    FifoLen = 1
    MaxChars = 4
SPECIFICATION Spec
INVARIANTS TypeOK ReadInOrder NoSilentLoss LossIsFlagged RealtimeNotBuffered
PROPERTY FifoSpec
CHECK_DEADLOCK FALSE
