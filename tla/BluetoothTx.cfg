\* Chunks of up to two, of which a buffer of three takes one or two; a queue of
\* two; two connections, so that a session ends and another begins.
CONSTANTS
    BT_TX_QUEUE_ENTRIES = 2
    BT_TX_BUFFER_SIZE = 2
    BufferSize = 3
    MaxChunks = 3
    MaxHandles = 2
SPECIFICATION Spec
INVARIANTS TypeOK ChunkOwnership OneWriteAtATime OnlySparedSurvive
           SessionEnds
PROPERTIES QueueDrains LineSpec
CHECK_DEADLOCK FALSE
