CONSTANTS
    Streams <- AllStreams
    MaxChunk = 6
    MaxBuffered = 24
    MaxPayload = 5
    Checksum <- SumChecksum
    Unmarshals <- ObjectText
SPECIFICATION Spec
\* The stream ends.
CHECK_DEADLOCK FALSE
INVARIANTS
    TypeOK
    BufferIsTail
    ChunkingInvisible
    OnlyOpenObjectOutgrows
PROPERTIES
    LoopProgresses
    PushReturns
