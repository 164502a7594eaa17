SPECIFICATION FairTransferSpec
CONSTANTS
    MaxSize = 4
    ChunkSizes = {1, 2}
    MaxFileBuffer = 2
    MinFileBuffer = 1
    MaxWire = 2
    UploadConns = {c1, c2}
    NoUploadConn = NoUploadConn
    MaxChunks = 2
    UploadMax = 0
    UploadMin = 0
INVARIANTS BodyIsFile ReadyNotMissed BufferAccounted WholeBeforeComplete FailedIsClosed
PROPERTIES StreamEnds UploadEnds
CHECK_DEADLOCK FALSE
