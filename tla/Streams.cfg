CONSTANTS
    Streams = {s1}
    BufferSize = 2
    LIMIT = 3
    Window = 4
    INT_MAX = 8
    MaxCalls = 4
    MaxDue = 7
    Nil = Nil
    Message = Message
SPECIFICATION Spec
INVARIANTS OutputWhole FlushedWhole UncompressExact
CHECK_DEADLOCK FALSE
