CONSTANTS
    Streams = {s1}
    BufferSize = 2
    LIMIT = 3
    Window = 4
    INT_MAX = 8
    MaxCalls = 3
    MaxDue = 7
    Nil = Nil
    Message = Message
SPECIFICATION Spec
INVARIANTS FailureIsNil
CHECK_DEADLOCK FALSE
