CONSTANTS
    a = a
    b = b
    stranger = stranger
    Clients = {a, b, stranger}
    Lines <- OwnLines
    Unnamed = {stranger}
    BUFSIZE = 3
    MaxLines = 4
    MaxFaults = 2
SPECIFICATION Spec
INVARIANTS
    TypeOK
    EchoExact
    OwnBytes
PROPERTY Answered
CHECK_DEADLOCK FALSE
