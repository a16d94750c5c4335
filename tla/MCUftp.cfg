CONSTANTS
    a = a
    b = b
    stranger = stranger
    x = x
    tools = tools
    sub = sub
    lib = lib
    Clients = {a, b, stranger}
    Names = {x, tools, sub, lib}
    Starts <- Starts1
    Words <- ToolsIsLs
    NoDirectory <- SubOnly
    Refused <- LibOnly
    Unnamed <- Stranger
    Lines <- SomeLines
    BUFSIZE = 2
    MaxPipes = 1
    MaxCommands = 2
    MaxFaults = 1
SPECIFICATION Spec
INVARIANTS
    TypeOK
    
PROPERTIES
    Delivered
    OwnAnswer
    
CHECK_DEADLOCK FALSE
