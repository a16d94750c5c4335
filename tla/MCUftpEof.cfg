CONSTANTS
    a = a
    b = b
    stranger = stranger
    x = x
    tools = tools
    sub = sub
    lib = lib
    Clients = {a}
    Names = {x}
    Starts <- Starts2
    Words <- ToolsIsLs
    NoDirectory = {}
    Refused = {}
    Unnamed = {}
    Lines <- AllLines
    BUFSIZE = 2
    MaxPipes = 1
    MaxCommands = 2
    MaxFaults = 0
SPECIFICATION Spec
PROPERTY Delivered
CHECK_DEADLOCK FALSE
