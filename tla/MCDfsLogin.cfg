CONSTANTS
    julia = julia
    denver = denver
    ghost = ghost
    Servers = {1, 2}
    Clients = {denver, ghost}
    User <- Users
    Pass <- Passes
    Ports <- BothOrFirst
    Conf <- ConfLines
    MaxFds <- Limits
    Past <- Earlier
    MaxKills = 1
    MaxGets = 1
SPECIFICATION Spec
INVARIANTS
    TypeOK
    EndsForCause
    VerdictRight
    LoginDecides
    NumberRight
PROPERTY LoginEnds
CHECK_DEADLOCK FALSE
