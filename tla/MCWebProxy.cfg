CONSTANTS
    p1 = p1
    p2 = p2
    g = g
    h = h
    a = a
    b = b
    Threads = {1, 2, 3}
    Urls = {p1, p2}
    Hosts = {g, h}
    HostOf <- EachItsHost
    Addresses = {a, b}
    Answers <- SomeAnswers
    Page <- TwoPages
    Chunks = {"c1", "c2", "c3"}
    Blacklist = {b, h}
    Free = Free
    NoAddress = NoAddress
    MaxFds = 5
SPECIFICATION Spec
INVARIANTS
    TypeOK
    OneFetch
    WholePageServed
    AddressStable
    LeaksBounded
PROPERTIES
    ImplementsPageCache
    HangsOnlyBehindBlacklist
CHECK_DEADLOCK FALSE
