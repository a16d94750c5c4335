CONSTANTS
    root = root
    plain = plain
    dir = dir
    lost = lost
    bare = bare
    wide = wide
    vast = vast
    Threads = {1, 2}
    Requests = {root, plain, dir, lost, bare, wide, vast}
    Line <- Lines
    Target <- Targets
    Names = {"index.html", "a", "css"}
    Page <- Pages
    Dirs = {"css"}
    NoFile = NoFile
    Absent = Absent
    Long = {"long", "huge"}
    Huge = {"huge"}
    MaxLine = 1
    MaxFds = 3
    MaxLeaves = 1
SPECIFICATION Spec
INVARIANTS
    TypeOK
    OwnReply
    InFull
    DownHasCause
    OnlyIndexLeaks
PROPERTY Served
CHECK_DEADLOCK FALSE
