SPECIFICATION OneCall
CONSTANTS
    all = all
    nothing = nothing
    nocpu = nocpu
    norequest = norequest
    MS_MAX_CPUS = 1
    MS_CPU_ALL = all
    NoValue = nothing
    NoCpu = nocpu
    NoRequest = norequest
    TopBit = 63
    MaxRange = 2
    Rows <- McRows
    Contents <- McContents
    Boards = {"A7", "A15", "A53", "A57"}
    Part <- McPart
    Requests <- McRequests
    Handled <- McHandled
    UserReads <- McUserReads
    Undefined <- McUndefined
    Mapped <- McMapped
INVARIANTS NamesTrue
CHECK_DEADLOCK FALSE
