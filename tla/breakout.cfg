SPECIFICATION FairSpec
CONSTANTS
    all = all
    nothing = nothing
    nocpu = nocpu
    norequest = norequest
    MS_MAX_CPUS = 2
    MS_CPU_ALL = all
    NoValue = nothing
    NoCpu = nocpu
    NoRequest = norequest
    TopBit = 3
    Rows <- McRows
    Contents <- McContents
    Boards = {"v7", "v8"}
    Part <- McPart
    Requests <- McRequests
    Handled <- Read
    UserReads <- Readable
    Undefined <- Trapping
    Mapped <- GicMapped
INVARIANTS TypeOK FieldsTrue CalcTrue Complete ReadWhereSaid OnceEach NoTwice OwnSlot CrashOnlyUnread
PROPERTIES RegisterServiceSpec FindReturns
CHECK_DEADLOCK FALSE
