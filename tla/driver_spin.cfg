\* The reading code on a CPU spins for the lock that the thread it interrupted holds.
CONSTANTS
    c1 = c1
    c2 = c2
    midr = midr
    fpsid = fpsid
    null = null
    mmfr4 = mmfr4
    gicd = gicd
    gich = gich
    Clients = {c1, c2}
    MS_MAX_CPUS = 2
    MS_CPU_ALL = 9
    SysRegs = {midr, null}
    NullRow = null
    NoReader = {}
    Unlisted = {}
    GicBlocks = {}
    Mapped = {}
    Undefined <- Nobody
    Present = {0, 1}
    PCpus = {0}
    Concurrent = TRUE
    ForeignTraps = FALSE
    NoValue = NoValue
    NoCpu = NoCpu
    NoRequest = NoRequest
SPECIFICATION FairSpec
PROPERTY IoctlReturns
CHECK_DEADLOCK FALSE
