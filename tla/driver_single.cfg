\* One session at a time, nothing else traps: the driver keeps every promise.
CONSTANTS
    c1 = c1
    c2 = c2
    midr = midr
    fpsid = fpsid
    null = null
    mmfr4 = mmfr4
    gicd = gicd
    gich = gich
    Clients = {c1, c2}
    MS_MAX_CPUS = 3
    MS_CPU_ALL = 9
    SysRegs = {midr, fpsid, null}
    NullRow = null
    NoReader = {}
    Unlisted = {mmfr4}
    GicBlocks = {gicd, gich}
    Mapped = {gicd}
    Undefined <- OnlyLastCpu
    Present = {0, 2}
    PCpus = {2, 4, 9}
    Concurrent = FALSE
    ForeignTraps = FALSE
    NoValue = NoValue
    NoCpu = NoCpu
    NoRequest = NoRequest
SPECIFICATION FairSpec
INVARIANTS
    TypeOK
    NoFalseSuccess
    NoFalseUndef
    
    NoOops
    FlagDiscipline
PROPERTIES
    RegisterServiceSpec
    IoctlReturns
