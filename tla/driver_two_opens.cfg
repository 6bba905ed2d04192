\* Two sessions at once: hook_struct is linked twice.
CONSTANTS
    c1 = c1
    c2 = c2
    midr = midr
    fpsid = fpsid
    null = null
    mmfr4 = mmfr4
    gicd = gicd
    gich = gich
    Clients = {c1, c2}
    MS_MAX_CPUS = 2
    MS_CPU_ALL = 9
    SysRegs = {fpsid, null}
    NullRow = null
    NoReader = {}
    Unlisted = {mmfr4}
    GicBlocks = {gicd, gich}
    Mapped = {gicd}
    Undefined <- OnlyLastCpu
    Present = {0, 1}
    PCpus = {0, 1}
    Concurrent = TRUE
    ForeignTraps = FALSE
    NoValue = NoValue
    NoCpu = NoCpu
    NoRequest = NoRequest
SPECIFICATION Spec
INVARIANT NoOops
CHECK_DEADLOCK FALSE
