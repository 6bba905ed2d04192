\* Several sessions at once: the data of the slots never mixes. The requests
\* name one CPU, the two numbers after the last one, or all.
CONSTANTS
    c1 = c1
    c2 = c2
    midr = midr
    fpsid = fpsid
    null = null
    mmfr4 = mmfr4
    gicd = gicd
    gich = gich
    Clients = {c1, c2}
    MS_MAX_CPUS = 2
    MS_CPU_ALL = 9
    SysRegs = {fpsid, null}
    NullRow = null
    NoReader = {}
    Unlisted = {}
    GicBlocks = {}
    Mapped = {}
    Undefined <- OnlyLastCpu
    Present = {0, 1}
    PCpus = {1, 2, 3, 9}
    Concurrent = TRUE
    ForeignTraps = TRUE
    NoValue = NoValue
    NoCpu = NoCpu
    NoRequest = NoRequest
SPECIFICATION Spec
SYMMETRY Symmetry
INVARIANT
    SlotData
PROPERTY OneVerdict
CHECK_DEADLOCK FALSE
