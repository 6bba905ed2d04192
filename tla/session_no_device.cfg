SPECIFICATION Spec
CONSTANTS
    ctr = ctr
    midr = midr
    fpsid = fpsid
    null = null
    mmfr4 = mmfr4
    gicd = gicd
    SysCodes = {ctr, midr, fpsid, null, mmfr4}
    DevCodes = {gicd}
    NullRow = null
    NoRow = {mmfr4, gicd}
    Faulting = {midr, fpsid}
    Mishaps = {"no device"}
    NoCode = NoCode
INVARIANT HandlerRestored
