SPECIFICATION Spec
CONSTANTS
    ctr = ctr
    midr = midr
    fpsid = fpsid
    null = null
    mmfr4 = mmfr4
    gicd = gicd
    SysCodes = {ctr, midr, fpsid, null, mmfr4}
    DevCodes = {gicd}
    NullRow = null
    NoRow = {mmfr4, gicd}
    Faulting = {midr, fpsid}
    Mishaps = {"nothing to read"}
    NoCode = NoCode
INVARIANT ProgramSurvives
CHECK_DEADLOCK FALSE
