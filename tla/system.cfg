SPECIFICATION SysSpec
CONSTANTS
    CommandLines <- Lines
    Groups <- TwoGroups
    DevGroups <- OneGroup
    NULL = NULL
    me = me
    other = other
    Others = {other}
    Trees <- DeviceTrees
    NoNode = NoNode
    Faults = {"no hook", "ioremap", "misc_register", "open"}
    None = None
    Null = Null
INVARIANTS SysTypeOK ReadsMapped MappingsReturned ArraysFreed EachShown
