SPECIFICATION ImportSpec
CONSTANTS
    base = base
    a = a
    x = x
    w = w
    d0 = d0
    Absent = Absent
    NoFile = NoFile
    NoPlan = NoPlan
    Pid <- MCPid
    Base <- Root
    PName = {base, a}
    BaseName = base
    Desc = {d0}
    NoDesc = d0
    Sid <- MCSid
    SName = {x}
    MaxVersion = 3
    WName = {w}
    Remap <- MCRemap
    MaxPackages = 1
    Requests <- MCRequests
    Foreign <- MCForeign
INVARIANT WholeVaultExports
CHECK_DEADLOCK FALSE
