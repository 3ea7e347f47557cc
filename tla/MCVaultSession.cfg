SPECIFICATION Spec
CONSTANTS
    a = a
    b = b
    base = base
    d0 = d0
    d1 = d1
    p0 = p0
    p1 = p1
    p2 = p2
    s1 = s1
    s2 = s2
    w1 = w1
    x = x
    y = y
    Absent = Absent
    Pid = {p0, p1, p2}
    Base = p0
    PName = {base, a, b}
    BaseName = base
    Desc = {d0, d1}
    NoDesc = d0
    Sid = {s1, s2}
    SName = {x, y}
    MaxVersion = 2
    WName = {w1}
SYMMETRY Symmetry
CONSTRAINT Apart
INVARIANTS VaultInv
PROPERTIES CreatedNotLoaded FailureKeepsVault HistoryKept ProfilesApart
CHECK_DEADLOCK FALSE
