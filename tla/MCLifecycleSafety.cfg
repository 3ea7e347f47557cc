SPECIFICATION Spec
CONSTANTS
    c1 = c1
    c2 = c2
    d0 = d0
    d1 = d1
    d2 = d2
    Nobody = Nobody
    Cli = {c1, c2}
    Process = {d0, d1, d2}
    Old = d0
    External = {"lock", "stop", "signal", "crash", "launch", "interrupt"}
    MaxProbes = 1
SYMMETRY Symmetry
INVARIANTS OneVault LiveSocket NoOrphan
CHECK_DEADLOCK FALSE
