SPECIFICATION FairSpec
CONSTANTS
    c1 = c1
    c2 = c2
    d0 = d0
    d1 = d1
    d2 = d2
    Nobody = Nobody
    Cli = {c1, c2}
    Process = {d0, d1, d2}
    Old = d0
    External = {"lock", "stop", "signal", "crash"}
    MaxProbes = 1
INVARIANTS StartInv StopsOnlyLocked StartsConverge
PROPERTIES StartEnds
CHECK_DEADLOCK FALSE
