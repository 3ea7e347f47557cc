SPECIFICATION Spec
CONSTANTS
    c1 = c1
    c2 = c2
    Conn = {c1, c2}
    Op = {"Http", "Lock"}
    Ttl = {"timed"}
    MaxMints = 0
    AcceptErrors = FALSE
    Free = Free
    Acceptor = Acceptor
SYMMETRY Symmetry
PROPERTIES NoHttpAfterLock
CHECK_DEADLOCK FALSE
