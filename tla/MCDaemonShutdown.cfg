SPECIFICATION FairSpec
CONSTANTS
    c1 = c1
    c2 = c2
    Conn = {c1, c2}
    Op = {"AdminUnlock", "Portability", "Stop", "Status", "AdminStatus", "Read", "Mutate", "Http"}
    Ttl = {"untimed"}
    MaxMints = 0
    AcceptErrors = FALSE
    Free = Free
    Acceptor = Acceptor
PROPERTIES QuietAfterExit ConnectionsEnd StopEndsDaemon PermitReturns
CHECK_DEADLOCK FALSE
