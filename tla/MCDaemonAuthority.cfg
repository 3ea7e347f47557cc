SPECIFICATION Spec
CONSTANTS
    c1 = c1
    c2 = c2
    Conn = {c1, c2}
    Op = {"AdminUnlock", "IssueRevealToken", "Reveal", "AdminLock", "Lock", "Portability"}
    Ttl = {"timed"}
    MaxMints = 2
    AcceptErrors = TRUE
    Free = Free
    Acceptor = Acceptor
SYMMETRY Symmetry
INVARIANTS IInv AnswerTruthful
PROPERTIES RevealNeedsCurrentProof LockIsFinal KeepsAuthority
CHECK_DEADLOCK FALSE
