---------------------------- MODULE Daemon_proofs ----------------------------
(***************************************************************************)
(* Proofs about Daemon, for any set of connections, any operations and any *)
(* number of tokens: its invariants, what a lock ends, and that the daemon *)
(* implements Authority.                                                   *)
(***************************************************************************)
EXTENDS DaemonAuthority, TLAPS

-----------------------------------------------------------------------------
(* Type correctness.                                                       *)

\* The variables of the lease alone, as TypeOK types them.
LeaseTyped == lease \in Lease /\ digest \in Nat /\ live \in SUBSET Nat

\* Dropping the lease, or not, keeps the lease's variables typed.
LEMMA DropTyped ==
  ASSUME LeaseTyped, NEW b \in BOOLEAN, DropLeaseIf(b)
  PROVE  LeaseTyped'
BY DEF LeaseTyped, DropLeaseIf, Lease, NoToken

\* So do the three ways the code drops it.
LEMMA LeaseDropTyped ==
  ASSUME LeaseTyped, RequireAdmin \/ PurgeLease \/ DropLease
  PROVE  LeaseTyped'
BY DropTyped DEF RequireAdmin, PurgeLease, DropLease

\* Whatever a client sends is a request.
LEMMA RequestsTyped ==
  ASSUME known \in SUBSET Nat, NEW r \in Requests
  PROVE  r \in Request
<1> DEFINE Sent == [op : Op, password : {"right", "wrong", "none"},
                    ttl : Ttl \cup {"none"}, token : known \cup {NoToken}]
<1>1. r \in Sent
  BY DEF Requests
<1>2. /\ Op \subseteq Operation
      /\ Ttl \cup {"none"} \subseteq {"timed", "untimed", "none"}
      /\ known \cup {NoToken} \subseteq Nat
  BY DaemonAssumption DEF NoToken
<1>3. r \in Sent => r \in Request
  BY <1>2 DEF Request
<1> QED
  BY <1>1, <1>3

\* The daemon starts in a state of the right type.
LEMMA InitType == Init => TypeOK
<1> SUFFICES ASSUME Init PROVE TypeOK
  OBVIOUS
<1> USE DEF Init
<1>1. req \in [Conn -> Request]
  BY DEF Request, NoRequest, NoToken, Operation, SyncOp
<1> QED
  BY <1>1 DEF TypeOK, Lease, Pc, Answer, Job, LoopState, NoToken

\* Every step keeps the type.
LEMMA TypeStep ==
  ASSUME TypeOK, [Next]_vars
  PROVE  TypeOK'
<1> USE DEF TypeOK, Answer, Pc, Job, LoopState, runtime, server, Reply, Goto,
            Critical, Handling, Carried, Refused, ReplyFromJob
<1>1. ASSUME NEW c \in Conn, ReadRequest(c) PROVE TypeOK'
  <2>1. PICK r \in Requests :
           /\ req' = [req EXCEPT ![c] = r]
           /\ Goto(c, FirstPc(r.op))
           /\ job' = [job EXCEPT ![c] =
                         IF r.op = "Portability" THEN "queued" ELSE "none"]
    BY <1>1 DEF ReadRequest
  <2>2. r \in Request
    BY RequestsTyped
  <2>3. FirstPc(r.op) \in Pc
    BY DEF FirstPc
  <2> QED
    BY <1>1, <2>1, <2>2, <2>3 DEF ReadRequest
<1>2. ASSUME NEW c \in Conn, ReadMalformed(c) PROVE TypeOK'
  BY <1>2 DEF ReadMalformed
<1>3. ASSUME NEW c \in Conn, TryLock(c) PROVE TypeOK'
  BY <1>3 DEF TryLock
<1>4. ASSUME NEW c \in Conn, TryLockBusy(c) PROVE TypeOK'
  BY <1>4 DEF TryLockBusy
<1>5. ASSUME NEW c \in Conn, CheckAuthenticationRate(c) PROVE TypeOK'
  BY <1>5 DEF CheckAuthenticationRate
<1>6. ASSUME NEW c \in Conn, CheckBeforeVerify(c) PROVE TypeOK'
  <2>1. LeaseTyped'
    BY <1>6, LeaseDropTyped DEF LeaseTyped, CheckBeforeVerify
  <2> QED
    BY <1>6, <2>1 DEF LeaseTyped, CheckBeforeVerify
<1>7. ASSUME NEW c \in Conn, AcquirePermit(c) PROVE TypeOK'
  BY <1>7 DEF AcquirePermit
<1>8. ASSUME NEW c \in Conn, IssueAdminLease(c) PROVE TypeOK'
  <2>1. req[c].ttl \in Lease
    BY DEF Request, Lease
  <2>2. LeaseTyped'
    <3>1. CASE vault = "unlocked"
      BY <1>8, <2>1, <3>1 DEF IssueAdminLease, LeaseTyped, NoToken
    <3>2. CASE vault # "unlocked"
      BY <1>8, <3>2 DEF IssueAdminLease, LeaseTyped
    <3> QED
      BY <3>1, <3>2
  <2> QED
    BY <1>8, <2>2 DEF IssueAdminLease, LeaseTyped
<1>9. ASSUME NEW c \in Conn, MintRevealToken(c) PROVE TypeOK'
  <2>1. LeaseTyped'
    <3>1. CASE AdminGranted
      BY <1>9, <3>1 DEF LeaseTyped, MintRevealToken
    <3>2. CASE ~AdminGranted
      BY <1>9, <3>2, LeaseDropTyped DEF LeaseTyped, MintRevealToken
    <3> QED
      BY <3>1, <3>2
  <2>2. req' \in [Conn -> Request]
    <3>1. CASE UNCHANGED req
      BY <3>1
    <3>2. CASE req' = [req EXCEPT ![c].token = minted + 1]
      BY <3>2 DEF Request
    <3> QED
      BY <1>9, <3>1, <3>2 DEF MintRevealToken
  <2> QED
    BY <1>9, <2>1, <2>2 DEF LeaseTyped, MintRevealToken
<1>10. ASSUME NEW c \in Conn, HandleStatus(c) PROVE TypeOK'
  <2>1. LeaseTyped'
    <3>1. LeaseTyped /\ (PurgeLease \/ UNCHANGED <<lease, digest, live>>)
      BY <1>10 DEF LeaseTyped, HandleStatus
    <3>2. CASE PurgeLease
      BY <3>1, <3>2, LeaseDropTyped
    <3>3. CASE UNCHANGED <<lease, digest, live>>
      BY <3>1, <3>3 DEF LeaseTyped
    <3> QED
      BY <3>1, <3>2, <3>3
  <2>2. \E a \in {"ok", "failed"} : Reply(c, a)
    BY <1>10 DEF HandleStatus
  <2> QED
    BY <1>10, <2>1, <2>2 DEF LeaseTyped, HandleStatus
<1>11. ASSUME NEW c \in Conn, HandleLock(c) PROVE TypeOK'
  <2>1. LeaseTyped'
    BY <1>11, DropTyped DEF LeaseTyped, HandleLock
  <2> QED
    BY <1>11, <2>1 DEF LeaseTyped, HandleLock
<1>12. ASSUME NEW c \in Conn, HandleStop(c) PROVE TypeOK'
  <2>1. LeaseTyped'
    BY <1>12, LeaseDropTyped DEF LeaseTyped, HandleStop, DropVault
  <2> QED
    BY <1>12, <2>1 DEF LeaseTyped, HandleStop, DropVault
<1>13. ASSUME NEW c \in Conn, HandleAdminStatus(c) PROVE TypeOK'
  <2>1. LeaseTyped'
    BY <1>13, LeaseDropTyped DEF LeaseTyped, HandleAdminStatus
  <2> QED
    BY <1>13, <2>1 DEF LeaseTyped, HandleAdminStatus
<1>14. ASSUME NEW c \in Conn, HandleAdminLock(c) PROVE TypeOK'
  <2>1. LeaseTyped'
    BY <1>14, LeaseDropTyped DEF LeaseTyped, HandleAdminLock
  <2> QED
    BY <1>14, <2>1 DEF LeaseTyped, HandleAdminLock
<1>15. ASSUME NEW c \in Conn, HandleRead(c) PROVE TypeOK'
  BY <1>15 DEF HandleRead
<1>16. ASSUME NEW c \in Conn, HandleMutate(c) PROVE TypeOK'
  <2>1. LeaseTyped'
    BY <1>16, LeaseDropTyped DEF LeaseTyped, HandleMutate
  <2> QED
    BY <1>16, <2>1 DEF LeaseTyped, HandleMutate
<1>17. ASSUME NEW c \in Conn, HandleReveal(c) PROVE TypeOK'
  <2>1. LeaseTyped'
    BY <1>17, LeaseDropTyped DEF LeaseTyped, HandleReveal
  <2> QED
    BY <1>17, <2>1 DEF LeaseTyped, HandleReveal
<1>18. ASSUME NEW c \in Conn, PrepareHttpRequest(c) PROVE TypeOK'
  BY <1>18 DEF PrepareHttpRequest
<1>19. ASSUME NEW c \in Conn, SendHttpRequest(c) PROVE TypeOK'
  BY <1>19 DEF SendHttpRequest
<1>20. ASSUME NEW c \in Conn, FinishHttpRequest(c) PROVE TypeOK'
  BY <1>20 DEF FinishHttpRequest
<1>21. ASSUME NEW c \in Conn, Timeout(c) PROVE TypeOK'
  BY <1>21 DEF Timeout
<1>22. ASSUME NEW c \in Conn, CloseConnection(c) PROVE TypeOK'
  <2>1. known' \in SUBSET Nat
    <3>1. req[c].token \in Nat
      BY DEF Request
    <3>2. known' = known \/ known' = known \cup {req[c].token}
      BY <1>22 DEF CloseConnection
    <3> QED
      BY <3>1, <3>2
  <2>2. notified' \in BOOLEAN
    BY <1>22, Zenon DEF CloseConnection
  <2> QED
    BY <1>22, <2>1, <2>2 DEF CloseConnection
<1>23. ASSUME NEW c \in Conn, FinishVerify(c) PROVE TypeOK'
  BY <1>23 DEF FinishVerify
<1>24. ASSUME NEW c \in Conn, PortabilityTryLock(c) PROVE TypeOK'
  BY <1>24 DEF PortabilityTryLock
<1>25. ASSUME NEW c \in Conn, PortabilityRun(c) PROVE TypeOK'
  <2>1. LeaseTyped'
    BY <1>25, LeaseDropTyped DEF LeaseTyped, PortabilityRun
  <2> QED
    BY <1>25, <2>1 DEF LeaseTyped, PortabilityRun
<1>26. ASSUME NEW c \in Conn, DiscardJob(c) PROVE TypeOK'
  BY <1>26 DEF DiscardJob
<1>27. ASSUME NEW c \in Conn, SpawnConnection(c) PROVE TypeOK'
  <2>1. NoRequest \in Request
    BY DEF NoRequest, Request, Operation, SyncOp, NoToken
  <2> QED
    BY <1>27, <2>1 DEF SpawnConnection
<1>28. ASSUME NEW c \in Conn, AbortConnection(c) PROVE TypeOK'
  BY <1>28 DEF AbortConnection
<1>29. ASSUME AcceptConnection PROVE TypeOK'
  BY <1>29 DEF AcceptConnection
<1>30. ASSUME AcceptorLocks PROVE TypeOK'
  BY <1>30 DEF AcceptorLocks
<1>31. ASSUME DropConnection PROVE TypeOK'
  BY <1>31 DEF DropConnection
<1>32. ASSUME BeginShutdown PROVE TypeOK'
  BY <1>32 DEF BeginShutdown
<1>33. ASSUME FinishShutdown PROVE TypeOK'
  <2>1. LeaseTyped'
    BY <1>33, LeaseDropTyped DEF LeaseTyped, FinishShutdown, DropVault
  <2> QED
    BY <1>33, <2>1 DEF LeaseTyped, FinishShutdown, DropVault
<1>34. ASSUME AcceptFails PROVE TypeOK'
  BY <1>34 DEF AcceptFails
<1>35. ASSUME LeaseFallsDue PROVE TypeOK'
  BY <1>35 DEF LeaseFallsDue, Lease
<1>36. ASSUME Signal PROVE TypeOK'
  BY <1>36 DEF Signal
<1>37. CASE UNCHANGED vars
  BY <1>37 DEF vars
<1> QED
  BY <1>1, <1>2, <1>3, <1>4, <1>5, <1>6, <1>7, <1>8, <1>9, <1>10, <1>11,
     <1>12, <1>13, <1>14, <1>15, <1>16, <1>17, <1>18, <1>19, <1>20, <1>21,
     <1>22, <1>23, <1>24, <1>25, <1>26, <1>27, <1>28, <1>29, <1>30, <1>31,
     <1>32, <1>33, <1>34, <1>35, <1>36, <1>37
  DEF Next, ConnectionStep, JobStep, LoopStep

\* Every variable of the daemon keeps its type.
THEOREM TypeCorrect == Spec => []TypeOK
<1>1. Init => TypeOK
  BY InitType
<1>2. TypeOK /\ [Next]_vars => TypeOK'
  BY TypeStep
<1> QED
  BY <1>1, <1>2, PTL DEF Spec

-----------------------------------------------------------------------------
(* The inductive invariant.                                                *)

\* Nothing is held, issued or answered when the daemon starts.
LEMMA InitInv == Init => IInv
<1> SUFFICES ASSUME Init PROVE IInv
  OBVIOUS
<1> USE DEF Init
<1>1. TypeOK
  BY InitType
<1>2. LeaseNeedsVault /\ TokenOfThisLease
  BY DEF LeaseNeedsVault, TokenOfThisLease
<1>3. OneVerification
  BY DaemonAssumption DEF OneVerification
<1>4. TaskInv /\ JobInv /\ AnswerTruthful
  BY DEF TaskInv, JobInv, AnswerTruthful, BusyPc
<1>5. LoopInv
  BY DaemonAssumption DEF LoopInv
<1>6. MintInv
  BY DEF MintInv, NoRequest, NoToken
<1> QED
  BY <1>1, <1>2, <1>3, <1>4, <1>5, <1>6 DEF IInv

\* Every step keeps what ties the lease to the vault and the digest to the
\* lease.  Only the steps below the first two look at them or change them.
LEMMA LeaseStep ==
  ASSUME TypeOK, LeaseNeedsVault, TokenOfThisLease, [Next]_vars
  PROVE  (LeaseNeedsVault /\ TokenOfThisLease)'
<1> USE DEF TypeOK, LeaseNeedsVault, TokenOfThisLease, Lease, NoToken, AdminGranted,
            runtime, Handling, Critical,
            DropLease, DropLeaseIf, PurgeLease, RequireAdmin, DropVault
<1>1. ASSUME NEW c \in Conn,
           ReadRequest(c) \/ ReadMalformed(c) \/ TryLock(c) \/
           TryLockBusy(c) \/ CheckAuthenticationRate(c) \/
           AcquirePermit(c) \/ HandleRead(c) \/
           PrepareHttpRequest(c) \/ SendHttpRequest(c) \/
           FinishHttpRequest(c) \/ Timeout(c) \/
           CloseConnection(c) \/ FinishVerify(c) \/
           PortabilityTryLock(c) \/ DiscardJob(c) \/
           SpawnConnection(c) \/ AbortConnection(c)
     PROVE  UNCHANGED <<vault, lease, digest, live>>
  BY <1>1 DEF ReadRequest, ReadMalformed, TryLock, TryLockBusy,
     CheckAuthenticationRate, AcquirePermit, HandleRead, PrepareHttpRequest,
     SendHttpRequest, FinishHttpRequest, Timeout, CloseConnection,
     FinishVerify, PortabilityTryLock, DiscardJob, SpawnConnection,
     AbortConnection
<1>2. ASSUME AcceptConnection \/ AcceptorLocks \/ DropConnection \/
           BeginShutdown \/ AcceptFails \/ Signal
     PROVE  UNCHANGED <<vault, lease, digest, live>>
  BY <1>2 DEF AcceptConnection, AcceptorLocks, DropConnection,
     BeginShutdown, AcceptFails, Signal
<1>3. ASSUME NEW c \in Conn, CheckBeforeVerify(c) PROVE (LeaseNeedsVault /\ TokenOfThisLease)'
  BY <1>3 DEF CheckBeforeVerify
<1>4. ASSUME NEW c \in Conn, IssueAdminLease(c) PROVE (LeaseNeedsVault /\ TokenOfThisLease)'
  BY <1>4 DEF IssueAdminLease
<1>5. ASSUME NEW c \in Conn, MintRevealToken(c) PROVE (LeaseNeedsVault /\ TokenOfThisLease)'
  BY <1>5 DEF MintRevealToken
<1>6. ASSUME NEW c \in Conn, HandleStatus(c) PROVE (LeaseNeedsVault /\ TokenOfThisLease)'
  BY <1>6 DEF HandleStatus
<1>7. ASSUME NEW c \in Conn, HandleLock(c) PROVE (LeaseNeedsVault /\ TokenOfThisLease)'
  BY <1>7 DEF HandleLock
<1>8. ASSUME NEW c \in Conn, HandleStop(c) PROVE (LeaseNeedsVault /\ TokenOfThisLease)'
  BY <1>8 DEF HandleStop
<1>9. ASSUME NEW c \in Conn, HandleAdminStatus(c) PROVE (LeaseNeedsVault /\ TokenOfThisLease)'
  BY <1>9 DEF HandleAdminStatus
<1>10. ASSUME NEW c \in Conn, HandleAdminLock(c) PROVE (LeaseNeedsVault /\ TokenOfThisLease)'
  BY <1>10 DEF HandleAdminLock
<1>11. ASSUME NEW c \in Conn, HandleMutate(c) PROVE (LeaseNeedsVault /\ TokenOfThisLease)'
  BY <1>11 DEF HandleMutate
<1>12. ASSUME NEW c \in Conn, HandleReveal(c) PROVE (LeaseNeedsVault /\ TokenOfThisLease)'
  BY <1>12 DEF HandleReveal
<1>13. ASSUME NEW c \in Conn, PortabilityRun(c) PROVE (LeaseNeedsVault /\ TokenOfThisLease)'
  BY <1>13 DEF PortabilityRun
<1>14. ASSUME FinishShutdown PROVE (LeaseNeedsVault /\ TokenOfThisLease)'
  BY <1>14 DEF FinishShutdown
<1>15. ASSUME LeaseFallsDue PROVE (LeaseNeedsVault /\ TokenOfThisLease)'
  BY <1>15 DEF LeaseFallsDue
<1>16. CASE UNCHANGED <<vault, lease, digest, live>>
  BY <1>16
<1>17. CASE UNCHANGED vars
  BY <1>17 DEF vars
<1> QED
  BY <1>1, <1>2, <1>3, <1>4, <1>5, <1>6, <1>7, <1>8, <1>9, <1>10, <1>11,
     <1>12, <1>13, <1>14, <1>15, <1>16, <1>17
  DEF Next, ConnectionStep, JobStep, LoopStep

\* The permit and the verification change hands together.
LEMMA PermitStep ==
  ASSUME TypeOK, OneVerification, TaskInv, JobInv, [Next]_vars
  PROVE  OneVerification'
<1> USE DEF TypeOK, OneVerification
<1>1. ASSUME NEW c \in Conn,
           ReadMalformed(c) \/ TryLock(c) \/ TryLockBusy(c) \/
           CheckAuthenticationRate(c) \/ CheckBeforeVerify(c) \/
           IssueAdminLease(c) \/ MintRevealToken(c) \/
           HandleStatus(c) \/ HandleLock(c) \/ HandleStop(c) \/
           HandleAdminStatus(c) \/ HandleAdminLock(c) \/
           HandleRead(c) \/ HandleMutate(c) \/ HandleReveal(c) \/
           PrepareHttpRequest(c) \/ SendHttpRequest(c) \/
           FinishHttpRequest(c) \/ Timeout(c) \/
           CloseConnection(c) \/ SpawnConnection(c) \/
           AbortConnection(c)
     PROVE  UNCHANGED <<permit, job>>
  BY <1>1 DEF ReadMalformed, TryLock, TryLockBusy, CheckAuthenticationRate,
     CheckBeforeVerify, IssueAdminLease, MintRevealToken, HandleStatus,
     HandleLock, HandleStop, HandleAdminStatus, HandleAdminLock, HandleRead,
     HandleMutate, HandleReveal, PrepareHttpRequest, SendHttpRequest,
     FinishHttpRequest, Timeout, CloseConnection, SpawnConnection,
     AbortConnection
<1>2. ASSUME AcceptConnection \/ AcceptorLocks \/ DropConnection \/
           BeginShutdown \/ FinishShutdown \/ AcceptFails \/
           LeaseFallsDue \/ Signal
     PROVE  UNCHANGED <<permit, job>>
  BY <1>2 DEF AcceptConnection, AcceptorLocks, DropConnection,
     BeginShutdown, FinishShutdown, AcceptFails, LeaseFallsDue, Signal
<1>3. ASSUME NEW c \in Conn, ReadRequest(c) PROVE OneVerification'
  BY <1>3 DEF ReadRequest, TaskInv, BusyPc, Pc
<1>4. ASSUME NEW c \in Conn, AcquirePermit(c) PROVE OneVerification'
  BY <1>4, DaemonAssumption DEF AcquirePermit
<1>5. ASSUME NEW c \in Conn, FinishVerify(c) PROVE OneVerification'
  BY <1>5, DaemonAssumption DEF FinishVerify
<1>6. ASSUME NEW c \in Conn, PortabilityTryLock(c) PROVE OneVerification'
  BY <1>6 DEF PortabilityTryLock
<1>7. ASSUME NEW c \in Conn, PortabilityRun(c) PROVE OneVerification'
  BY <1>7 DEF PortabilityRun
<1>8. ASSUME NEW c \in Conn, DiscardJob(c) PROVE OneVerification'
  BY <1>8 DEF DiscardJob
<1>9. CASE UNCHANGED <<permit, job>>
  BY <1>9
<1>10. CASE UNCHANGED vars
  BY <1>10 DEF vars
<1> QED
  BY <1>1, <1>2, <1>3, <1>4, <1>5, <1>6, <1>7, <1>8, <1>9, <1>10
  DEF Next, ConnectionStep, JobStep, LoopStep

\* Every step of a request keeps what its task, its blocking job and its
\* answer say about each other.
LEMMA RequestStep ==
  ASSUME TypeOK, TaskInv, JobInv, AnswerTruthful, [Next]_vars
  PROVE  (TaskInv /\ JobInv /\ AnswerTruthful)'
<1> USE DEF TypeOK, TaskInv, JobInv, AnswerTruthful, BusyPc, Pc, LockPc, AuthOp, EffectOp,
            Reply, Goto, Critical, Handling, Carried, Refused, ReplyFromJob, server
<1>1. ASSUME NEW c \in Conn, ReadRequest(c) PROVE (TaskInv /\ JobInv /\ AnswerTruthful)'
  <2>1. PICK r \in Requests :
           /\ req' = [req EXCEPT ![c] = r]
           /\ Goto(c, FirstPc(r.op))
           /\ job' = [job EXCEPT ![c] =
                         IF r.op = "Portability" THEN "queued" ELSE "none"]
    BY <1>1 DEF ReadRequest
  <2>2. pc[c] = "read" /\ UNCHANGED <<ans, applied>>
    BY <1>1 DEF ReadRequest
  <2> QED
    BY <2>1, <2>2 DEF FirstPc
<1>2. ASSUME NEW c \in Conn, ReadMalformed(c) PROVE (TaskInv /\ JobInv /\ AnswerTruthful)'
  BY <1>2 DEF ReadMalformed
<1>3. ASSUME NEW c \in Conn, TryLock(c) PROVE (TaskInv /\ JobInv /\ AnswerTruthful)'
  BY <1>3 DEF TryLock
<1>4. ASSUME NEW c \in Conn, TryLockBusy(c) PROVE (TaskInv /\ JobInv /\ AnswerTruthful)'
  BY <1>4 DEF TryLockBusy
<1>5. ASSUME NEW c \in Conn, CheckAuthenticationRate(c) PROVE (TaskInv /\ JobInv /\ AnswerTruthful)'
  BY <1>5 DEF CheckAuthenticationRate
<1>6. ASSUME NEW c \in Conn, CheckBeforeVerify(c) PROVE (TaskInv /\ JobInv /\ AnswerTruthful)'
  BY <1>6 DEF CheckBeforeVerify
<1>7. ASSUME NEW c \in Conn, AcquirePermit(c) PROVE (TaskInv /\ JobInv /\ AnswerTruthful)'
  BY <1>7 DEF AcquirePermit
<1>8. ASSUME NEW c \in Conn, IssueAdminLease(c) PROVE (TaskInv /\ JobInv /\ AnswerTruthful)'
  BY <1>8 DEF IssueAdminLease
<1>9. ASSUME NEW c \in Conn, MintRevealToken(c) PROVE (TaskInv /\ JobInv /\ AnswerTruthful)'
  BY <1>9 DEF MintRevealToken
<1>10. ASSUME NEW c \in Conn, HandleStatus(c) PROVE (TaskInv /\ JobInv /\ AnswerTruthful)'
  <2>1. /\ Handling(c, "Status") /\ UNCHANGED <<vault, req, applied, job, server>>
        /\ lease' = lease \/ lease' = "none"
        /\ \E a \in {"ok", "failed"} : Reply(c, a)
    BY <1>10 DEF HandleStatus, PurgeLease, DropLeaseIf
  <2> QED
    BY <2>1
<1>11. ASSUME NEW c \in Conn, HandleLock(c) PROVE (TaskInv /\ JobInv /\ AnswerTruthful)'
  BY <1>11 DEF HandleLock
<1>12. ASSUME NEW c \in Conn, HandleStop(c) PROVE (TaskInv /\ JobInv /\ AnswerTruthful)'
  BY <1>12 DEF HandleStop
<1>13. ASSUME NEW c \in Conn, HandleAdminStatus(c) PROVE (TaskInv /\ JobInv /\ AnswerTruthful)'
  BY <1>13 DEF HandleAdminStatus
<1>14. ASSUME NEW c \in Conn, HandleAdminLock(c) PROVE (TaskInv /\ JobInv /\ AnswerTruthful)'
  BY <1>14 DEF HandleAdminLock
<1>15. ASSUME NEW c \in Conn, HandleRead(c) PROVE (TaskInv /\ JobInv /\ AnswerTruthful)'
  BY <1>15 DEF HandleRead
<1>16. ASSUME NEW c \in Conn, HandleMutate(c) PROVE (TaskInv /\ JobInv /\ AnswerTruthful)'
  BY <1>16 DEF HandleMutate
<1>17. ASSUME NEW c \in Conn, HandleReveal(c) PROVE (TaskInv /\ JobInv /\ AnswerTruthful)'
  BY <1>17 DEF HandleReveal
<1>18. ASSUME NEW c \in Conn, PrepareHttpRequest(c) PROVE (TaskInv /\ JobInv /\ AnswerTruthful)'
  BY <1>18 DEF PrepareHttpRequest
<1>19. ASSUME NEW c \in Conn, SendHttpRequest(c) PROVE (TaskInv /\ JobInv /\ AnswerTruthful)'
  BY <1>19 DEF SendHttpRequest
<1>20. ASSUME NEW c \in Conn, FinishHttpRequest(c) PROVE (TaskInv /\ JobInv /\ AnswerTruthful)'
  BY <1>20 DEF FinishHttpRequest
<1>21. ASSUME NEW c \in Conn, Timeout(c) PROVE (TaskInv /\ JobInv /\ AnswerTruthful)'
  BY <1>21 DEF Timeout
<1>22. ASSUME NEW c \in Conn, CloseConnection(c) PROVE (TaskInv /\ JobInv /\ AnswerTruthful)'
  BY <1>22 DEF CloseConnection
<1>23. ASSUME NEW c \in Conn, FinishVerify(c) PROVE (TaskInv /\ JobInv /\ AnswerTruthful)'
  BY <1>23 DEF FinishVerify
<1>24. ASSUME NEW c \in Conn, PortabilityTryLock(c) PROVE (TaskInv /\ JobInv /\ AnswerTruthful)'
  BY <1>24 DEF PortabilityTryLock
<1>25. ASSUME NEW c \in Conn, PortabilityRun(c) PROVE (TaskInv /\ JobInv /\ AnswerTruthful)'
  BY <1>25 DEF PortabilityRun
<1>26. ASSUME NEW c \in Conn, DiscardJob(c) PROVE (TaskInv /\ JobInv /\ AnswerTruthful)'
  BY <1>26 DEF DiscardJob
<1>27. ASSUME NEW c \in Conn, SpawnConnection(c) PROVE (TaskInv /\ JobInv /\ AnswerTruthful)'
  BY <1>27 DEF SpawnConnection
<1>28. ASSUME NEW c \in Conn, AbortConnection(c) PROVE (TaskInv /\ JobInv /\ AnswerTruthful)'
  BY <1>28 DEF AbortConnection
<1>29. ASSUME AcceptConnection PROVE (TaskInv /\ JobInv /\ AnswerTruthful)'
  BY <1>29 DEF AcceptConnection
<1>30. ASSUME AcceptorLocks PROVE (TaskInv /\ JobInv /\ AnswerTruthful)'
  BY <1>30 DEF AcceptorLocks
<1>31. ASSUME DropConnection PROVE (TaskInv /\ JobInv /\ AnswerTruthful)'
  BY <1>31 DEF DropConnection
<1>32. ASSUME BeginShutdown PROVE (TaskInv /\ JobInv /\ AnswerTruthful)'
  BY <1>32 DEF BeginShutdown
<1>33. ASSUME FinishShutdown PROVE (TaskInv /\ JobInv /\ AnswerTruthful)'
  BY <1>33 DEF FinishShutdown
<1>34. ASSUME AcceptFails PROVE (TaskInv /\ JobInv /\ AnswerTruthful)'
  BY <1>34 DEF AcceptFails
<1>35. ASSUME LeaseFallsDue PROVE (TaskInv /\ JobInv /\ AnswerTruthful)'
  BY <1>35 DEF LeaseFallsDue
<1>36. ASSUME Signal PROVE (TaskInv /\ JobInv /\ AnswerTruthful)'
  BY <1>36 DEF Signal
<1>37. CASE UNCHANGED vars
  BY <1>37 DEF vars
<1> QED
  BY <1>1, <1>2, <1>3, <1>4, <1>5, <1>6, <1>7, <1>8, <1>9, <1>10, <1>11,
     <1>12, <1>13, <1>14, <1>15, <1>16, <1>17, <1>18, <1>19, <1>20, <1>21,
     <1>22, <1>23, <1>24, <1>25, <1>26, <1>27, <1>28, <1>29, <1>30, <1>31,
     <1>32, <1>33, <1>34, <1>35, <1>36, <1>37
  DEF Next, ConnectionStep, JobStep, LoopStep

\* The accept loop lets go of the mutex before it leaves `admit`, and what it
\* leaves behind when it exits stays as it is.
LEMMA LoopInvStep ==
  ASSUME TypeOK, LoopInv, [Next]_vars
  PROVE  LoopInv'
<1> USE DEF TypeOK, LoopInv, Goto, Reply, Critical, Handling, Carried, Refused,
            ReplyFromJob, DropVault, runtime, server, LockPc, LoopState
<1>1. ASSUME NEW c \in Conn, ReadRequest(c) PROVE LoopInv'
  BY <1>1 DEF ReadRequest
<1>2. ASSUME NEW c \in Conn, ReadMalformed(c) PROVE LoopInv'
  BY <1>2 DEF ReadMalformed
<1>3. ASSUME NEW c \in Conn, TryLock(c) PROVE LoopInv'
  BY <1>3, DaemonAssumption DEF TryLock
<1>4. ASSUME NEW c \in Conn, TryLockBusy(c) PROVE LoopInv'
  BY <1>4 DEF TryLockBusy
<1>5. ASSUME NEW c \in Conn, CheckAuthenticationRate(c) PROVE LoopInv'
  BY <1>5, DaemonAssumption DEF CheckAuthenticationRate
<1>6. ASSUME NEW c \in Conn, CheckBeforeVerify(c) PROVE LoopInv'
  BY <1>6, DaemonAssumption DEF CheckBeforeVerify
<1>7. ASSUME NEW c \in Conn, AcquirePermit(c) PROVE LoopInv'
  BY <1>7 DEF AcquirePermit
<1>8. ASSUME NEW c \in Conn, IssueAdminLease(c) PROVE LoopInv'
  BY <1>8, DaemonAssumption DEF IssueAdminLease
<1>9. ASSUME NEW c \in Conn, MintRevealToken(c) PROVE LoopInv'
  BY <1>9, DaemonAssumption DEF MintRevealToken
<1>10. ASSUME NEW c \in Conn, HandleStatus(c) PROVE LoopInv'
  BY <1>10, DaemonAssumption DEF HandleStatus
<1>11. ASSUME NEW c \in Conn, HandleLock(c) PROVE LoopInv'
  BY <1>11, DaemonAssumption DEF HandleLock
<1>12. ASSUME NEW c \in Conn, HandleStop(c) PROVE LoopInv'
  BY <1>12, DaemonAssumption DEF HandleStop
<1>13. ASSUME NEW c \in Conn, HandleAdminStatus(c) PROVE LoopInv'
  BY <1>13, DaemonAssumption DEF HandleAdminStatus
<1>14. ASSUME NEW c \in Conn, HandleAdminLock(c) PROVE LoopInv'
  BY <1>14, DaemonAssumption DEF HandleAdminLock
<1>15. ASSUME NEW c \in Conn, HandleRead(c) PROVE LoopInv'
  BY <1>15, DaemonAssumption DEF HandleRead
<1>16. ASSUME NEW c \in Conn, HandleMutate(c) PROVE LoopInv'
  BY <1>16, DaemonAssumption DEF HandleMutate
<1>17. ASSUME NEW c \in Conn, HandleReveal(c) PROVE LoopInv'
  BY <1>17, DaemonAssumption DEF HandleReveal
<1>18. ASSUME NEW c \in Conn, PrepareHttpRequest(c) PROVE LoopInv'
  BY <1>18, DaemonAssumption DEF PrepareHttpRequest
<1>19. ASSUME NEW c \in Conn, SendHttpRequest(c) PROVE LoopInv'
  BY <1>19 DEF SendHttpRequest
<1>20. ASSUME NEW c \in Conn, FinishHttpRequest(c) PROVE LoopInv'
  BY <1>20 DEF FinishHttpRequest
<1>21. ASSUME NEW c \in Conn, Timeout(c) PROVE LoopInv'
  BY <1>21 DEF Timeout
<1>22. ASSUME NEW c \in Conn, CloseConnection(c) PROVE LoopInv'
  BY <1>22 DEF CloseConnection
<1>23. ASSUME NEW c \in Conn, FinishVerify(c) PROVE LoopInv'
  BY <1>23 DEF FinishVerify
<1>24. ASSUME NEW c \in Conn, PortabilityTryLock(c) PROVE LoopInv'
  BY <1>24, DaemonAssumption DEF PortabilityTryLock
<1>25. ASSUME NEW c \in Conn, PortabilityRun(c) PROVE LoopInv'
  BY <1>25, DaemonAssumption DEF PortabilityRun
<1>26. ASSUME NEW c \in Conn, DiscardJob(c) PROVE LoopInv'
  BY <1>26 DEF DiscardJob
<1>27. ASSUME NEW c \in Conn, SpawnConnection(c) PROVE LoopInv'
  BY <1>27, DaemonAssumption DEF SpawnConnection
<1>28. ASSUME NEW c \in Conn, AbortConnection(c) PROVE LoopInv'
  BY <1>28 DEF AbortConnection
<1>29. ASSUME AcceptConnection PROVE LoopInv'
  BY <1>29 DEF AcceptConnection
<1>30. ASSUME AcceptorLocks PROVE LoopInv'
  BY <1>30 DEF AcceptorLocks
<1>31. ASSUME DropConnection PROVE LoopInv'
  BY <1>31, DaemonAssumption DEF DropConnection
<1>32. ASSUME BeginShutdown PROVE LoopInv'
  BY <1>32 DEF BeginShutdown
<1>33. ASSUME FinishShutdown PROVE LoopInv'
  BY <1>33 DEF FinishShutdown
<1>34. ASSUME AcceptFails PROVE LoopInv'
  BY <1>34 DEF AcceptFails
<1>35. ASSUME LeaseFallsDue PROVE LoopInv'
  BY <1>35 DEF LeaseFallsDue
<1>36. ASSUME Signal PROVE LoopInv'
  BY <1>36 DEF Signal
<1>37. CASE UNCHANGED vars
  BY <1>37 DEF vars
<1> QED
  BY <1>1, <1>2, <1>3, <1>4, <1>5, <1>6, <1>7, <1>8, <1>9, <1>10, <1>11,
     <1>12, <1>13, <1>14, <1>15, <1>16, <1>17, <1>18, <1>19, <1>20, <1>21,
     <1>22, <1>23, <1>24, <1>25, <1>26, <1>27, <1>28, <1>29, <1>30, <1>31,
     <1>32, <1>33, <1>34, <1>35, <1>36, <1>37
  DEF Next, ConnectionStep, JobStep, LoopStep

\* A request keeps its kind of lease, and only a mint sets the digest.
LEMMA MintStep ==
  ASSUME TypeOK, MintInv, [Next]_vars
  PROVE  MintInv'
<1> USE DEF TypeOK, MintInv, Lease, NoToken, AdminGranted, runtime, Handling, Critical,
            DropLease, DropLeaseIf, PurgeLease, RequireAdmin, DropVault
<1>1. ASSUME NEW c \in Conn,
           ReadMalformed(c) \/ TryLock(c) \/
           TryLockBusy(c) \/ CheckAuthenticationRate(c) \/
           AcquirePermit(c) \/ HandleRead(c) \/
           PrepareHttpRequest(c) \/ SendHttpRequest(c) \/
           FinishHttpRequest(c) \/ Timeout(c) \/
           CloseConnection(c) \/ FinishVerify(c) \/
           PortabilityTryLock(c) \/ DiscardJob(c) \/
           AbortConnection(c)
     PROVE  UNCHANGED <<req, digest, minted>>
  BY <1>1 DEF ReadMalformed, TryLock, TryLockBusy,
     CheckAuthenticationRate, AcquirePermit, HandleRead, PrepareHttpRequest,
     SendHttpRequest, FinishHttpRequest, Timeout, CloseConnection,
     FinishVerify, PortabilityTryLock, DiscardJob, AbortConnection
<1>2. ASSUME AcceptConnection \/ AcceptorLocks \/ DropConnection \/
           BeginShutdown \/ AcceptFails \/ Signal \/ LeaseFallsDue
     PROVE  UNCHANGED <<req, digest, minted>>
  BY <1>2 DEF AcceptConnection, AcceptorLocks, DropConnection,
     BeginShutdown, AcceptFails, Signal, LeaseFallsDue
<1>3. ASSUME NEW c \in Conn,
           CheckBeforeVerify(c) \/ IssueAdminLease(c) \/ HandleStatus(c) \/
           HandleLock(c) \/ HandleStop(c) \/ HandleAdminStatus(c) \/
           HandleAdminLock(c) \/ HandleMutate(c) \/ HandleReveal(c) \/
           PortabilityRun(c)
      PROVE UNCHANGED <<req, minted>> /\ digest' \in {digest, NoToken}
  BY <1>3 DEF CheckBeforeVerify, IssueAdminLease, HandleStatus, HandleLock, HandleStop,
     HandleAdminStatus, HandleAdminLock, HandleMutate, HandleReveal, PortabilityRun
<1>4. ASSUME FinishShutdown
      PROVE UNCHANGED <<req, minted>> /\ digest' \in {digest, NoToken}
  BY <1>4 DEF FinishShutdown
<1>5. ASSUME NEW c \in Conn, ReadRequest(c) PROVE MintInv'
  <2>1. PICK r \in Requests : req' = [req EXCEPT ![c] = r]
    BY <1>5 DEF ReadRequest
  <2>2. r.op = "AdminUnlock" => r.ttl \in {"timed", "untimed"}
    BY DaemonAssumption DEF Requests
  <2> QED
    BY <1>5, <2>1, <2>2 DEF ReadRequest
<1>6. ASSUME NEW c \in Conn, SpawnConnection(c) PROVE MintInv'
  BY <1>6 DEF SpawnConnection, NoRequest
<1>7. ASSUME NEW c \in Conn, MintRevealToken(c) PROVE MintInv'
  <2>1. req' \in {req, [req EXCEPT ![c].token = minted + 1]}
    BY <1>7 DEF MintRevealToken
  <2>2. \A d \in Conn : req'[d].op = req[d].op /\ req'[d].ttl = req[d].ttl
    BY <2>1 DEF Request
  <2>3. digest' <= minted'
    BY <1>7 DEF MintRevealToken
  <2> QED
    BY <2>2, <2>3
<1>8. CASE UNCHANGED <<req, minted>> /\ digest' \in {digest, NoToken}
  BY <1>8
<1>9. CASE UNCHANGED vars
  BY <1>9 DEF vars
<1> QED
  BY <1>1, <1>2, <1>3, <1>4, <1>5, <1>6, <1>7, <1>8, <1>9
  DEF Next, ConnectionStep, JobStep, LoopStep

\* Every step keeps the inductive invariant.
LEMMA InvStep == ASSUME IInv, [Next]_vars PROVE IInv'
BY TypeStep, LeaseStep, PermitStep, RequestStep, MintStep, LoopInvStep DEF IInv

\* The inductive invariant holds throughout.
THEOREM Invariance == Spec => []IInv
<1>1. Init => IInv
  BY InitInv
<1>2. IInv /\ [Next]_vars => IInv'
  BY InvStep
<1> QED
  BY <1>1, <1>2, PTL DEF Spec

-----------------------------------------------------------------------------
(* What follows from it.                                                   *)

\* A locked daemon never holds an admin lease.
THEOREM LeaseSafety == Spec => []LeaseNeedsVault
BY Invariance, PTL DEF IInv

\* At most one password verification is under way, and it owns the permit.
THEOREM VerificationSafety == Spec => []OneVerification
BY Invariance, PTL DEF IInv

\* The reveal digest was minted under the lease that carries it.
THEOREM TokenSafety == Spec => []TokenOfThisLease
BY Invariance, PTL DEF IInv

\* Answers tell the truth about effects.
THEOREM AnswerSafety == Spec => []AnswerTruthful
BY Invariance, PTL DEF IInv

\* A Reveal takes effect only in RevealSecretValue's handler.
LEMMA RevealStep ==
  ASSUME IInv, [Next]_vars, NEW d \in Conn, req[d].op = "Reveal",
         d \in applied' \ applied
  PROVE  AdminGranted /\ digest # NoToken /\ digest = req[d].token
<1> USE DEF IInv, Handling, Critical, Carried, Refused, Reply, server
<1>1. ASSUME NEW c \in Conn,
           ReadRequest(c) \/ ReadMalformed(c) \/ TryLock(c) \/
           TryLockBusy(c) \/ CheckAuthenticationRate(c) \/
           CheckBeforeVerify(c) \/ AcquirePermit(c) \/
           HandleStatus(c) \/ HandleAdminStatus(c) \/
           HandleRead(c) \/ PrepareHttpRequest(c) \/
           FinishHttpRequest(c) \/ Timeout(c) \/
           CloseConnection(c) \/ FinishVerify(c) \/
           PortabilityTryLock(c) \/ DiscardJob(c) \/
           SpawnConnection(c) \/ AbortConnection(c)
     PROVE  applied' \subseteq applied
  BY <1>1 DEF ReadRequest, ReadMalformed, TryLock, TryLockBusy,
     CheckAuthenticationRate, CheckBeforeVerify, AcquirePermit,
     HandleStatus, HandleAdminStatus, HandleRead, PrepareHttpRequest,
     FinishHttpRequest, Timeout, CloseConnection, FinishVerify,
     PortabilityTryLock, DiscardJob, SpawnConnection, AbortConnection
<1>2. ASSUME LoopStep \/ LeaseFallsDue \/ Signal
     PROVE  applied' \subseteq applied
  BY <1>2 DEF LoopStep, SpawnConnection, AcceptConnection, AcceptorLocks,
     DropConnection, BeginShutdown, FinishShutdown, AcceptFails,
     LeaseFallsDue, Signal
<1>3. ASSUME NEW c \in Conn,
           IssueAdminLease(c) \/ MintRevealToken(c) \/
           HandleLock(c) \/ HandleStop(c) \/ HandleAdminLock(c) \/
           HandleMutate(c) \/ SendHttpRequest(c) \/
           PortabilityRun(c)
     PROVE  applied' \ applied \subseteq {c} /\ req[c].op # "Reveal"
  <2>1. CASE IssueAdminLease(c)
    BY <2>1 DEF IssueAdminLease
  <2>2. CASE MintRevealToken(c)
    BY <2>2 DEF MintRevealToken
  <2>3. CASE HandleLock(c)
    BY <2>3 DEF HandleLock
  <2>4. CASE HandleStop(c)
    BY <2>4 DEF HandleStop
  <2>5. CASE HandleAdminLock(c)
    BY <2>5 DEF HandleAdminLock
  <2>6. CASE HandleMutate(c)
    BY <2>6 DEF HandleMutate
  <2>7. CASE SendHttpRequest(c)
    BY <2>7 DEF SendHttpRequest, TaskInv
  <2>8. CASE PortabilityRun(c)
    BY <2>8 DEF PortabilityRun, JobInv
  <2> QED
    BY <1>3, <2>1, <2>2, <2>3, <2>4, <2>5, <2>6, <2>7, <2>8
<1>4. ASSUME NEW c \in Conn, HandleReveal(c)
      PROVE  AdminGranted /\ digest # NoToken /\ digest = req[d].token
  BY <1>4 DEF HandleReveal
<1>5. CASE UNCHANGED vars
  BY <1>5 DEF vars
<1> QED
  BY <1>1, <1>2, <1>3, <1>4, <1>5
  DEF Next, ConnectionStep, JobStep

\* Plaintext is revealed only with a token minted under the active lease.
THEOREM RevealSafety == Spec => RevealNeedsCurrentProof
<1>1. IInv /\ [Next]_vars => [\A c \in Conn :
          req[c].op = "Reveal" /\ c \in applied' \ applied =>
              AdminGranted /\ req[c].token \in live]_vars
  BY RevealStep DEF IInv, TokenOfThisLease
<1> QED
  BY Invariance, <1>1, PTL DEF Spec, RevealNeedsCurrentProof

\* After an orderly exit nothing takes effect: no task is left, and a portability
\* job that still runs finds no lease.
LEMMA QuietStep ==
  ASSUME IInv, [Next]_vars, loop = "exited"
  PROVE  applied' \subseteq applied
<1>0. vault = "locked" /\ \A c \in Conn : pc[c] = "idle"
  BY DEF IInv, LoopInv
<1>1. ASSUME NEW c \in Conn,
           ReadRequest(c) \/ ReadMalformed(c) \/ TryLock(c) \/
           TryLockBusy(c) \/ CheckAuthenticationRate(c) \/
           CheckBeforeVerify(c) \/ AcquirePermit(c) \/
           IssueAdminLease(c) \/ MintRevealToken(c) \/
           HandleStatus(c) \/ HandleLock(c) \/ HandleStop(c) \/
           HandleAdminStatus(c) \/ HandleAdminLock(c) \/
           HandleRead(c) \/ HandleMutate(c) \/ HandleReveal(c) \/
           PrepareHttpRequest(c) \/ SendHttpRequest(c) \/
           FinishHttpRequest(c) \/ Timeout(c) \/
           AbortConnection(c)
     PROVE  pc[c] # "idle"
  BY <1>1 DEF LockPc, Critical, Handling, ReadRequest, ReadMalformed,
     TryLock, TryLockBusy, CheckAuthenticationRate, CheckBeforeVerify,
     AcquirePermit, IssueAdminLease, MintRevealToken, HandleStatus,
     HandleLock, HandleStop, HandleAdminStatus, HandleAdminLock, HandleRead,
     HandleMutate, HandleReveal, PrepareHttpRequest, SendHttpRequest,
     FinishHttpRequest, Timeout, AbortConnection
<1>2. ASSUME NEW c \in Conn, CloseConnection(c) \/ FinishVerify(c) \/ PortabilityTryLock(c) \/ DiscardJob(c)
     PROVE  applied' \subseteq applied
  BY <1>2 DEF CloseConnection, FinishVerify, PortabilityTryLock, DiscardJob
<1>3. ASSUME NEW c \in Conn, PortabilityRun(c) PROVE applied' \subseteq applied
  BY <1>3, <1>0 DEF PortabilityRun, AdminGranted
<1>4. ASSUME LoopStep \/ LeaseFallsDue \/ Signal
     PROVE  applied' \subseteq applied
  BY <1>4 DEF LoopStep, SpawnConnection, AcceptConnection, AcceptorLocks,
     DropConnection, BeginShutdown, FinishShutdown, AcceptFails,
     LeaseFallsDue, Signal
<1>5. CASE UNCHANGED vars
  BY <1>5 DEF vars
<1> QED
  BY <1>0, <1>1, <1>2, <1>3, <1>4, <1>5
  DEF Next, ConnectionStep, JobStep

\* As long as accept never fails, nothing takes effect once the lifetime lock is
\* let go.
THEOREM QuietAfterOrderlyExit ==
  ASSUME AcceptErrors = FALSE
  PROVE  Spec => QuietAfterExit
<1>1. IInv /\ [Next]_vars => [~LifetimeLockHeld => applied' \subseteq applied]_vars
  <2>1. IInv /\ ~LifetimeLockHeld => loop = "exited"
    BY DEF IInv, LoopInv, LifetimeLockHeld
  <2> QED
    BY <2>1, QuietStep
<1> QED
  BY Invariance, <1>1, PTL DEF Spec, QuietAfterExit

-----------------------------------------------------------------------------

\* On a locked daemon a step applies nothing but a Lock, a Stop or a brokered request:
\* every other effect looks at the vault or at the lease, which is gone with it.
LEMMA LockedStep ==
  ASSUME IInv, [Next]_vars, vault = "locked"
  PROVE  /\ vault' = "locked"
         /\ \A d \in applied' \ applied : req[d].op \in {"Lock", "Stop", "Http"}
<1> DEFINE Unmoved == UNCHANGED vault /\ applied' \subseteq applied
<1>1. ASSUME NEW c \in Conn,
           ReadRequest(c) \/ ReadMalformed(c) \/ TryLock(c) \/
           TryLockBusy(c) \/ CheckAuthenticationRate(c) \/
           CheckBeforeVerify(c) \/ AcquirePermit(c) \/
           HandleStatus(c) \/ HandleAdminStatus(c) \/
           HandleRead(c) \/ PrepareHttpRequest(c) \/
           FinishHttpRequest(c) \/ Timeout(c) \/
           CloseConnection(c) \/ FinishVerify(c) \/
           PortabilityTryLock(c) \/ DiscardJob(c) \/ AbortConnection(c)
     PROVE  Unmoved
  BY <1>1 DEF ReadRequest, ReadMalformed, TryLock, TryLockBusy, runtime,
     CheckAuthenticationRate, CheckBeforeVerify, AcquirePermit,
     HandleStatus, HandleAdminStatus, HandleRead, PrepareHttpRequest,
     FinishHttpRequest, Timeout, CloseConnection, FinishVerify,
     PortabilityTryLock, DiscardJob, AbortConnection
<1>2. ASSUME NEW c \in Conn,
           IssueAdminLease(c) \/ MintRevealToken(c) \/ HandleAdminLock(c) \/
           HandleMutate(c) \/ HandleReveal(c) \/ PortabilityRun(c)
      PROVE  Unmoved
  BY <1>2 DEF IssueAdminLease, MintRevealToken, HandleAdminLock, HandleMutate, HandleReveal,
     PortabilityRun, AdminGranted, Refused
<1>3. ASSUME NEW c \in Conn, HandleLock(c) \/ HandleStop(c)
      PROVE  /\ vault' = "locked" /\ applied' \ applied \subseteq {c}
             /\ req[c].op \in {"Lock", "Stop"}
  BY <1>3 DEF HandleLock, HandleStop, Handling, DropVault, Carried
<1>4. ASSUME NEW c \in Conn, SendHttpRequest(c)
      PROVE  UNCHANGED vault /\ applied' \ applied \subseteq {c} /\ req[c].op = "Http"
  BY <1>4 DEF SendHttpRequest, runtime, IInv, TaskInv
<1>5. ASSUME LoopStep \/ LeaseFallsDue \/ Signal
      PROVE  vault' = "locked" /\ applied' \subseteq applied
  BY <1>5 DEF LoopStep, SpawnConnection, AcceptConnection, AcceptorLocks, DropConnection,
     BeginShutdown, FinishShutdown, DropVault, AcceptFails, LeaseFallsDue, Signal, runtime
<1>6. CASE UNCHANGED vars
  BY <1>6 DEF vars
<1> QED
  BY <1>1, <1>2, <1>3, <1>4, <1>5, <1>6
  DEF Next, ConnectionStep, JobStep

\* Locking is final: whatever was queued, verified or waiting at the time, nothing takes
\* effect after it but Lock, Stop and a brokered request that was prepared before.
THEOREM LockFinality == Spec => LockIsFinal
<1>1. IInv /\ [Next]_vars => [vault = "locked" =>
          /\ vault' = "locked"
          /\ \A c \in applied' \ applied : req[c].op \in {"Lock", "Stop", "Http"}]_vars
  BY LockedStep
<1> QED
  BY Invariance, <1>1, PTL DEF Spec, LockIsFinal


-----------------------------------------------------------------------------
(* The daemon implements Authority.                                         *)

\* What Authority sees of a step that leaves the vault and the lease alone and
\* brings nothing about.
SeesNothing ==
    /\ UNCHANGED <<vault, GrantedNow, ProofNow, applied>>
    /\ \A d \in applied : req'[d].op = req[d].op

-----------------------------------------------------------------------------
(* The mapping.                                                            *)

\* Such a step is a stutter.
LEMMA NothingSeen ==
  ASSUME SeesNothing
  PROVE  UNCHANGED A!authorityVars
<1>1. EffectNow' = EffectNow
  BY DEF SeesNothing, EffectNow, EffectName
<1> QED
  BY <1>1 DEF SeesNothing, A!authorityVars

\* A request that is carried out is seen as the one effect of its operation.
LEMMA EffectSeen ==
  ASSUME NEW c \in Conn, applied' = applied \cup {c},
         \A d \in Conn : req'[d].op = req[d].op,
         NEW e, EffectName[req[c].op] = e
  PROVE  A!Has(c, e)
<1>1. EffectNow' = [EffectNow EXCEPT ![c] = e]
  BY DEF EffectNow, EffectName
<1> QED
  BY <1>1 DEF A!Has

\* Looking at the lease, which drops one that is due, is not seen.
LEMMA LookUnseen ==
  ASSUME RequireAdmin \/ PurgeLease, UNCHANGED vault
  PROVE  UNCHANGED <<GrantedNow, ProofNow>>
<1>1. CASE AdminGranted
  BY <1>1 DEF RequireAdmin, PurgeLease, DropLeaseIf, AdminGranted, GrantedNow, ProofNow
<1>2. CASE ~AdminGranted
  BY <1>2 DEF RequireAdmin, PurgeLease, DropLeaseIf, AdminGranted, GrantedNow, ProofNow
<1> QED
  BY <1>1, <1>2

\* A vault without a lease is seen without a grant.
LEMMA NoLeaseSeen ==
  ASSUME vault' = "locked" \/ lease' = "none"
  PROVE  GrantedNow' = FALSE /\ ProofNow' = 0
BY DEF GrantedNow, ProofNow, AdminGranted, NoToken

\* The daemon starts where Authority starts.
LEMMA InitMaps == Init => A!Init
BY DEF Init, A!Init, GrantedNow, ProofNow, AdminGranted, NoToken, EffectNow

-----------------------------------------------------------------------------
(* Every step maps to a step or a stutter.                                 *)

\* Steps that wait, refuse, answer, or look at the lease.
LEMMA QuietStepMaps ==
  ASSUME IInv, NEW c \in Conn,
         \/ ReadRequest(c) \/ ReadMalformed(c) \/ TryLock(c) \/ TryLockBusy(c)
         \/ CheckAuthenticationRate(c) \/ CheckBeforeVerify(c) \/ AcquirePermit(c)
         \/ HandleStatus(c) \/ HandleAdminStatus(c) \/ HandleRead(c)
         \/ PrepareHttpRequest(c) \/ FinishHttpRequest(c) \/ Timeout(c) \/ CloseConnection(c)
         \/ FinishVerify(c) \/ PortabilityTryLock(c) \/ DiscardJob(c) \/ AbortConnection(c)
  PROVE  SeesNothing
<1> USE DEF SeesNothing, runtime
<1>1. ASSUME \/ ReadMalformed(c) \/ TryLock(c) \/ TryLockBusy(c)
             \/ CheckAuthenticationRate(c) \/ AcquirePermit(c) \/ HandleRead(c)
             \/ PrepareHttpRequest(c) \/ FinishHttpRequest(c) \/ Timeout(c)
             \/ CloseConnection(c) \/ FinishVerify(c) \/ PortabilityTryLock(c)
             \/ DiscardJob(c) \/ AbortConnection(c)
      PROVE  UNCHANGED <<runtime, applied, req>>
  BY <1>1 DEF ReadMalformed, TryLock, TryLockBusy, CheckAuthenticationRate, AcquirePermit,
     HandleRead, PrepareHttpRequest, FinishHttpRequest, Timeout, CloseConnection,
     FinishVerify, PortabilityTryLock, DiscardJob, AbortConnection
<1>2. ASSUME UNCHANGED <<runtime, applied, req>>
      PROVE  SeesNothing
  BY <1>2 DEF GrantedNow, ProofNow, AdminGranted
<1>3. CASE ReadRequest(c)
  <2>1. c \notin applied
    BY <1>3 DEF ReadRequest, IInv, TaskInv, BusyPc, Pc
  <2>2. PICK r \in Requests : req' = [req EXCEPT ![c] = r]
    BY <1>3 DEF ReadRequest
  <2>3. \A d \in applied : req'[d] = req[d]
    BY <2>1, <2>2 DEF IInv, TypeOK
  <2>4. UNCHANGED <<runtime, applied>>
    BY <1>3 DEF ReadRequest
  <2> QED
    BY <2>3, <2>4 DEF GrantedNow, ProofNow, AdminGranted
<1>4. CASE CheckBeforeVerify(c)
  <2>1. UNCHANGED <<vault, applied, req>>
    BY <1>4 DEF CheckBeforeVerify
  <2>2. UNCHANGED <<GrantedNow, ProofNow>>
    <3>1. CASE RequireAdmin
      BY <3>1, <2>1, LookUnseen
    <3>2. CASE UNCHANGED <<lease, digest>>
      BY <3>2, <2>1 DEF GrantedNow, ProofNow, AdminGranted
    <3> QED
      BY <1>4, <3>1, <3>2 DEF CheckBeforeVerify
  <2> QED
    BY <2>1, <2>2
<1>5. CASE HandleStatus(c) \/ HandleAdminStatus(c)
  <2>1. /\ UNCHANGED <<vault, applied, req>>
        /\ RequireAdmin \/ PurgeLease \/ UNCHANGED <<lease, digest>>
    BY <1>5 DEF HandleStatus, HandleAdminStatus
  <2>2. CASE RequireAdmin \/ PurgeLease
    BY <2>1, <2>2, LookUnseen
  <2>3. CASE UNCHANGED <<lease, digest>>
    BY <2>1, <2>3 DEF SeesNothing, GrantedNow, ProofNow, AdminGranted
  <2> QED
    BY <2>1, <2>2, <2>3
<1> QED
  BY <1>1, <1>2, <1>3, <1>4, <1>5

\* The accept loop, but for its end, and signals.
LEMMA LoopStepMaps ==
  ASSUME \/ AcceptConnection \/ AcceptorLocks \/ DropConnection
         \/ BeginShutdown \/ AcceptFails \/ Signal
  PROVE  SeesNothing
<1>1. UNCHANGED <<runtime, applied, req>>
  BY DEF AcceptConnection, AcceptorLocks, DropConnection, BeginShutdown, AcceptFails, Signal
<1> QED
  BY <1>1 DEF SeesNothing, runtime, GrantedNow, ProofNow, AdminGranted

\* A slot that is used again begins with a request that has no effect yet.
LEMMA SpawnMaps ==
  ASSUME TypeOK, NEW c \in Conn, SpawnConnection(c)
  PROVE  A!Ask(c)
<1>1. /\ UNCHANGED runtime
      /\ applied' = applied \ {c}
      /\ req' = [req EXCEPT ![c] = NoRequest]
  BY DEF SpawnConnection
<1>2. EffectNow' = [EffectNow EXCEPT ![c] = "none"]
  BY <1>1 DEF EffectNow, TypeOK
<1>3. UNCHANGED <<vault, GrantedNow, ProofNow>>
  BY <1>1 DEF runtime, GrantedNow, ProofNow, AdminGranted
<1> QED
  BY <1>2, <1>3 DEF A!Ask, A!Has

\* issue_admin_lease looks at the vault again after the password was verified.
LEMMA IssueMaps ==
  ASSUME IInv, NEW c \in Conn, IssueAdminLease(c)
  PROVE  A!Grant(c) \/ SeesNothing
<1>1. req[c].op = "AdminUnlock" /\ UNCHANGED <<vault, req>>
  BY DEF IssueAdminLease
<1>2. CASE vault = "unlocked"
  <2>1. /\ lease' = req[c].ttl
        /\ digest' = NoToken
        /\ applied' = applied \cup {c}
    BY <1>2 DEF IssueAdminLease, Carried
  <2>2. req[c].ttl \in {"timed", "untimed"}
    BY <1>1 DEF IInv, MintInv
  <2>3. GrantedNow' = TRUE /\ ProofNow' = 0
    BY <1>1, <1>2, <2>1, <2>2 DEF GrantedNow, ProofNow, AdminGranted, NoToken
  <2>4. A!Has(c, "granted")
    <3>1. EffectName[req[c].op] = "granted"
      BY <1>1, <2>1 DEF EffectName
    <3> QED
      BY <3>1, <1>1, <2>1, EffectSeen
  <2> QED
    BY <1>1, <1>2, <2>3, <2>4 DEF A!Grant
<1>3. CASE vault # "unlocked"
  BY <1>1, <1>3 DEF IssueAdminLease, Refused, SeesNothing, GrantedNow, ProofNow, AdminGranted
<1> QED
  BY <1>2, <1>3

\* mint_reveal_token looks at the lease again, and a new token is another one.
LEMMA MintMaps ==
  ASSUME IInv, NEW c \in Conn, MintRevealToken(c)
  PROVE  A!Prove(c) \/ SeesNothing
<1>1. req[c].op = "IssueRevealToken" /\ UNCHANGED vault
  BY DEF MintRevealToken
<1>2. \A d \in Conn : req'[d].op = req[d].op
  <2>1. req' \in {req, [req EXCEPT ![c].token = minted + 1]}
    BY DEF MintRevealToken
  <2> QED
    BY <2>1 DEF IInv, TypeOK, Request
<1>3. CASE AdminGranted
  <2>1. /\ digest' = minted + 1
        /\ applied' = applied \cup {c}
        /\ UNCHANGED lease
    BY <1>3 DEF MintRevealToken, Carried
  <2>2. GrantedNow /\ GrantedNow' = GrantedNow
    BY <1>1, <1>3, <2>1 DEF GrantedNow, AdminGranted
  <2>3. ProofNow = digest /\ ProofNow' = minted + 1
    BY <1>1, <1>3, <2>1 DEF ProofNow, AdminGranted
  <2>4. ProofNow' \in Nat \ {0, ProofNow}
    BY <2>3 DEF IInv, TypeOK, MintInv
  <2>5. A!Has(c, "proved")
    <3>1. EffectName[req[c].op] = "proved"
      BY <1>1, <1>2, <2>1 DEF EffectName
    <3> QED
      BY <3>1, <1>1, <1>2, <2>1, EffectSeen
  <2> QED
    BY <1>1, <2>2, <2>4, <2>5 DEF A!Prove
<1>4. CASE ~AdminGranted
  <2>1. RequireAdmin /\ UNCHANGED applied
    BY <1>4 DEF MintRevealToken, Refused
  <2> QED
    BY <1>1, <1>2, <2>1, LookUnseen DEF SeesNothing, IInv, TypeOK
<1> QED
  BY <1>3, <1>4

\* Lock and Stop close the vault.
LEMMA CloseMaps ==
  ASSUME NEW c \in Conn, HandleLock(c) \/ HandleStop(c)
  PROVE  A!CloseFor(c)
<1>1. /\ req[c].op \in {"Lock", "Stop"}
      /\ vault' = "locked"
      /\ applied' = applied \cup {c}
      /\ UNCHANGED req
  BY DEF HandleLock, HandleStop, Handling, DropVault, Carried
<1>2. A!Has(c, "closed")
  <2>1. EffectName["Lock"] = "closed" /\ EffectName["Stop"] = "closed"
    BY DEF EffectName
  <2> QED
    BY <2>1, <1>1, EffectSeen
<1> QED
  BY <1>1, <1>2, NoLeaseSeen DEF A!CloseFor, A!Close

\* Giving the lease back.
LEMMA GiveBackMaps ==
  ASSUME IInv, NEW c \in Conn, HandleAdminLock(c)
  PROVE  A!GiveBack(c) \/ SeesNothing
<1>1. req[c].op = "AdminLock" /\ UNCHANGED <<vault, req>>
  BY DEF HandleAdminLock, Handling
<1>2. CASE AdminGranted /\ DropLease /\ Carried(c)
  <2>1. lease' = "none" /\ applied' = applied \cup {c}
    BY <1>2 DEF DropLease, DropLeaseIf, Carried
  <2>2. A!Has(c, "given back")
    <3>1. EffectName[req[c].op] = "given back"
      BY <1>1, <2>1 DEF EffectName
    <3> QED
      BY <3>1, <1>1, <2>1, EffectSeen
  <2> QED
    BY <1>1, <1>2, <2>1, <2>2, NoLeaseSeen DEF A!GiveBack, GrantedNow
<1>3. CASE ~AdminGranted /\ RequireAdmin /\ Refused(c)
  BY <1>1, <1>3, LookUnseen DEF Refused, SeesNothing
<1> QED
  BY <1>2, <1>3 DEF HandleAdminLock

\* What needs the lease finds it, or nothing happens; a package is moved in a
\* blocking thread, long after it was asked for.
LEMMA ChangeMaps ==
  ASSUME IInv, NEW c \in Conn, HandleMutate(c) \/ HandleReveal(c) \/ PortabilityRun(c)
  PROVE  A!Change(c) \/ A!Reveal(c) \/ SeesNothing
<1>1. RequireAdmin /\ UNCHANGED <<vault, req>>
  BY DEF HandleMutate, HandleReveal, PortabilityRun
<1>2. UNCHANGED <<GrantedNow, ProofNow>>
  BY <1>1, LookUnseen
<1>3. CASE UNCHANGED applied
  BY <1>1, <1>2, <1>3 DEF SeesNothing
<1>4. CASE HandleMutate(c) /\ applied' # applied
  <2>1. AdminGranted /\ req[c].op = "Mutate" /\ applied' = applied \cup {c}
    BY <1>4 DEF HandleMutate, Handling, Carried, Refused
  <2>2. A!Has(c, "changed")
    <3>1. EffectName[req[c].op] = "changed"
      BY <1>1, <2>1 DEF EffectName
    <3> QED
      BY <3>1, <1>1, <2>1, EffectSeen
  <2> QED
    BY <1>1, <1>2, <2>1, <2>2 DEF A!Change, GrantedNow
<1>5. CASE HandleReveal(c) /\ applied' # applied
  <2>1. /\ AdminGranted /\ digest # NoToken
        /\ req[c].op = "Reveal"
        /\ applied' = applied \cup {c}
    BY <1>5 DEF HandleReveal, Handling, Carried, Refused
  <2>2. A!Has(c, "revealed")
    <3>1. EffectName[req[c].op] = "revealed"
      BY <1>1, <2>1 DEF EffectName
    <3> QED
      BY <3>1, <1>1, <2>1, EffectSeen
  <2> QED
    BY <1>1, <1>2, <2>1, <2>2 DEF A!Reveal, GrantedNow, ProofNow, NoToken
<1>6. CASE PortabilityRun(c) /\ applied' # applied
  <2>1. AdminGranted /\ applied' = applied \cup {c}
    BY <1>6 DEF PortabilityRun
  <2>2. req[c].op = "Portability"
    BY <1>6 DEF PortabilityRun, IInv, JobInv
  <2>3. A!Has(c, "changed")
    <3>1. EffectName[req[c].op] = "changed"
      BY <1>1, <2>1, <2>2 DEF EffectName
    <3> QED
      BY <3>1, <1>1, <2>1, <2>2, EffectSeen
  <2> QED
    BY <1>1, <1>2, <2>1, <2>3 DEF A!Change, GrantedNow
<1> QED
  BY <1>3, <1>4, <1>5, <1>6

\* A brokered request leaves the daemon.
LEMMA SendMaps ==
  ASSUME IInv, NEW c \in Conn, SendHttpRequest(c)
  PROVE  A!Send(c)
<1>1. applied' = applied \cup {c} /\ UNCHANGED <<runtime, req>>
  BY DEF SendHttpRequest
<1>2. req[c].op = "Http"
  BY DEF SendHttpRequest, IInv, TaskInv
<1>3. A!Has(c, "sent")
  <2>1. EffectName[req[c].op] = "sent"
    BY <1>1, <1>2 DEF EffectName
  <2> QED
    BY <2>1, <1>1, <1>2, EffectSeen
<1> QED
  BY <1>1, <1>3 DEF A!Send, runtime, GrantedNow, ProofNow, AdminGranted

\* The lease's deadline passes, or the daemon ends.
LEMMA EndMaps ==
  ASSUME IInv, LeaseFallsDue \/ FinishShutdown
  PROVE  A!Lapse \/ A!CloseAtExit
<1>1. UNCHANGED <<applied, req>>
  BY DEF LeaseFallsDue, FinishShutdown
<1>2. UNCHANGED EffectNow
  BY <1>1 DEF EffectNow
<1>3. CASE LeaseFallsDue
  <2>1. GrantedNow' = FALSE /\ ProofNow' = 0 /\ UNCHANGED vault
    BY <1>3 DEF LeaseFallsDue, GrantedNow, ProofNow, AdminGranted, NoToken
  <2> QED
    BY <1>2, <2>1 DEF A!Lapse
<1>4. CASE FinishShutdown
  <2>1. vault' = "locked"
    BY <1>4 DEF FinishShutdown, DropVault
  <2> QED
    BY <1>2, <2>1, NoLeaseSeen DEF A!CloseAtExit, A!Close
<1> QED
  BY <1>3, <1>4

\* Every step of the daemon is a step of Authority, or nothing it sees.
LEMMA StepMaps ==
  ASSUME IInv, [Next]_vars
  PROVE  A!Next \/ UNCHANGED A!authorityVars
<1>1. ASSUME NEW c \in Conn, ConnectionStep(c) \/ JobStep(c) \/ AbortConnection(c)
      PROVE  \/ A!Grant(c) \/ A!Prove(c) \/ A!CloseFor(c) \/ A!GiveBack(c) \/ A!Change(c)
             \/ A!Reveal(c) \/ A!Send(c) \/ SeesNothing
  BY <1>1, QuietStepMaps, IssueMaps, MintMaps, CloseMaps, GiveBackMaps, ChangeMaps, SendMaps
  DEF ConnectionStep, JobStep
<1>2. ASSUME LoopStep
      PROVE  (\E c \in Conn : A!Ask(c)) \/ A!Lapse \/ A!CloseAtExit \/ SeesNothing
  BY <1>2, LoopStepMaps, SpawnMaps, EndMaps DEF LoopStep, IInv
<1>3. ASSUME LeaseFallsDue \/ Signal
      PROVE  A!Lapse \/ A!CloseAtExit \/ SeesNothing
  BY <1>3, LoopStepMaps, EndMaps
<1>4. ASSUME UNCHANGED vars
      PROVE  SeesNothing
  <2>1. UNCHANGED <<vault, lease, digest, applied, req>>
    BY <1>4 DEF vars
  <2> QED
    BY <2>1 DEF SeesNothing, GrantedNow, ProofNow, AdminGranted
<1> QED
  BY <1>1, <1>2, <1>3, <1>4, NothingSeen DEF Next, A!Next

\* The daemon keeps what Authority promises: a verification, a mint or an import that
\* ends after its grant was taken away has no effect (process_decoded_request).
THEOREM ImplementsAuthority == Spec => KeepsAuthority
<1>1. Init => A!Init
  BY InitMaps
<1>2. IInv /\ [Next]_vars => [A!Next]_(A!authorityVars)
  BY StepMaps
<1> QED
  BY Invariance, <1>1, <1>2, PTL DEF Spec, KeepsAuthority, A!Spec
=============================================================================
