-------------------------- MODULE Lifecycle_proofs --------------------------
(***************************************************************************)
(* Proofs about Lifecycle for every number of commands and processes, and  *)
(* for everything others may do: the inductive invariant LifecycleInv, and *)
(* from it that one process at a time has the vault open, that a live      *)
(* daemon keeps its socket path, and that a failed start leaves no child.  *)
(***************************************************************************)
EXTENDS Lifecycle, TLAPS

-----------------------------------------------------------------------------
(* A command that was answered, or is not.                                  *)

\* The results request() can give to a command that waits at p.
Results(p) == IF p = "stop" THEN {"ack", "not_running", "protocol", "timeout"}
              ELSE {"unlocked", "locked", "not_running", "protocol", "timeout"}

\* Where a result leads: only a command that awaits another start's daemon goes
\* on waiting for it, and it cannot fail by a result.
LEMMA AfterResult ==
  ASSUME NEW p \in Asking, NEW r \in Results(p)
  PROVE  /\ p = "await" => After[p][r] \in {"await", "ok"}
         /\ p # "await" => After[p][r] \in {"ok", "failed", "queue", "stop", "spawn", "drain"}
<1>1. CASE p = "peek"
  BY <1>1 DEF After, Results
<1>2. CASE p = "probe"
  BY <1>2 DEF After, Results
<1>3. CASE p = "stop"
  BY <1>3 DEF After, Results
<1>4. CASE p = "ask"
  BY <1>4 DEF After, Results
<1>5. CASE p = "await"
  BY <1>5 DEF After, Results
<1> QED
  BY <1>1, <1>2, <1>3, <1>4, <1>5 DEF Asking

\* A result moves the command, whose connection is over, and nothing else.
LEMMA ResultInv ==
  ASSUME LifecycleInv, NEW c \in Cli, pc[c] \in Asking,
         NEW r \in Results(pc[c]), Result(c, r),
         unlocked' \in SUBSET unlocked, stopping' \in SUBSET Process,
         told' \in [Cli -> Process \cup {Nobody}], disturbed' \in {"no", "yes"},
         UNCHANGED <<lifetimeLock, socket, phase, answer, child>>
  PROVE  LifecycleInv'
<1> USE LifecycleAssumption DEF LifecycleInv
<1> PICK p : /\ GoTo(c, p)
             /\ p \in {"await", "ok"} \/ (pc[c] # "await" /\ p \in
                   {"ok", "failed", "queue", "stop", "spawn", "drain", "probe"})
             /\ p = "await" => pc[c] = "await"
             /\ probes' \in [Cli -> 0 .. MaxProbes]
  <2>1. CASE pc[c] = "probe" /\ r = "protocol" /\ probes[c] < MaxProbes
    BY <2>1 DEF Result, TypeOK
  <2>2. CASE ~(pc[c] = "probe" /\ r = "protocol" /\ probes[c] < MaxProbes)
    BY <2>2, AfterResult DEF Result, TypeOK
  <2> QED
    BY <2>1, <2>2
<1>1. TypeOK'
  BY DEF TypeOK, GoTo, Pc, Asking, Ended
<1>2. LockHeld'
  BY DEF LockHeld, TypeOK, GoTo
<1>3. LiveSocket'
  BY DEF LiveSocket
<1>4. ChildKnown'
  BY DEF ChildKnown, TypeOK, GoTo, Pc, Asking, Ended
<1>5. NoOrphan'
  BY DEF NoOrphan, ChildKnown, TypeOK, GoTo, Pc, Asking, Ended
<1> QED
  BY <1>1, <1>2, <1>3, <1>4, <1>5

LEMMA ConnectInv ==
  ASSUME LifecycleInv, NEW c \in Cli, Connect(c)
  PROVE  LifecycleInv'
<1> USE LifecycleAssumption
<1>1. CASE Result(c, "protocol") \/ Result(c, "not_running")
  <2>1. {"protocol", "not_running"} \subseteq Results(pc[c])
    BY DEF Results
  <2> QED
    BY <1>1, <2>1, ResultInv DEF Connect, daemons, LifecycleInv, TypeOK
<1>2. CASE /\ socket # Nobody
           /\ conn' = [conn EXCEPT ![c] = socket]
           /\ UNCHANGED <<pc, probes, startLock>>
  <2> USE <1>2 DEF Connect, LifecycleInv, daemons
  <2>1. TypeOK'
    BY DEF TypeOK
  <2>2. ChildKnown'
    BY DEF ChildKnown, TypeOK
  <2>3. LockHeld' /\ LiveSocket' /\ NoOrphan'
    BY DEF LockHeld, LiveSocket, NoOrphan
  <2> QED
    BY <2>1, <2>2, <2>3
<1> QED
  BY <1>1, <1>2 DEF Connect

LEMMA AnsweredInv ==
  ASSUME LifecycleInv, NEW c \in Cli,
         StatusAnswered(c) \/ StopAnswered(c) \/ Dropped(c) \/ ResponseTimeout(c)
  PROVE  LifecycleInv'
<1>1. pc[c] \in Asking /\ conn[c] \in Process
  BY DEF LifecycleInv, ChildKnown, TypeOK, StatusAnswered, StopAnswered, Dropped,
     ResponseTimeout
<1>2. PICK r \in Results(pc[c]) : Result(c, r)
  BY <1>1 DEF Results, Asking, StatusAnswered, StopAnswered, Dropped, ResponseTimeout
<1>3. unlocked' \in SUBSET unlocked /\ stopping' \in SUBSET Process
  BY <1>1 DEF LifecycleInv, TypeOK, StatusAnswered, StopAnswered, Dropped,
     ResponseTimeout, daemons
<1>4. told' \in [Cli -> Process \cup {Nobody}]
  BY <1>1 DEF LifecycleInv, TypeOK, StatusAnswered, StopAnswered, Dropped,
     ResponseTimeout
<1>5. disturbed' \in {"no", "yes"}
  BY DEF LifecycleInv, TypeOK, StatusAnswered, StopAnswered, Dropped, ResponseTimeout,
     Disturb
<1>6. UNCHANGED <<lifetimeLock, socket, phase, answer, child>>
  BY DEF StatusAnswered, StopAnswered, Dropped, ResponseTimeout, daemons
<1> QED
  BY <1>1, <1>2, <1>3, <1>4, <1>5, <1>6, ResultInv

-----------------------------------------------------------------------------
(* One lemma per other action.                                              *)

LEMMA AcquireStartLockInv ==
  ASSUME LifecycleInv, NEW c \in Cli, AcquireStartLock(c)
  PROVE  LifecycleInv'
<1> USE LifecycleAssumption DEF LifecycleInv
<1>1. TypeOK'
  BY DEF TypeOK, Phase, Pc, Asking, Ended, AcquireStartLock, Disturb, locks,
     daemons, commands
<1>2. LockHeld'
  BY DEF LockHeld, Owning, Phase, TypeOK, Ended, Asking, Pc, AcquireStartLock,
     Disturb, locks, daemons, commands
<1>3. ChildKnown'
  BY DEF ChildKnown, Asking, Ended, Pc, Phase, TypeOK, AcquireStartLock, Disturb,
     locks, daemons, commands
<1>4. NoOrphan'
  BY DEF NoOrphan, ChildKnown, Asking, Ended, Pc, TypeOK, AcquireStartLock, Disturb,
     locks, daemons, commands
<1>5. UNCHANGED <<socket, phase>>
  BY DEF AcquireStartLock, Disturb, locks, daemons, commands
<1>6. LiveSocket'
  BY <1>5 DEF LiveSocket
<1> QED
  BY <1>1, <1>2, <1>3, <1>4, <1>5, <1>6

LEMMA TransitionTimeoutInv ==
  ASSUME LifecycleInv, NEW c \in Cli, TransitionTimeout(c)
  PROVE  LifecycleInv'
<1> USE LifecycleAssumption DEF LifecycleInv
<1>1. TypeOK'
  BY DEF TypeOK, Phase, Pc, Asking, Ended, TransitionTimeout, GoTo, Disturb, locks,
     daemons, commands
<1>2. LockHeld'
  BY DEF LockHeld, Owning, Phase, TypeOK, Ended, Asking, Pc, TransitionTimeout,
     GoTo, Disturb, locks, daemons, commands
<1>3. ChildKnown'
  BY DEF ChildKnown, Asking, Ended, Pc, Phase, TypeOK, TransitionTimeout, GoTo,
     Disturb, locks, daemons, commands
<1>4. NoOrphan'
  BY DEF NoOrphan, ChildKnown, Asking, Ended, Pc, TypeOK, TransitionTimeout, GoTo,
     Disturb, locks, daemons, commands
<1>5. UNCHANGED <<socket, phase>>
  BY DEF TransitionTimeout, GoTo, Disturb, locks, daemons, commands
<1>6. LiveSocket'
  BY <1>5 DEF LiveSocket
<1> QED
  BY <1>1, <1>2, <1>3, <1>4, <1>5, <1>6

LEMMA TryLifetimeLockInv ==
  ASSUME LifecycleInv, NEW c \in Cli, TryLifetimeLock(c)
  PROVE  LifecycleInv'
<1> USE LifecycleAssumption DEF LifecycleInv
<1>1. TypeOK'
  BY DEF TypeOK, Phase, Pc, Asking, Ended, TryLifetimeLock, GoTo, Disturb, locks,
     daemons, commands
<1>2. LockHeld'
  BY DEF LockHeld, Owning, Phase, TypeOK, Ended, Asking, Pc, TryLifetimeLock, GoTo,
     Disturb, locks, daemons, commands
<1>3. ChildKnown'
  BY DEF ChildKnown, Asking, Ended, Pc, Phase, TypeOK, TryLifetimeLock, GoTo,
     Disturb, locks, daemons, commands
<1>4. NoOrphan'
  BY DEF NoOrphan, ChildKnown, Asking, Ended, Pc, TypeOK, TryLifetimeLock, GoTo,
     Disturb, locks, daemons, commands
<1>5. UNCHANGED <<socket, phase>>
  BY DEF TryLifetimeLock, GoTo, Disturb, locks, daemons, commands
<1>6. LiveSocket'
  BY <1>5 DEF LiveSocket
<1> QED
  BY <1>1, <1>2, <1>3, <1>4, <1>5, <1>6

LEMMA ReleaseLifetimeLockInv ==
  ASSUME LifecycleInv, NEW c \in Cli, ReleaseLifetimeLock(c)
  PROVE  LifecycleInv'
<1> USE LifecycleAssumption DEF LifecycleInv
<1>1. TypeOK'
  BY DEF TypeOK, Phase, Pc, Asking, Ended, ReleaseLifetimeLock, GoTo, Disturb,
     locks, daemons, commands
<1>2. LockHeld'
  BY DEF LockHeld, Owning, Phase, TypeOK, Ended, Asking, Pc, ReleaseLifetimeLock,
     GoTo, Disturb, locks, daemons, commands
<1>3. ChildKnown'
  BY DEF ChildKnown, Asking, Ended, Pc, Phase, TypeOK, ReleaseLifetimeLock, GoTo,
     Disturb, locks, daemons, commands
<1>4. NoOrphan'
  BY DEF NoOrphan, ChildKnown, Asking, Ended, Pc, TypeOK, ReleaseLifetimeLock, GoTo,
     Disturb, locks, daemons, commands
<1>5. UNCHANGED <<socket, phase>>
  BY DEF ReleaseLifetimeLock, GoTo, Disturb, locks, daemons, commands
<1>6. LiveSocket'
  BY <1>5 DEF LiveSocket
<1> QED
  BY <1>1, <1>2, <1>3, <1>4, <1>5, <1>6

LEMMA SpawnDaemonInv ==
  ASSUME LifecycleInv, NEW c \in Cli, SpawnDaemon(c)
  PROVE  LifecycleInv'
<1> USE LifecycleAssumption DEF LifecycleInv
<1>1. TypeOK'
  BY DEF TypeOK, Phase, Pc, Asking, Ended, SpawnDaemon, GoTo, Disturb, locks,
     daemons, commands
<1>2. LockHeld'
  BY DEF LockHeld, Owning, Phase, TypeOK, Ended, Asking, Pc, SpawnDaemon, GoTo,
     Disturb, locks, daemons, commands
<1>3. LiveSocket'
  BY DEF LiveSocket, LockHeld, Bound, Owning, Phase, TypeOK, SpawnDaemon, GoTo,
     Disturb, locks, daemons, commands
<1>4. ChildKnown'
  BY DEF ChildKnown, Asking, Ended, Pc, Phase, TypeOK, SpawnDaemon, GoTo, Disturb,
     locks, daemons, commands
<1>5. NoOrphan'
  BY DEF NoOrphan, ChildKnown, Asking, Ended, Pc, TypeOK, SpawnDaemon, GoTo,
     Disturb, locks, daemons, commands
<1> QED
  BY <1>1, <1>2, <1>3, <1>4, <1>5

LEMMA ReadAnswerInv ==
  ASSUME LifecycleInv, NEW c \in Cli, ReadAnswer(c)
  PROVE  LifecycleInv'
<1> USE LifecycleAssumption DEF LifecycleInv
<1>1. TypeOK'
  BY DEF TypeOK, Phase, Pc, Asking, Ended, ChildKnown, ReadAnswer, GoTo, Disturb,
     locks, daemons, commands
<1>2. LockHeld'
  BY DEF LockHeld, Owning, Phase, TypeOK, Ended, Asking, Pc, ReadAnswer, GoTo,
     Disturb, locks, daemons, commands
<1>3. ChildKnown'
  BY DEF ChildKnown, Asking, Ended, Pc, Phase, TypeOK, ReadAnswer, GoTo, Disturb,
     locks, daemons, commands
<1>4. NoOrphan'
  BY DEF NoOrphan, ChildKnown, Asking, Ended, Pc, TypeOK, ReadAnswer, GoTo, Disturb,
     locks, daemons, commands
<1>5. UNCHANGED <<socket, phase>>
  BY DEF ReadAnswer, GoTo, Disturb, locks, daemons, commands
<1>6. LiveSocket'
  BY <1>5 DEF LiveSocket
<1> QED
  BY <1>1, <1>2, <1>3, <1>4, <1>5, <1>6

LEMMA BootTimeoutInv ==
  ASSUME LifecycleInv, NEW c \in Cli, BootTimeout(c)
  PROVE  LifecycleInv'
<1> USE LifecycleAssumption DEF LifecycleInv
<1>1. TypeOK'
  BY DEF TypeOK, Phase, Pc, Asking, Ended, ChildKnown, BootTimeout, GoTo, Die,
     Disturb, locks, daemons, commands
<1>2. LockHeld'
  BY DEF LockHeld, Owning, Phase, TypeOK, ChildKnown, Ended, Asking, Pc,
     BootTimeout, GoTo, Die, Disturb, locks, daemons, commands
<1>3. LiveSocket'
  BY DEF LiveSocket, LockHeld, Bound, Owning, Phase, TypeOK, ChildKnown,
     BootTimeout, GoTo, Die, Disturb, locks, daemons, commands
<1>4. ChildKnown'
  BY DEF ChildKnown, Asking, Ended, Pc, Phase, TypeOK, BootTimeout, GoTo, Die,
     Disturb, locks, daemons, commands
<1>5. NoOrphan'
  BY DEF NoOrphan, ChildKnown, Asking, Ended, Pc, TypeOK, BootTimeout, GoTo, Die,
     Disturb, locks, daemons, commands
<1> QED
  BY <1>1, <1>2, <1>3, <1>4, <1>5

LEMMA TakeLifetimeLockInv ==
  ASSUME LifecycleInv, NEW d \in Process, TakeLifetimeLock(d)
  PROVE  LifecycleInv'
<1> USE LifecycleAssumption DEF LifecycleInv
<1>1. TypeOK'
  BY DEF TypeOK, Phase, Pc, Asking, Ended, TakeLifetimeLock, Die, Disturb, locks,
     daemons, commands
<1>2. LockHeld'
  BY DEF LockHeld, Owning, Phase, TypeOK, TakeLifetimeLock, Die, Disturb, locks,
     daemons, commands
<1>3. LiveSocket'
  BY DEF LiveSocket, LockHeld, Bound, Owning, Phase, TypeOK, TakeLifetimeLock, Die,
     Disturb, locks, daemons, commands
<1>4. ChildKnown'
  BY DEF ChildKnown, Asking, Ended, Pc, Phase, TypeOK, TakeLifetimeLock, Die,
     Disturb, locks, daemons, commands
<1>5. NoOrphan'
  BY DEF NoOrphan, ChildKnown, Asking, Ended, Pc, TypeOK, TakeLifetimeLock, Die,
     Disturb, locks, daemons, commands
<1> QED
  BY <1>1, <1>2, <1>3, <1>4, <1>5

LEMMA OpenVaultInv ==
  ASSUME LifecycleInv, NEW d \in Process, OpenVault(d)
  PROVE  LifecycleInv'
<1> USE LifecycleAssumption DEF LifecycleInv
<1>1. TypeOK'
  BY DEF TypeOK, Phase, Pc, Asking, Ended, OpenVault, Die, Disturb, locks, daemons,
     commands
<1>2. LockHeld'
  BY DEF LockHeld, Owning, Phase, TypeOK, OpenVault, Die, Disturb, locks, daemons,
     commands
<1>3. LiveSocket'
  BY DEF LiveSocket, LockHeld, Bound, Owning, Phase, TypeOK, OpenVault, Die,
     Disturb, locks, daemons, commands
<1>4. ChildKnown'
  BY DEF ChildKnown, Asking, Ended, Pc, Phase, TypeOK, OpenVault, Die, Disturb,
     locks, daemons, commands
<1>5. NoOrphan'
  BY DEF NoOrphan, ChildKnown, Asking, Ended, Pc, TypeOK, OpenVault, Die, Disturb,
     locks, daemons, commands
<1> QED
  BY <1>1, <1>2, <1>3, <1>4, <1>5

LEMMA RemoveStaleSocketInv ==
  ASSUME LifecycleInv, NEW d \in Process, RemoveStaleSocket(d)
  PROVE  LifecycleInv'
<1> USE LifecycleAssumption DEF LifecycleInv
<1>1. TypeOK'
  BY DEF TypeOK, Phase, Pc, Asking, Ended, RemoveStaleSocket, Advance, Disturb,
     locks, daemons, commands
<1>2. LockHeld'
  BY DEF LockHeld, Owning, Phase, TypeOK, RemoveStaleSocket, Advance, Disturb,
     locks, daemons, commands
<1>3. LiveSocket'
  BY DEF LiveSocket, LockHeld, Bound, Owning, Phase, TypeOK, RemoveStaleSocket,
     Advance, Disturb, locks, daemons, commands
<1>4. ChildKnown'
  BY DEF ChildKnown, Asking, Ended, Pc, Phase, TypeOK, RemoveStaleSocket, Advance,
     Disturb, locks, daemons, commands
<1>5. NoOrphan'
  BY DEF NoOrphan, ChildKnown, Asking, Ended, Pc, TypeOK, RemoveStaleSocket,
     Advance, Disturb, locks, daemons, commands
<1> QED
  BY <1>1, <1>2, <1>3, <1>4, <1>5

LEMMA BindSocketInv ==
  ASSUME LifecycleInv, NEW d \in Process, BindSocket(d)
  PROVE  LifecycleInv'
<1> USE LifecycleAssumption DEF LifecycleInv
<1>1. TypeOK'
  BY DEF TypeOK, Phase, Pc, Asking, Ended, BindSocket, Advance, Disturb, locks,
     daemons, commands
<1>2. LockHeld'
  BY DEF LockHeld, Owning, Phase, TypeOK, BindSocket, Advance, Disturb, locks,
     daemons, commands
<1>3. LiveSocket'
  BY DEF LiveSocket, LockHeld, Bound, Owning, Phase, TypeOK, BindSocket, Advance,
     Disturb, locks, daemons, commands
<1>4. ChildKnown'
  BY DEF ChildKnown, Asking, Ended, Pc, Phase, TypeOK, BindSocket, Advance, Disturb,
     locks, daemons, commands
<1>5. NoOrphan'
  BY DEF NoOrphan, ChildKnown, Asking, Ended, Pc, TypeOK, BindSocket, Advance,
     Disturb, locks, daemons, commands
<1> QED
  BY <1>1, <1>2, <1>3, <1>4, <1>5

LEMMA SetSocketPermissionsInv ==
  ASSUME LifecycleInv, NEW d \in Process, SetSocketPermissions(d)
  PROVE  LifecycleInv'
<1> USE LifecycleAssumption DEF LifecycleInv
<1>1. TypeOK'
  BY DEF TypeOK, Phase, Pc, Asking, Ended, SetSocketPermissions, Advance, Disturb,
     locks, daemons, commands
<1>2. LockHeld'
  BY DEF LockHeld, Owning, Phase, TypeOK, SetSocketPermissions, Advance, Disturb,
     locks, daemons, commands
<1>3. LiveSocket'
  BY DEF LiveSocket, LockHeld, Bound, Owning, Phase, TypeOK, SetSocketPermissions,
     Advance, Disturb, locks, daemons, commands
<1>4. ChildKnown'
  BY DEF ChildKnown, Asking, Ended, Pc, Phase, TypeOK, SetSocketPermissions,
     Advance, Disturb, locks, daemons, commands
<1>5. NoOrphan'
  BY DEF NoOrphan, ChildKnown, Asking, Ended, Pc, TypeOK, SetSocketPermissions,
     Advance, Disturb, locks, daemons, commands
<1> QED
  BY <1>1, <1>2, <1>3, <1>4, <1>5

LEMMA PrepareFailsInv ==
  ASSUME LifecycleInv, NEW d \in Process, PrepareFails(d)
  PROVE  LifecycleInv'
<1> USE LifecycleAssumption DEF LifecycleInv
<1>1. TypeOK'
  BY DEF TypeOK, Phase, Pc, Asking, Ended, PrepareFails, Die, Disturb, locks,
     daemons, commands
<1>2. LockHeld'
  BY DEF LockHeld, Owning, Phase, TypeOK, PrepareFails, Die, Disturb, locks,
     daemons, commands
<1>3. LiveSocket'
  BY DEF LiveSocket, LockHeld, Bound, Owning, Phase, TypeOK, PrepareFails, Die,
     Disturb, locks, daemons, commands
<1>4. ChildKnown'
  BY DEF ChildKnown, Asking, Ended, Pc, Phase, TypeOK, PrepareFails, Die, Disturb,
     locks, daemons, commands
<1>5. NoOrphan'
  BY DEF NoOrphan, ChildKnown, Asking, Ended, Pc, TypeOK, PrepareFails, Die,
     Disturb, locks, daemons, commands
<1> QED
  BY <1>1, <1>2, <1>3, <1>4, <1>5

LEMMA AnnounceInv ==
  ASSUME LifecycleInv, NEW d \in Process, Announce(d)
  PROVE  LifecycleInv'
<1> USE LifecycleAssumption DEF LifecycleInv
<1>1. TypeOK'
  BY DEF TypeOK, Phase, Pc, Asking, Ended, Announce, Disturb, locks, daemons,
     commands
<1>2. LockHeld'
  BY DEF LockHeld, Owning, Phase, TypeOK, Announce, Disturb, locks, daemons,
     commands
<1>3. LiveSocket'
  BY DEF LiveSocket, LockHeld, Bound, Owning, Phase, TypeOK, Announce, Disturb,
     locks, daemons, commands
<1>4. ChildKnown'
  BY DEF ChildKnown, Asking, Ended, Pc, Phase, TypeOK, Announce, Disturb, locks,
     daemons, commands
<1>5. NoOrphan'
  BY DEF NoOrphan, ChildKnown, Asking, Ended, Pc, TypeOK, Announce, Disturb, locks,
     daemons, commands
<1> QED
  BY <1>1, <1>2, <1>3, <1>4, <1>5

LEMMA LeaveLoopInv ==
  ASSUME LifecycleInv, NEW d \in Process, LeaveLoop(d)
  PROVE  LifecycleInv'
<1> USE LifecycleAssumption DEF LifecycleInv
<1>1. TypeOK'
  BY DEF TypeOK, Phase, Pc, Asking, Ended, LeaveLoop, Advance, Disturb, locks,
     daemons, commands
<1>2. LockHeld'
  BY DEF LockHeld, Owning, Phase, TypeOK, LeaveLoop, Advance, Disturb, locks,
     daemons, commands
<1>3. LiveSocket'
  BY DEF LiveSocket, LockHeld, Bound, Owning, Phase, TypeOK, LeaveLoop, Advance,
     Disturb, locks, daemons, commands
<1>4. ChildKnown'
  BY DEF ChildKnown, Asking, Ended, Pc, Phase, TypeOK, LeaveLoop, Advance, Disturb,
     locks, daemons, commands
<1>5. NoOrphan'
  BY DEF NoOrphan, ChildKnown, Asking, Ended, Pc, TypeOK, LeaveLoop, Advance,
     Disturb, locks, daemons, commands
<1> QED
  BY <1>1, <1>2, <1>3, <1>4, <1>5

LEMMA DropSocketGuardInv ==
  ASSUME LifecycleInv, NEW d \in Process, DropSocketGuard(d)
  PROVE  LifecycleInv'
<1> USE LifecycleAssumption DEF LifecycleInv
<1>1. TypeOK'
  BY DEF TypeOK, Phase, Pc, Asking, Ended, DropSocketGuard, Advance, Disturb, locks,
     daemons, commands
<1>2. LockHeld'
  BY DEF LockHeld, Owning, Phase, TypeOK, DropSocketGuard, Advance, Disturb, locks,
     daemons, commands
<1>3. LiveSocket'
  BY DEF LiveSocket, LockHeld, Bound, Owning, Phase, TypeOK, DropSocketGuard,
     Advance, Disturb, locks, daemons, commands
<1>4. ChildKnown'
  BY DEF ChildKnown, Asking, Ended, Pc, Phase, TypeOK, DropSocketGuard, Advance,
     Disturb, locks, daemons, commands
<1>5. NoOrphan'
  BY DEF NoOrphan, ChildKnown, Asking, Ended, Pc, TypeOK, DropSocketGuard, Advance,
     Disturb, locks, daemons, commands
<1> QED
  BY <1>1, <1>2, <1>3, <1>4, <1>5

LEMMA ExitInv ==
  ASSUME LifecycleInv, NEW d \in Process, Exit(d)
  PROVE  LifecycleInv'
<1> USE LifecycleAssumption DEF LifecycleInv
<1>1. TypeOK'
  BY DEF TypeOK, Phase, Pc, Asking, Ended, Exit, Die, Disturb, locks, daemons,
     commands
<1>2. LockHeld'
  BY DEF LockHeld, Owning, Phase, TypeOK, Exit, Die, Disturb, locks, daemons,
     commands
<1>3. LiveSocket'
  BY DEF LiveSocket, LockHeld, Bound, Owning, Phase, TypeOK, Exit, Die, Disturb,
     locks, daemons, commands
<1>4. ChildKnown'
  BY DEF ChildKnown, Asking, Ended, Pc, Phase, TypeOK, Exit, Die, Disturb, locks,
     daemons, commands
<1>5. NoOrphan'
  BY DEF NoOrphan, ChildKnown, Asking, Ended, Pc, TypeOK, Exit, Die, Disturb, locks,
     daemons, commands
<1> QED
  BY <1>1, <1>2, <1>3, <1>4, <1>5

LEMMA LockByOtherInv ==
  ASSUME LifecycleInv, NEW d \in Process, LockByOther(d)
  PROVE  LifecycleInv'
<1> USE LifecycleAssumption DEF LifecycleInv
<1>1. TypeOK'
  BY DEF TypeOK, Phase, Pc, Asking, Ended, LockByOther, Disturb, locks, daemons,
     commands
<1>2. LockHeld'
  BY DEF LockHeld, Owning, Phase, TypeOK, LockByOther, Disturb, locks, daemons,
     commands
<1>3. UNCHANGED <<socket, phase, answer, pc, conn, child>>
  BY DEF LockByOther, Disturb, locks, daemons, commands
<1>4. LiveSocket' /\ ChildKnown' /\ NoOrphan'
  BY <1>3 DEF LiveSocket, ChildKnown, NoOrphan
<1> QED
  BY <1>1, <1>2, <1>3, <1>4

LEMMA StopByOtherInv ==
  ASSUME LifecycleInv, NEW d \in Process, StopByOther(d)
  PROVE  LifecycleInv'
<1> USE LifecycleAssumption DEF LifecycleInv
<1>1. TypeOK'
  BY DEF TypeOK, Phase, Pc, Asking, Ended, StopByOther, Disturb, locks, daemons,
     commands
<1>2. LockHeld'
  BY DEF LockHeld, Owning, Phase, TypeOK, StopByOther, Disturb, locks, daemons,
     commands
<1>3. UNCHANGED <<socket, phase, answer, pc, conn, child>>
  BY DEF StopByOther, Disturb, locks, daemons, commands
<1>4. LiveSocket' /\ ChildKnown' /\ NoOrphan'
  BY <1>3 DEF LiveSocket, ChildKnown, NoOrphan
<1> QED
  BY <1>1, <1>2, <1>3, <1>4

LEMMA SignalByOtherInv ==
  ASSUME LifecycleInv, NEW d \in Process, SignalByOther(d)
  PROVE  LifecycleInv'
<1> USE LifecycleAssumption DEF LifecycleInv
<1>1. TypeOK'
  BY DEF TypeOK, Phase, Pc, Asking, Ended, SignalByOther, Disturb, locks, daemons,
     commands
<1>2. UNCHANGED <<lifetimeLock, socket, phase, unlocked, answer, pc, conn, child>>
  BY DEF SignalByOther, Disturb, locks, daemons, commands
<1>3. LockHeld' /\ LiveSocket' /\ ChildKnown' /\ NoOrphan'
  BY <1>2 DEF LockHeld, LiveSocket, ChildKnown, NoOrphan
<1> QED
  BY <1>1, <1>2, <1>3

LEMMA CrashInv ==
  ASSUME LifecycleInv, NEW d \in Process, Crash(d)
  PROVE  LifecycleInv'
<1> USE LifecycleAssumption DEF LifecycleInv
<1>1. TypeOK'
  BY DEF TypeOK, Phase, Pc, Asking, Ended, Crash, Die, Disturb, locks, daemons,
     commands
<1>2. LockHeld'
  BY DEF LockHeld, Owning, Phase, TypeOK, Crash, Die, Disturb, locks, daemons,
     commands
<1>3. LiveSocket'
  BY DEF LiveSocket, LockHeld, Bound, Owning, Phase, TypeOK, Crash, Die, Disturb,
     locks, daemons, commands
<1>4. ChildKnown'
  BY DEF ChildKnown, Asking, Ended, Pc, Phase, TypeOK, Crash, Die, Disturb, locks,
     daemons, commands
<1>5. NoOrphan'
  BY DEF NoOrphan, ChildKnown, Asking, Ended, Pc, TypeOK, Crash, Die, Disturb,
     locks, daemons, commands
<1> QED
  BY <1>1, <1>2, <1>3, <1>4, <1>5

LEMMA LaunchDirectlyInv ==
  ASSUME LifecycleInv, NEW d \in Process, LaunchDirectly(d)
  PROVE  LifecycleInv'
<1> USE LifecycleAssumption DEF LifecycleInv
<1>1. TypeOK'
  BY DEF TypeOK, Phase, Pc, Asking, Ended, LaunchDirectly, Advance, Disturb, locks,
     daemons, commands
<1>2. LockHeld'
  BY DEF LockHeld, Owning, Phase, TypeOK, LaunchDirectly, Advance, Disturb, locks,
     daemons, commands
<1>3. LiveSocket'
  BY DEF LiveSocket, LockHeld, Bound, Owning, Phase, TypeOK, LaunchDirectly,
     Advance, Disturb, locks, daemons, commands
<1>4. ChildKnown'
  BY DEF ChildKnown, Asking, Ended, Pc, Phase, TypeOK, LaunchDirectly, Advance,
     Disturb, locks, daemons, commands
<1>5. NoOrphan'
  BY DEF NoOrphan, ChildKnown, Asking, Ended, Pc, TypeOK, LaunchDirectly, Advance,
     Disturb, locks, daemons, commands
<1> QED
  BY <1>1, <1>2, <1>3, <1>4, <1>5

LEMMA InterruptInv ==
  ASSUME LifecycleInv, NEW c \in Cli, Interrupt(c)
  PROVE  LifecycleInv'
<1> USE LifecycleAssumption DEF LifecycleInv
<1>1. TypeOK'
  BY DEF TypeOK, Phase, Pc, Asking, Ended, Interrupt, GoTo, Disturb, locks, daemons,
     commands
<1>2. LockHeld'
  BY DEF LockHeld, Owning, Phase, TypeOK, Ended, Asking, Pc, Interrupt, GoTo,
     Disturb, locks, daemons, commands
<1>3. ChildKnown'
  BY DEF ChildKnown, Asking, Ended, Pc, Phase, TypeOK, Interrupt, GoTo, Disturb,
     locks, daemons, commands
<1>4. NoOrphan'
  BY DEF NoOrphan, ChildKnown, Asking, Ended, Pc, TypeOK, Interrupt, GoTo, Disturb,
     locks, daemons, commands
<1>5. UNCHANGED <<socket, phase>>
  BY DEF Interrupt, GoTo, Disturb, locks, daemons, commands
<1>6. LiveSocket'
  BY <1>5 DEF LiveSocket
<1> QED
  BY <1>1, <1>2, <1>3, <1>4, <1>5, <1>6

-----------------------------------------------------------------------------
(* The step, and the theorems.                                              *)

LEMMA InitInv == Init => LifecycleInv
<1> SUFFICES ASSUME Init PROVE LifecycleInv
  OBVIOUS
<1> USE LifecycleAssumption DEF Init
<1>1. TypeOK
  BY DEF TypeOK, Phase, Pc, Asking
<1>2. LockHeld /\ LiveSocket
  BY DEF LockHeld, LiveSocket, Owning, Bound, Phase
<1>3. ChildKnown /\ NoOrphan
  BY DEF ChildKnown, NoOrphan, Asking, Ended, Pc
<1> QED
  BY <1>1, <1>2, <1>3 DEF LifecycleInv

LEMMA InvStep == LifecycleInv /\ [Next]_vars => LifecycleInv'
<1> SUFFICES ASSUME LifecycleInv, [Next]_vars PROVE LifecycleInv'
  OBVIOUS
<1>1. ASSUME NEW c \in Cli, CommandStep(c)
      PROVE  LifecycleInv'
  BY <1>1, ConnectInv, AnsweredInv, AcquireStartLockInv, TransitionTimeoutInv,
     TryLifetimeLockInv, ReleaseLifetimeLockInv, SpawnDaemonInv, ReadAnswerInv,
     BootTimeoutInv DEF CommandStep
<1>2. ASSUME NEW d \in Process, DaemonStep(d)
      PROVE  LifecycleInv'
  BY <1>2, TakeLifetimeLockInv, OpenVaultInv, RemoveStaleSocketInv, BindSocketInv,
     SetSocketPermissionsInv, PrepareFailsInv, AnnounceInv, LeaveLoopInv,
     DropSocketGuardInv, ExitInv DEF DaemonStep
<1>3. CASE ExternalStep
  BY <1>3, LockByOtherInv, StopByOtherInv, SignalByOtherInv, CrashInv,
     LaunchDirectlyInv, InterruptInv DEF ExternalStep
<1>4. CASE UNCHANGED vars
  <2> USE <1>4 DEF vars, locks, daemons, commands
  <2>1. TypeOK' /\ LockHeld' /\ LiveSocket'
    BY DEF LifecycleInv, TypeOK, LockHeld, LiveSocket
  <2>2. ChildKnown' /\ NoOrphan'
    BY DEF LifecycleInv, ChildKnown, NoOrphan
  <2> QED
    BY <2>1, <2>2 DEF LifecycleInv
<1> QED
  BY <1>1, <1>2, <1>3, <1>4 DEF Next

\* LifecycleInv holds in every reachable state.
THEOREM Invariance == Spec => []LifecycleInv
<1> QED
  BY InitInv, InvStep, PTL DEF Spec

\* Every variable keeps its type; the tolerant probe stays within its bound.
THEOREM TypeCorrect == Spec => []TypeOK
<1>1. LifecycleInv => TypeOK
  BY DEF LifecycleInv
<1> QED
  BY <1>1, Invariance, PTL

\* At most one process has the vault open, through crashes, kills, direct
\* launches and interrupted commands.
THEOREM VaultExclusion == Spec => []OneVault
<1>1. LifecycleInv => OneVault
  BY DEF LifecycleInv, LockHeld, OneVault, TypeOK
<1> QED
  BY <1>1, Invariance, PTL

\* No other process removes or replaces the socket path of a live daemon.
THEOREM SocketSafety == Spec => []LiveSocket
<1>1. LifecycleInv => LiveSocket
  BY DEF LifecycleInv
<1> QED
  BY <1>1, Invariance, PTL

\* A start that reports a failure leaves no process of its own behind.
THEOREM FailedStartLeavesNothing == Spec => []NoOrphan
<1>1. LifecycleInv => NoOrphan
  BY DEF LifecycleInv
<1> QED
  BY <1>1, Invariance, PTL

-----------------------------------------------------------------------------
(* Start commands take turns.                                               *)

\* A result leads to no child, to "stop" only from a status that is locked, and to
\* success only from one that is unlocked.
LEMMA ResultGoes ==
  ASSUME NEW c \in Cli, pc[c] \in Asking, NEW r \in Results(pc[c]), Result(c, r)
  PROVE  \E p \in Pc \ {"boot", "gone", "release"} :
            /\ GoTo(c, p)
            /\ pc[c] = "peek" => p \in Ended \cup {"queue"}
            /\ p = "stop" => pc[c] = "probe" /\ r = "locked"
            /\ p = "ok" => r = "unlocked"
<1>1. CASE pc[c] = "probe" /\ r = "protocol" /\ probes[c] < MaxProbes
  BY <1>1 DEF Result, Pc, Asking
<1>2. CASE ~(pc[c] = "probe" /\ r = "protocol" /\ probes[c] < MaxProbes)
  <2>1. GoTo(c, After[pc[c]][r])
    BY <1>2 DEF Result
  <2>2. /\ After[pc[c]][r] \in Pc \ {"boot", "gone", "release"}
        /\ pc[c] = "peek" => After[pc[c]][r] \in Ended \cup {"queue"}
        /\ After[pc[c]][r] = "stop" => pc[c] = "probe" /\ r = "locked"
        /\ After[pc[c]][r] = "ok" => r = "unlocked"
    <3>1. CASE pc[c] = "peek"
      BY <3>1 DEF After, Results, Pc, Asking, Ended
    <3>2. CASE pc[c] = "probe"
      BY <3>2 DEF After, Results, Pc, Asking, Ended
    <3>3. CASE pc[c] = "stop"
      BY <3>3 DEF After, Results, Pc, Asking, Ended
    <3>4. CASE pc[c] = "ask"
      BY <3>4 DEF After, Results, Pc, Asking, Ended
    <3>5. CASE pc[c] = "await"
      BY <3>5 DEF After, Results, Pc, Asking, Ended
    <3> QED
      BY <3>1, <3>2, <3>3, <3>4, <3>5 DEF Asking
  <2> QED
    BY <2>1, <2>2
<1> QED
  BY <1>1, <1>2

\* What was disturbed once stays so.
LEMMA StaysDisturbed ==
  ASSUME Next, disturbed' = "no"
  PROVE  disturbed = "no"
<1>1. ASSUME NEW c \in Cli, CommandStep(c)
      PROVE  disturbed = "no"
  BY <1>1 DEF CommandStep, Connect, StatusAnswered, StopAnswered, Dropped, ResponseTimeout,
     AcquireStartLock, TransitionTimeout, TryLifetimeLock, ReleaseLifetimeLock,
     SpawnDaemon, ReadAnswer, BootTimeout, Disturb
<1>2. ASSUME NEW d \in Process, DaemonStep(d)
      PROVE  disturbed = "no"
  BY <1>2 DEF DaemonStep, TakeLifetimeLock, OpenVault, RemoveStaleSocket, BindSocket,
     SetSocketPermissions, PrepareFails, Announce, LeaveLoop, DropSocketGuard, Exit, Disturb
<1>3. CASE ExternalStep
  BY <1>3 DEF ExternalStep, LockByOther, StopByOther, SignalByOther, Crash,
     LaunchDirectly, Interrupt, Disturb
<1> QED
  BY <1>1, <1>2, <1>3 DEF Next

\* The phases, answers and open vaults of the daemons fit each other.
LEMMA PhasesFitStep ==
  ASSUME StartInv, Next
  PROVE  PhasesFit'
<1> USE LifecycleAssumption DEF StartInv, LifecycleInv, PhasesFit, Starting, TypeOK
<1>1. ASSUME UNCHANGED daemons
      PROVE  PhasesFit'
  BY <1>1 DEF daemons
<1>2. ASSUME NEW d \in Process, NEW a, phase[d] # "fresh", Die(d, a)
      PROVE  PhasesFit'
  BY <1>2 DEF Die
<1>3. ASSUME NEW c \in Cli, CommandStep(c)
      PROVE  PhasesFit'
  <2>1. CASE StopAnswered(c)
    BY <2>1 DEF StopAnswered
  <2>2. CASE SpawnDaemon(c)
    BY <2>2 DEF SpawnDaemon
  <2>3. CASE BootTimeout(c)
    BY <2>3 DEF BootTimeout, ChildKnown, Die
  <2>4. CASE \/ Connect(c) \/ StatusAnswered(c) \/ Dropped(c) \/ ResponseTimeout(c)
             \/ AcquireStartLock(c) \/ TransitionTimeout(c) \/ TryLifetimeLock(c)
             \/ ReleaseLifetimeLock(c) \/ ReadAnswer(c)
    BY <1>1, <2>4 DEF Connect, StatusAnswered, Dropped, ResponseTimeout, AcquireStartLock,
       TransitionTimeout, TryLifetimeLock, ReleaseLifetimeLock, ReadAnswer
  <2> QED
    BY <1>3, <2>1, <2>2, <2>3, <2>4 DEF CommandStep
<1>4. ASSUME NEW d \in Process, DaemonStep(d)
      PROVE  PhasesFit'
  <2>1. CASE TakeLifetimeLock(d)
    BY <1>2, <2>1 DEF TakeLifetimeLock
  <2>2. CASE OpenVault(d)
    BY <1>2, <2>2 DEF OpenVault
  <2>3. CASE RemoveStaleSocket(d) \/ BindSocket(d) \/ SetSocketPermissions(d)
    BY <2>3 DEF RemoveStaleSocket, BindSocket, SetSocketPermissions, Advance
  <2>4. CASE PrepareFails(d) \/ Exit(d)
    BY <1>2, <2>4 DEF PrepareFails, Exit
  <2>5. CASE Announce(d)
    BY <2>5 DEF Announce
  <2>6. CASE LeaveLoop(d) \/ DropSocketGuard(d)
    BY <2>6 DEF LeaveLoop, DropSocketGuard, Advance
  <2> QED
    BY <1>4, <2>1, <2>2, <2>3, <2>4, <2>5, <2>6 DEF DaemonStep
<1>5. CASE ExternalStep
  <2>1. ASSUME NEW d \in Process, LockByOther(d) \/ StopByOther(d) \/ SignalByOther(d)
        PROVE  PhasesFit'
    BY <2>1 DEF LockByOther, StopByOther, SignalByOther
  <2>2. ASSUME NEW d \in Process, Crash(d)
        PROVE  PhasesFit'
    BY <1>2, <2>2 DEF Crash
  <2>3. ASSUME NEW d \in Process, LaunchDirectly(d)
        PROVE  PhasesFit'
    BY <2>3 DEF LaunchDirectly, Advance
  <2>4. ASSUME NEW c \in Cli, Interrupt(c)
        PROVE  PhasesFit'
    BY <1>1, <2>4 DEF Interrupt
  <2> QED
    BY <1>5, <2>1, <2>2, <2>3, <2>4 DEF ExternalStep
<1> QED
  BY <1>3, <1>4, <1>5 DEF Next

\* The start lock stays with the command that is past the queue.
LEMMA HoldsStartStep ==
  ASSUME StartInv, Next
  PROVE  HoldsStart'
<1> USE LifecycleAssumption DEF StartInv, LifecycleInv, HoldsStart, TypeOK
<1>1. ASSUME UNCHANGED <<startLock, pc>>
      PROVE  HoldsStart'
  BY <1>1
<1>2. ASSUME NEW c \in Cli, NEW p \in Pc, GoTo(c, p), pc[c] \notin Ended,
             pc[c] \in {"peek", "queue"} => p \in Ended \cup {"queue"}
      PROVE  HoldsStart'
  BY <1>2 DEF GoTo
<1>3. ASSUME NEW c \in Cli, CommandStep(c)
      PROVE  HoldsStart'
  <2>1. ASSUME pc[c] \in Asking, NEW r \in Results(pc[c]), Result(c, r)
        PROVE  HoldsStart'
    <3>1. PICK p \in Pc : GoTo(c, p) /\ (pc[c] = "peek" => p \in Ended \cup {"queue"})
      BY <2>1, ResultGoes
    <3> QED
      BY <1>2, <2>1, <3>1 DEF Asking, Ended
  <2>2. CASE Connect(c)
    BY <1>1, <2>1, <2>2 DEF Connect, Results
  <2>3. CASE StatusAnswered(c) \/ StopAnswered(c) \/ Dropped(c) \/ ResponseTimeout(c)
    <3>1. pc[c] \in Asking
      BY <2>3 DEF StatusAnswered, StopAnswered, Dropped, ResponseTimeout, ChildKnown, Asking
    <3> QED
      BY <2>1, <2>3, <3>1 DEF StatusAnswered, StopAnswered, Dropped, ResponseTimeout, Results, Asking
  <2>4. CASE AcquireStartLock(c)
    BY <2>4 DEF AcquireStartLock, Pc, Asking, Ended
  <2>5. CASE TransitionTimeout(c)
    BY <1>2, <2>5 DEF TransitionTimeout, Pc, Asking, Ended
  <2>6. CASE TryLifetimeLock(c) \/ ReleaseLifetimeLock(c) \/ SpawnDaemon(c)
    BY <1>2, <2>6 DEF TryLifetimeLock, ReleaseLifetimeLock, SpawnDaemon, Pc, Asking, Ended
  <2>7. CASE ReadAnswer(c) \/ BootTimeout(c)
    BY <1>2, <2>7 DEF ReadAnswer, BootTimeout, Pc, Asking, Ended
  <2> QED
    BY <1>3, <2>2, <2>3, <2>4, <2>5, <2>6, <2>7 DEF CommandStep
<1>4. ASSUME NEW d \in Process, DaemonStep(d)
      PROVE  HoldsStart'
  <2>1. UNCHANGED <<startLock, pc>>
    BY <1>4 DEF DaemonStep, TakeLifetimeLock, OpenVault, RemoveStaleSocket, BindSocket,
       SetSocketPermissions, PrepareFails, Announce, LeaveLoop, DropSocketGuard, Exit,
       locks, commands
  <2> QED
    BY <1>1, <2>1
<1>5. CASE ExternalStep
  <2>1. ASSUME NEW c \in Cli, Interrupt(c)
        PROVE  HoldsStart'
    BY <1>2, <2>1 DEF Interrupt, Pc, Ended
  <2>2. ASSUME NEW d \in Process,
               LockByOther(d) \/ StopByOther(d) \/ SignalByOther(d) \/ Crash(d) \/ LaunchDirectly(d)
        PROVE  HoldsStart'
    BY <1>1, <2>2 DEF LockByOther, StopByOther, SignalByOther, Crash, LaunchDirectly,
       locks, commands
  <2> QED
    BY <1>5, <2>1, <2>2 DEF ExternalStep
<1> QED
  BY <1>3, <1>4, <1>5 DEF Next

\* A command that is not past the queue, or that does not wait for a child, moves.
LEMMA MoveTakesTurns ==
  ASSUME StartInv, NEW c \in Cli, NEW p \in Pc \ {"boot", "stop"}, GoTo(c, p),
         pc[c] # "boot" \/ phase[child[c]] \notin Starting,
         disturbed' = "no" => disturbed = "no",
         unlocked' \subseteq unlocked, UNCHANGED <<phase, child>>
  PROVE  TakesTurns'
BY DEF StartInv, LifecycleInv, TakesTurns, TypeOK, GoTo

\* Each daemon that starts has its command, and nobody stops one meanwhile.
LEMMA TakesTurnsStep ==
  ASSUME StartInv, Next
  PROVE  TakesTurns'
<1> USE LifecycleAssumption DEF StartInv, LifecycleInv, TypeOK
<1>1. disturbed' = "no" => disturbed = "no"
  BY StaysDisturbed
<1>2. ASSUME NEW c \in Cli, CommandStep(c)
      PROVE  TakesTurns'
  <2>1. CASE Connect(c)
    <3>1. CASE UNCHANGED pc
      BY <1>1, <2>1, <3>1 DEF Connect, daemons, TakesTurns
    <3>2. ASSUME NEW r \in {"protocol", "not_running"}, Result(c, r)
          PROVE  TakesTurns'
      <4>1. pc[c] \in Asking /\ r \in Results(pc[c])
        BY <2>1, <3>2 DEF Connect, Results
      <4>2. PICK p \in Pc \ {"boot", "stop"} : GoTo(c, p)
        BY <3>2, <4>1, ResultGoes
      <4> QED
        BY <1>1, <2>1, <4>1, <4>2, MoveTakesTurns DEF Connect, daemons, Asking
    <3> QED
      BY <2>1, <3>1, <3>2 DEF Connect
  <2>2. CASE StatusAnswered(c)
    <3>1. pc[c] \in Asking \ {"stop"} /\ conn[c] \in Process /\ phase[conn[c]] = "serving"
      BY <2>2 DEF StatusAnswered
    <3>2. CASE conn[c] \in unlocked
      <4>1. "unlocked" \in Results(pc[c]) /\ Result(c, "unlocked")
        BY <2>2, <3>1, <3>2 DEF StatusAnswered, Results
      <4>2. PICK p \in Pc \ {"boot", "stop"} : GoTo(c, p)
        BY <3>1, <4>1, ResultGoes
      <4> QED
        BY <1>1, <2>2, <3>1, <4>2, MoveTakesTurns DEF StatusAnswered, daemons, Asking
    <3>3. CASE conn[c] \notin unlocked
      <4>1. unlocked = {}
        BY <3>1, <3>3 DEF LockHeld, Owning, Phase
      <4>2. "locked" \in Results(pc[c]) /\ Result(c, "locked")
        BY <2>2, <3>1, <3>3 DEF StatusAnswered, Results
      <4>3. PICK p \in Pc \ {"boot"} : GoTo(c, p)
        BY <3>1, <4>2, ResultGoes
      <4>4. UNCHANGED <<phase, unlocked, child>> /\ pc[c] # "boot"
        BY <2>2, <3>1 DEF StatusAnswered, daemons, Asking
      <4> QED
        BY <1>1, <4>1, <4>3, <4>4 DEF TakesTurns, GoTo
    <3> QED
      BY <3>2, <3>3
  <2>3. CASE StopAnswered(c) \/ Dropped(c) \/ ResponseTimeout(c)
    <3>1. pc[c] \in Asking
      BY <2>3 DEF StopAnswered, Dropped, ResponseTimeout, ChildKnown, Asking
    <3>2. PICK r \in Results(pc[c]) : Result(c, r) /\ r # "locked"
      BY <2>3, <3>1 DEF StopAnswered, Dropped, ResponseTimeout, Results, Asking
    <3>3. PICK p \in Pc \ {"boot", "stop"} : GoTo(c, p)
      BY <3>1, <3>2, ResultGoes
    <3>4. UNCHANGED <<phase, child>> /\ unlocked' \subseteq unlocked
      BY <2>3 DEF StopAnswered, Dropped, ResponseTimeout, daemons
    <3> QED
      BY <1>1, <3>1, <3>3, <3>4, MoveTakesTurns DEF Asking
  <2>4. CASE AcquireStartLock(c)
    BY <1>1, <2>4 DEF AcquireStartLock, TakesTurns, daemons
  <2>5. CASE TransitionTimeout(c) \/ TryLifetimeLock(c) \/ ReleaseLifetimeLock(c)
    <3>1. PICK p \in Pc \ {"boot", "stop"} : GoTo(c, p)
      BY <2>5 DEF TransitionTimeout, TryLifetimeLock, ReleaseLifetimeLock, Pc, Asking, Ended
    <3>2. pc[c] # "boot" /\ UNCHANGED <<phase, child, unlocked>>
      BY <2>5 DEF TransitionTimeout, TryLifetimeLock, ReleaseLifetimeLock, daemons
    <3> QED
      BY <1>1, <3>1, <3>2, MoveTakesTurns
  <2>6. CASE SpawnDaemon(c)
    BY <1>1, <2>6 DEF SpawnDaemon, GoTo, TakesTurns, Starting
  <2>7. CASE ReadAnswer(c)
    <3>1. PICK p \in Pc \ {"boot", "stop"} : GoTo(c, p)
      BY <2>7 DEF ReadAnswer, Pc, Asking, Ended
    <3>2. child[c] \in Process
      BY <2>7 DEF ReadAnswer, ChildKnown
    <3>3. phase[child[c]] \notin Starting
      BY <2>7, <3>2 DEF ReadAnswer, PhasesFit, Starting
    <3> QED
      BY <1>1, <2>7, <3>1, <3>3, MoveTakesTurns DEF ReadAnswer, daemons
  <2>8. CASE BootTimeout(c)
    <3>1. child[c] \in Process
      BY <2>8 DEF BootTimeout, ChildKnown
    <3> QED
      BY <1>1, <2>8, <3>1 DEF BootTimeout, Die, GoTo, TakesTurns, Starting
  <2> QED
    BY <1>2, <2>1, <2>2, <2>3, <2>4, <2>5, <2>6, <2>7, <2>8 DEF CommandStep
<1>3. ASSUME NEW d \in Process, DaemonStep(d)
      PROVE  TakesTurns'
  <2>1. UNCHANGED <<pc, child>>
    BY <1>3 DEF DaemonStep, TakeLifetimeLock, OpenVault, RemoveStaleSocket, BindSocket,
       SetSocketPermissions, PrepareFails, Announce, LeaveLoop, DropSocketGuard, Exit, commands
  <2>2. \A e \in Process : phase'[e] \in Starting => phase[e] \in Starting
    BY <1>3 DEF DaemonStep, TakeLifetimeLock, OpenVault, RemoveStaleSocket, BindSocket,
       SetSocketPermissions, PrepareFails, Announce, LeaveLoop, DropSocketGuard, Exit,
       Advance, Die, Starting
  <2>3. CASE OpenVault(d)
    <3>1. TakesTurns => (disturbed = "no" \/ External \cap {"launch", "interrupt"} = {} =>
              \A c \in Cli : pc[c] # "stop")
      BY <2>3 DEF OpenVault, TakesTurns, Starting, HoldsStart, Pc, Asking, Ended
    <3> QED
      BY <1>1, <2>1, <2>2, <3>1 DEF TakesTurns
  <2>4. CASE ~OpenVault(d)
    <3>1. unlocked' \subseteq unlocked
      BY <1>3, <2>4 DEF DaemonStep, TakeLifetimeLock, RemoveStaleSocket, BindSocket,
         SetSocketPermissions, PrepareFails, Announce, LeaveLoop, DropSocketGuard, Exit, Die
    <3> QED
      BY <1>1, <2>1, <2>2, <3>1 DEF TakesTurns
  <2> QED
    BY <2>3, <2>4
<1>4. CASE ExternalStep
  <2>1. ASSUME NEW c \in Cli, Interrupt(c)
        PROVE  TakesTurns'
    BY <2>1 DEF Interrupt, Disturb, TakesTurns
  <2>2. ASSUME NEW d \in Process, LaunchDirectly(d)
        PROVE  TakesTurns'
    BY <2>2 DEF LaunchDirectly, Disturb, TakesTurns
  <2>3. ASSUME NEW d \in Process, LockByOther(d) \/ StopByOther(d) \/ SignalByOther(d) \/ Crash(d)
        PROVE  TakesTurns'
    <3>1. UNCHANGED <<pc, child>> /\ unlocked' \subseteq unlocked
      BY <2>3 DEF LockByOther, StopByOther, SignalByOther, Crash, Die, commands
    <3>2. \A e \in Process : phase'[e] \in Starting => phase[e] \in Starting
      BY <2>3 DEF LockByOther, StopByOther, SignalByOther, Crash, Die, Starting
    <3> QED
      BY <1>1, <3>1, <3>2 DEF TakesTurns
  <2> QED
    BY <1>4, <2>1, <2>2, <2>3 DEF ExternalStep
<1> QED
  BY <1>2, <1>3, <1>4 DEF Next

\* A command that moves but neither succeeds nor spawns reports nothing new.
LEMMA MoveStaysUnlocked ==
  ASSUME StartInv, disturbed = "no", NEW c \in Cli, NEW p \in Pc \ {"ok", "boot", "gone"},
         GoTo(c, p), UNCHANGED <<unlocked, stopping, answer, child>>,
         \A e \in Cli \ {c} : told'[e] = told[e]
  PROVE  StaysUnlocked'
BY DEF StartInv, LifecycleInv, StaysUnlocked, TypeOK, GoTo

\* Undisturbed, nothing takes the vault from a daemon that was reported: it was not
\* told to stop, and a command that replaces a locked daemon finds none open.
LEMMA StaysUnlockedStep ==
  ASSUME StartInv, Next
  PROVE  StaysUnlocked'
<1> SUFFICES ASSUME disturbed' = "no"
             PROVE  StaysUnlocked'
  BY DEF StaysUnlocked
<1> USE LifecycleAssumption DEF StartInv, LifecycleInv, TypeOK
<1>1. disturbed = "no"
  BY StaysDisturbed
<1>2. ASSUME NEW c \in Cli, CommandStep(c)
      PROVE  StaysUnlocked'
  <2>1. CASE Connect(c)
    <3>1. CASE UNCHANGED pc
      BY <1>1, <2>1, <3>1 DEF Connect, daemons, StaysUnlocked
    <3>2. ASSUME NEW r \in {"protocol", "not_running"}, Result(c, r)
          PROVE  StaysUnlocked'
      <4>1. pc[c] \in Asking /\ r \in Results(pc[c])
        BY <2>1, <3>2 DEF Connect, Results
      <4>2. PICK p \in Pc \ {"ok", "boot", "gone"} : GoTo(c, p)
        BY <3>2, <4>1, ResultGoes
      <4> QED
        BY <1>1, <2>1, <4>2, MoveStaysUnlocked DEF Connect, daemons
    <3> QED
      BY <2>1, <3>1, <3>2 DEF Connect
  <2>2. CASE StatusAnswered(c)
    <3>1. pc[c] \in Asking \ {"stop"} /\ conn[c] \in Process
      BY <2>2 DEF StatusAnswered
    <3>2. UNCHANGED <<unlocked, stopping, answer, child>>
      BY <2>2 DEF StatusAnswered, daemons
    <3>3. CASE conn[c] \in unlocked
      <4>1. "unlocked" \in Results(pc[c]) /\ Result(c, "unlocked")
        BY <2>2, <3>1, <3>3 DEF StatusAnswered, Results
      <4>2. PICK p \in Pc \ {"boot", "gone"} : GoTo(c, p)
        BY <3>1, <4>1, ResultGoes
      <4>3. told' = [told EXCEPT ![c] = conn[c]]
        BY <2>2, <3>3 DEF StatusAnswered
      <4> QED
        BY <1>1, <3>2, <3>3, <4>2, <4>3 DEF StaysUnlocked, GoTo
    <3>4. CASE conn[c] \notin unlocked
      <4>1. "locked" \in Results(pc[c]) /\ Result(c, "locked")
        BY <2>2, <3>1, <3>4 DEF StatusAnswered, Results
      <4>2. PICK p \in Pc \ {"ok", "boot", "gone"} : GoTo(c, p)
        BY <3>1, <4>1, ResultGoes
      <4>3. UNCHANGED told
        BY <2>2, <3>4 DEF StatusAnswered
      <4> QED
        BY <1>1, <3>2, <4>2, <4>3, MoveStaysUnlocked
    <3> QED
      BY <3>3, <3>4
  <2>3. CASE StopAnswered(c)
    <3>1. pc[c] \in Asking /\ unlocked = {} /\ unlocked' = {}
      BY <1>1, <2>3 DEF StopAnswered, TakesTurns, Asking
    <3>2. PICK r \in Results(pc[c]) : Result(c, r) /\ r # "unlocked"
      BY <2>3, <3>1 DEF StopAnswered, Results
    <3>3. PICK p \in Pc \ {"ok", "boot", "gone"} : GoTo(c, p)
      BY <3>1, <3>2, ResultGoes
    <3>4. UNCHANGED <<answer, child, told>>
      BY <2>3 DEF StopAnswered
    <3> QED
      BY <1>1, <3>1, <3>3, <3>4 DEF StaysUnlocked, GoTo
  <2>4. CASE Dropped(c)
    <3>1. pc[c] \in Asking /\ "protocol" \in Results(pc[c]) /\ Result(c, "protocol")
      BY <2>4 DEF Dropped, ChildKnown, Results
    <3>2. PICK p \in Pc \ {"ok", "boot", "gone"} : GoTo(c, p)
      BY <3>1, ResultGoes
    <3> QED
      BY <1>1, <2>4, <3>2, MoveStaysUnlocked DEF Dropped, daemons
  <2>5. CASE AcquireStartLock(c)
    BY <1>1, <2>5 DEF AcquireStartLock, StaysUnlocked, daemons
  <2>6. CASE TryLifetimeLock(c) \/ ReleaseLifetimeLock(c)
    <3>1. PICK p \in Pc \ {"ok", "boot", "gone"} : GoTo(c, p)
      BY <2>6 DEF TryLifetimeLock, ReleaseLifetimeLock, Pc, Asking, Ended
    <3> QED
      BY <1>1, <2>6, <3>1, MoveStaysUnlocked DEF TryLifetimeLock, ReleaseLifetimeLock, daemons
  <2>7. CASE SpawnDaemon(c)
    <3>1. PICK d \in Process : /\ phase[d] = "fresh"
                               /\ child' = [child EXCEPT ![c] = d]
                               /\ GoTo(c, "boot")
      BY <2>7 DEF SpawnDaemon, Disturb
    <3>2. answer[d] = "none"
      BY <3>1 DEF PhasesFit
    <3> QED
      BY <1>1, <2>7, <3>1, <3>2 DEF SpawnDaemon, GoTo, StaysUnlocked
  <2>8. CASE ReadAnswer(c)
    <3>1. UNCHANGED <<unlocked, stopping, answer, child>>
      BY <2>8 DEF ReadAnswer, daemons
    <3>2. CASE answer[child[c]] = "status" /\ GoTo(c, "ok") /\ told' = [told EXCEPT ![c] = child[c]]
      BY <1>1, <2>8, <3>1, <3>2 DEF ReadAnswer, GoTo, StaysUnlocked
    <3>3. CASE (GoTo(c, "await") \/ GoTo(c, "failed")) /\ UNCHANGED told
      BY <1>1, <3>1, <3>3, MoveStaysUnlocked DEF Pc, Asking, Ended
    <3> QED
      BY <2>8, <3>2, <3>3 DEF ReadAnswer
  <2>9. CASE ResponseTimeout(c) \/ TransitionTimeout(c) \/ BootTimeout(c)
    BY <2>9 DEF ResponseTimeout, TransitionTimeout, BootTimeout, Disturb
  <2> QED
    BY <1>2, <2>1, <2>2, <2>3, <2>4, <2>5, <2>6, <2>7, <2>8, <2>9 DEF CommandStep
<1>3. ASSUME NEW d \in Process, DaemonStep(d)
      PROVE  StaysUnlocked'
  <2>1. UNCHANGED <<pc, child, told>>
    BY <1>3 DEF DaemonStep, TakeLifetimeLock, OpenVault, RemoveStaleSocket, BindSocket,
       SetSocketPermissions, PrepareFails, Announce, LeaveLoop, DropSocketGuard, Exit, commands
  <2>2. ASSUME d \notin unlocked, NEW a, Die(d, a), a \in {"busy", answer[d]}
        PROVE  StaysUnlocked'
    BY <1>1, <2>1, <2>2 DEF Die, StaysUnlocked, ChildKnown
  <2>3. CASE TakeLifetimeLock(d)
    <3>1. d \notin unlocked
      BY <2>3 DEF TakeLifetimeLock, LockHeld, Owning
    <3>2. CASE UNCHANGED <<unlocked, stopping, answer>>
      BY <1>1, <2>1, <3>2 DEF StaysUnlocked
    <3>3. CASE Die(d, "busy")
      BY <2>2, <3>1, <3>3
    <3> QED
      BY <2>3, <3>2, <3>3 DEF TakeLifetimeLock
  <2>4. CASE OpenVault(d)
    BY <1>1, <2>1, <2>4 DEF OpenVault, Disturb, StaysUnlocked, PhasesFit, Starting
  <2>5. CASE RemoveStaleSocket(d) \/ BindSocket(d) \/ SetSocketPermissions(d) \/ DropSocketGuard(d)
    BY <1>1, <2>1, <2>5 DEF RemoveStaleSocket, BindSocket, SetSocketPermissions,
       DropSocketGuard, StaysUnlocked
  <2>6. CASE Announce(d)
    <3>1. /\ answer' = [answer EXCEPT ![d] = "status"] /\ d \in unlocked
          /\ UNCHANGED <<unlocked, stopping>>
      BY <1>1, <2>6 DEF Announce, StaysUnlocked, PhasesFit, Starting
    <3> QED
      BY <1>1, <2>1, <3>1 DEF StaysUnlocked, ChildKnown
  <2>7. CASE LeaveLoop(d)
    BY <1>1, <2>1, <2>7 DEF LeaveLoop, Disturb, StaysUnlocked
  <2>8. CASE Exit(d)
    BY <2>2, <2>8 DEF Exit, PhasesFit, Starting
  <2>9. CASE PrepareFails(d)
    BY <2>9 DEF PrepareFails, Disturb
  <2> QED
    BY <1>3, <2>3, <2>4, <2>5, <2>6, <2>7, <2>8, <2>9 DEF DaemonStep
<1>4. CASE ExternalStep
  BY <1>4 DEF ExternalStep, LockByOther, StopByOther, SignalByOther, Crash,
     LaunchDirectly, Interrupt, Disturb
<1> QED
  BY <1>2, <1>3, <1>4 DEF Next

LEMMA StartInitInv == Init => StartInv
<1> SUFFICES ASSUME Init PROVE StartInv
  OBVIOUS
<1>1. LifecycleInv
  BY InitInv
<1>2. PhasesFit
  <2>1. \A d \in Process : /\ phase[d] \in {"fresh", "dead", "serving"}
                           /\ phase[d] = "fresh" => answer[d] = "none"
    BY LifecycleAssumption DEF Init
  <2>2. stopping = {} /\ \A d \in unlocked : phase[d] = "serving"
    BY LifecycleAssumption DEF Init
  <2>3. \A d \in Process : phase[d] \notin Starting
    BY <2>1 DEF Starting
  <2> QED
    BY <2>1, <2>2, <2>3 DEF PhasesFit
<1>3. HoldsStart /\ TakesTurns /\ StaysUnlocked
  BY DEF Init, HoldsStart, TakesTurns, StaysUnlocked, Starting
<1> QED
  BY <1>1, <1>2, <1>3 DEF StartInv

LEMMA StartInvStep == StartInv /\ [Next]_vars => StartInv'
<1> SUFFICES ASSUME StartInv, [Next]_vars PROVE StartInv'
  OBVIOUS
<1>1. LifecycleInv'
  BY InvStep DEF StartInv
<1>2. CASE Next
  BY <1>1, <1>2, PhasesFitStep, HoldsStartStep, TakesTurnsStep, StaysUnlockedStep DEF StartInv
<1>3. CASE UNCHANGED vars
  <2> USE <1>3 DEF vars, locks, daemons, commands, StartInv
  <2>1. PhasesFit' /\ HoldsStart'
    BY DEF PhasesFit, HoldsStart
  <2>2. TakesTurns' /\ StaysUnlocked'
    BY DEF TakesTurns, StaysUnlocked
  <2> QED
    BY <1>1, <2>1, <2>2
<1> QED
  BY <1>2, <1>3

\* StartInv holds in every reachable state, whatever others may do.
THEOREM StartInvariance == Spec => []StartInv
<1> QED
  BY StartInitInv, StartInvStep, PTL DEF Spec

\* While only start commands launch daemons, and none of them is killed, the Stop
\* that a start sends never reaches an unlocked daemon, through any crash, signal
\* and timeout.
THEOREM StopSafety ==
  ASSUME External \cap {"launch", "interrupt"} = {}
  PROVE  Spec => []StopsOnlyLocked
<1>1. StartInv => StopsOnlyLocked
  BY DEF StartInv, TakesTurns, StopsOnlyLocked
<1> QED
  BY <1>1, StartInvariance, PTL

\* Any number of start commands that nothing disturbs report one unlocked daemon.
THEOREM Convergence == Spec => []StartsConverge
<1>1. StartInv => StartsConverge
  <2> SUFFICES ASSUME StartInv, disturbed = "no", NEW c \in Cli, pc[c] = "ok",
                      NEW e \in Cli, pc[e] = "ok"
               PROVE  told[c] \in unlocked /\ told[e] = told[c]
    BY DEF StartsConverge
  <2>1. told[c] \in unlocked /\ told[e] \in unlocked
    BY DEF StartInv, StaysUnlocked
  <2>2. \A d \in unlocked : lifetimeLock = d
    BY DEF StartInv, LifecycleInv, LockHeld, TypeOK
  <2> QED
    BY <2>1, <2>2
<1> QED
  BY <1>1, StartInvariance, PTL
=============================================================================
