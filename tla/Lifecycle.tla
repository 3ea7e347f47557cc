----------------------------- MODULE Lifecycle -----------------------------
(***************************************************************************)
(* Starting and ending the daemon on Unix: the `envault start` commands of *)
(* one user (main.rs, client.rs), the envaultd processes (Server in        *)
(* daemon.rs), and what they share in the runtime directory: the start     *)
(* lock, the lifetime lock and the socket path.                            *)
(*                                                                         *)
(* A request is two steps, to connect and to be answered, and the daemon   *)
(* can end between them.  An advisory lock is released by the kernel when  *)
(* its holder dies; a socket path is not removed.  Waiting is abstracted:  *)
(* a deadline may pass at any step that waits for it.                      *)
(***************************************************************************)
EXTENDS Naturals, FiniteSets

CONSTANTS
    Cli,        \* processes that run `envault start`, once each
    Process,    \* process ids of envaultd
    Old,        \* the one that may run before the first command
    Nobody,     \* no process
    External,   \* what others do: subset of Externals
    MaxProbes   \* MAX_ATTEMPTS of the tolerant probe

Externals == {"lock", "stop", "signal", "crash", "launch", "interrupt"}

ASSUME LifecycleAssumption ==
    /\ Old \in Process
    /\ Nobody \notin Cli \cup Process
    /\ Cli \cap Process = {}
    /\ External \subseteq Externals
    /\ MaxProbes \in Nat

VARIABLES
    startLock,    \* holder of envault-start.lock
    lifetimeLock, \* holder of envaultd.lock: a daemon, or a start that looks
    socket,       \* the process whose socket is at envault.sock
    phase,        \* where each daemon process is
    unlocked,     \* the daemons that hold a VaultSession
    stopping,     \* the daemons whose shutdown was notified or signalled
    answer,       \* the bootstrap answer each daemon wrote to its stdout
    pc,           \* where each start command is
    conn,         \* the daemon whose answer it waits for
    child,        \* the daemon it spawned
    probes,       \* attempts of the tolerant probe
    told,         \* the daemon it reported as running
    disturbed     \* "yes" once anything but orderly, timely steps happened

locks == <<startLock, lifetimeLock>>
daemons == <<phase, unlocked, stopping, answer>>
commands == <<pc, conn, child, probes, told>>
vars == <<locks, socket, daemons, commands, disturbed>>

Phase == {"fresh", "boot", "owning", "opened", "cleared", "bound", "ready",
          "serving", "closing", "unlinked", "dead"}
\* From try_lock to the end, a daemon holds the lifetime lock.
Owning == Phase \ {"fresh", "boot", "dead"}
\* Its socket is bound; the guard has not yet unlinked it.
Bound == {"bound", "ready", "serving", "closing"}

Asking == {"peek", "probe", "stop", "ask", "await"}
Ended == {"ok", "failed", "gone"}
Pc == Asking \cup Ended \cup {"queue", "drain", "release", "spawn", "boot"}

Init ==
    /\ startLock = Nobody
    /\ \E before \in {"nothing", "stale", "locked", "unlocked"} :
          /\ phase = [d \in Process |->
                         IF d # Old \/ before = "nothing" THEN "fresh"
                         ELSE IF before = "stale" THEN "dead" ELSE "serving"]
          /\ socket = IF before = "nothing" THEN Nobody ELSE Old
          /\ lifetimeLock = IF before \in {"locked", "unlocked"} THEN Old ELSE Nobody
          /\ unlocked = IF before = "unlocked" THEN {Old} ELSE {}
          /\ answer = [d \in Process |-> IF d = Old /\ before # "nothing" THEN "status"
                                         ELSE "none"]
    /\ stopping = {}
    /\ pc = [c \in Cli |-> "peek"]
    /\ conn = [c \in Cli |-> Nobody]
    /\ child = [c \in Cli |-> Nobody]
    /\ probes = [c \in Cli |-> 0]
    /\ told = [c \in Cli |-> Nobody]
    /\ disturbed = "no"

-----------------------------------------------------------------------------
(* The start command.                                                      *)

Disturb == disturbed' = "yes"

\* What the command does after a result of request(), by where it asked.
\* "peek" is the look of start_daemon, before the start lock.
After == [
    peek  |-> [unlocked |-> "ok", locked |-> "queue", not_running |-> "queue",
               protocol |-> "failed", timeout |-> "failed"],
    probe |-> [unlocked |-> "ok", locked |-> "stop", not_running |-> "spawn",
               protocol |-> "failed", timeout |-> "failed"],
    stop  |-> [ack |-> "drain", not_running |-> "drain",
               protocol |-> "failed", timeout |-> "failed"],
    ask   |-> [unlocked |-> "ok", locked |-> "drain", not_running |-> "drain",
               protocol |-> "drain", timeout |-> "drain"],
    await |-> [unlocked |-> "ok", locked |-> "await", not_running |-> "await",
               protocol |-> "await", timeout |-> "await"]]

\* c goes on at p; start() returning releases the start lock.
GoTo(c, p) ==
    /\ pc' = [pc EXCEPT ![c] = p]
    /\ conn' = [conn EXCEPT ![c] = Nobody]
    /\ startLock' = IF p \in Ended /\ startLock = c THEN Nobody ELSE startLock

\* The tolerant probe repeats a protocol failure a bounded number of times.
Result(c, r) ==
    IF pc[c] = "probe" /\ r = "protocol" /\ probes[c] < MaxProbes
    THEN GoTo(c, "probe") /\ probes' = [probes EXCEPT ![c] = @ + 1]
    ELSE GoTo(c, After[pc[c]][r]) /\ UNCHANGED probes

\* UnixStream::connect and authenticate_server, which refuses a socket whose
\* mode is not yet private.
Connect(c) ==
    /\ pc[c] \in Asking
    /\ conn[c] = Nobody
    /\ IF socket # Nobody /\ phase[socket] \in Bound
       THEN IF phase[socket] = "bound"
            THEN Result(c, "protocol")
            ELSE /\ conn' = [conn EXCEPT ![c] = socket]
                 /\ UNCHANGED <<pc, probes, startLock>>
       ELSE Result(c, "not_running")
    /\ UNCHANGED <<lifetimeLock, socket, daemons, child, told, disturbed>>

\* Mutant: a daemon that answers counts as unlocked.
StatusAnswered_AnyRunning(c) ==
    /\ pc[c] \in Asking \ {"stop"}
    /\ conn[c] # Nobody
    /\ phase[conn[c]] = "serving"
    /\ Result(c, "unlocked")
    /\ told' = [told EXCEPT ![c] = conn[c]]
    /\ UNCHANGED <<lifetimeLock, socket, daemons, child, disturbed>>

\* The daemon serves a Status request.
StatusAnswered(c) ==
    /\ pc[c] \in Asking \ {"stop"}
    /\ conn[c] # Nobody
    /\ phase[conn[c]] = "serving"
    /\ IF conn[c] \in unlocked
       THEN Result(c, "unlocked") /\ told' = [told EXCEPT ![c] = conn[c]]
       ELSE Result(c, "locked") /\ UNCHANGED told
    /\ UNCHANGED <<lifetimeLock, socket, daemons, child, disturbed>>

\* The daemon serves a Stop request: the vault is locked at once, and the
\* loop is notified after the answer was written, read in time or not.
StopAnswered(c) ==
    /\ pc[c] = "stop"
    /\ conn[c] # Nobody
    /\ phase[conn[c]] = "serving"
    /\ unlocked' = unlocked \ {conn[c]}
    /\ stopping' = stopping \cup {conn[c]}
    /\ \/ Result(c, "ack") /\ UNCHANGED disturbed
       \/ Result(c, "timeout") /\ Disturb
    /\ UNCHANGED <<lifetimeLock, socket, phase, answer, child, told>>

\* The daemon ends with the request unanswered, or drops the connection
\* because of its limits on rate and number.
Dropped(c) ==
    /\ conn[c] # Nobody
    /\ \/ phase[conn[c]] \in {"closing", "unlinked", "dead"} /\ UNCHANGED disturbed
       \/ phase[conn[c]] = "serving" /\ Disturb
    /\ Result(c, "protocol")
    /\ UNCHANGED <<lifetimeLock, socket, daemons, child, told>>

ResponseTimeout(c) ==
    /\ conn[c] # Nobody
    /\ Result(c, "timeout")
    /\ Disturb
    /\ UNCHANGED <<lifetimeLock, socket, daemons, child, told>>

\* Mutant: the start lock is not taken.
AcquireStartLock_Shared(c) ==
    /\ pc[c] = "queue"
    /\ GoTo(c, "probe")
    /\ UNCHANGED <<lifetimeLock, socket, daemons, child, probes, told, disturbed>>

AcquireStartLock(c) ==
    /\ pc[c] = "queue"
    /\ startLock = Nobody
    /\ pc' = [pc EXCEPT ![c] = "probe"]
    /\ startLock' = c
    /\ UNCHANGED <<lifetimeLock, socket, daemons, conn, child, probes, told, disturbed>>

\* Mutant: waiting for a daemon that another start launches has no deadline.
TransitionTimeout_NotAwaiting(c) ==
    /\ pc[c] \in {"queue", "drain"}
    /\ GoTo(c, "failed")
    /\ Disturb
    /\ UNCHANGED <<lifetimeLock, socket, daemons, child, probes, told>>

\* DAEMON_TRANSITION_TIMEOUT passes in one of the three waiting loops.
TransitionTimeout(c) ==
    /\ pc[c] \in {"queue", "drain", "await"}
    /\ conn[c] = Nobody
    /\ GoTo(c, "failed")
    /\ Disturb
    /\ UNCHANGED <<lifetimeLock, socket, daemons, child, probes, told>>

\* wait_for_daemon_exit takes the lifetime lock only to see that it is free.
TryLifetimeLock(c) ==
    /\ pc[c] = "drain"
    /\ IF lifetimeLock = Nobody
       THEN lifetimeLock' = c /\ GoTo(c, "release")
       ELSE GoTo(c, "ask") /\ UNCHANGED lifetimeLock
    /\ UNCHANGED <<socket, daemons, child, probes, told, disturbed>>

ReleaseLifetimeLock(c) ==
    /\ pc[c] = "release"
    /\ lifetimeLock' = Nobody
    /\ GoTo(c, "spawn")
    /\ UNCHANGED <<socket, daemons, child, probes, told, disturbed>>

SpawnDaemon(c) ==
    /\ pc[c] = "spawn"
    /\ \/ \E d \in Process :
             /\ phase[d] = "fresh"
             /\ phase' = [phase EXCEPT ![d] = "boot"]
             /\ child' = [child EXCEPT ![c] = d]
             /\ GoTo(c, "boot")
             /\ UNCHANGED disturbed
       \/ GoTo(c, "failed") /\ Disturb /\ UNCHANGED <<phase, child>>
    /\ UNCHANGED <<lifetimeLock, socket, unlocked, stopping, answer, probes, told>>

-----------------------------------------------------------------------------
(* The daemon process.                                                     *)

\* d ends; the kernel closes its files.
Die(d, a) ==
    /\ phase' = [phase EXCEPT ![d] = "dead"]
    /\ unlocked' = unlocked \ {d}
    /\ stopping' = stopping \ {d}
    /\ answer' = [answer EXCEPT ![d] = a]
    /\ lifetimeLock' = IF lifetimeLock = d THEN Nobody ELSE lifetimeLock

Advance(d, from, to) ==
    /\ phase[d] = from
    /\ phase' = [phase EXCEPT ![d] = to]

\* Mutant: the lifetime lock is not waited for.
TakeLifetimeLock_Ignored(d) ==
    /\ Advance(d, "boot", "owning")
    /\ lifetimeLock' = d
    /\ UNCHANGED <<startLock, socket, unlocked, stopping, answer, commands, disturbed>>

\* Mutant: the stale socket is removed before the lock is tried.
TakeLifetimeLock_CleansFirst(d) ==
    /\ phase[d] = "boot"
    /\ \/ /\ lifetimeLock = Nobody
          /\ lifetimeLock' = d
          /\ phase' = [phase EXCEPT ![d] = "owning"]
          /\ UNCHANGED <<unlocked, stopping, answer>>
       \/ lifetimeLock # Nobody /\ Die(d, "busy")
    /\ socket' = Nobody
    /\ UNCHANGED <<startLock, commands, disturbed>>

TakeLifetimeLock(d) ==
    /\ phase[d] = "boot"
    /\ \/ /\ lifetimeLock = Nobody
          /\ lifetimeLock' = d
          /\ phase' = [phase EXCEPT ![d] = "owning"]
          /\ UNCHANGED <<unlocked, stopping, answer>>
       \/ lifetimeLock # Nobody /\ Die(d, "busy")
    /\ UNCHANGED <<startLock, socket, commands, disturbed>>

\* VaultSession::unlock, which a wrong password or a damaged vault fails.
OpenVault(d) ==
    /\ phase[d] = "owning"
    /\ \/ /\ phase' = [phase EXCEPT ![d] = "opened"]
          /\ unlocked' = unlocked \cup {d}
          /\ UNCHANGED <<lifetimeLock, stopping, answer, disturbed>>
       \/ Die(d, "error") /\ Disturb
    /\ UNCHANGED <<startLock, socket, commands>>

RemoveStaleSocket(d) ==
    /\ Advance(d, "opened", "cleared")
    /\ socket' = Nobody
    /\ UNCHANGED <<locks, unlocked, stopping, answer, commands, disturbed>>

\* bind fails on a path that exists.
BindSocket(d) ==
    /\ socket = Nobody
    /\ Advance(d, "cleared", "bound")
    /\ socket' = d
    /\ UNCHANGED <<locks, unlocked, stopping, answer, commands, disturbed>>

\* set_private_socket_permissions, then SocketGuard::new.
SetSocketPermissions(d) ==
    /\ Advance(d, "bound", "ready")
    /\ UNCHANGED <<locks, socket, unlocked, stopping, answer, commands, disturbed>>

\* Server::prepare fails before the guard exists: a bound path stays behind.
PrepareFails(d) ==
    /\ phase[d] \in {"opened", "cleared", "bound"}
    /\ Die(d, "error")
    /\ Disturb
    /\ UNCHANGED <<startLock, socket, commands>>

\* run_from_stdio reports readiness and enters the accept loop; if nobody
\* reads the report, it drops the server instead.
Announce(d) ==
    /\ phase[d] = "ready"
    /\ IF \E c \in Cli : child[c] = d /\ pc[c] = "gone"
       THEN /\ phase' = [phase EXCEPT ![d] = "closing"]
            /\ unlocked' = unlocked \ {d}
            /\ UNCHANGED answer
       ELSE /\ phase' = [phase EXCEPT ![d] = "serving"]
            /\ answer' = [answer EXCEPT ![d] = "status"]
            /\ UNCHANGED unlocked
    /\ UNCHANGED <<locks, socket, stopping, commands, disturbed>>

\* The loop breaks, tasks are aborted and joined, and the vault is locked.  An
\* error of accept() leaves run() at once and drops the same fields.
LeaveLoop(d) ==
    /\ Advance(d, "serving", "closing")
    /\ \/ d \in stopping /\ UNCHANGED disturbed
       \/ Disturb
    /\ unlocked' = unlocked \ {d}
    /\ UNCHANGED <<locks, socket, stopping, answer, commands>>

\* SocketGuard::drop: the path goes if it still leads to this socket.
DropSocketGuard(d) ==
    /\ Advance(d, "closing", "unlinked")
    /\ socket' = IF socket = d THEN Nobody ELSE socket
    /\ UNCHANGED <<locks, unlocked, stopping, answer, commands, disturbed>>

\* The lock file is dropped with the rest of Server.
Exit(d) ==
    /\ phase[d] = "unlinked"
    /\ Die(d, answer[d])
    /\ UNCHANGED <<startLock, socket, commands, disturbed>>

-----------------------------------------------------------------------------
(* The command and the child it spawned.                                   *)

\* spawn_daemon reads the readiness frame; end of file is a protocol failure.
ReadAnswer(c) ==
    /\ pc[c] = "boot"
    /\ \/ /\ answer[child[c]] = "status"
          /\ GoTo(c, "ok")
          /\ told' = [told EXCEPT ![c] = child[c]]
       \/ answer[child[c]] = "busy" /\ GoTo(c, "await") /\ UNCHANGED told
       \/ answer[child[c]] = "error" /\ GoTo(c, "failed") /\ UNCHANGED told
       \/ /\ answer[child[c]] = "none"
          /\ phase[child[c]] = "dead"
          /\ GoTo(c, "failed")
          /\ UNCHANGED told
    /\ UNCHANGED <<lifetimeLock, socket, daemons, child, probes, disturbed>>

\* Mutant: the child is not killed.
BootTimeout_LeavesChild(c) ==
    /\ pc[c] = "boot"
    /\ GoTo(c, "failed")
    /\ Disturb
    /\ UNCHANGED <<lifetimeLock, socket, daemons, child, probes, told>>

\* No frame in time: the child is killed, whatever it was about to answer.
BootTimeout(c) ==
    /\ pc[c] = "boot"
    /\ Die(child[c], answer[child[c]])
    /\ GoTo(c, "failed")
    /\ Disturb
    /\ UNCHANGED <<socket, child, probes, told>>

-----------------------------------------------------------------------------
(* What others do to the daemon and to the command.                        *)

\* Another client's Lock, Stop, or a signal to the process.
LockByOther(d) ==
    /\ "lock" \in External
    /\ phase[d] = "serving"
    /\ unlocked' = unlocked \ {d}
    /\ Disturb
    /\ UNCHANGED <<locks, socket, phase, stopping, answer, commands>>

StopByOther(d) ==
    /\ "stop" \in External
    /\ phase[d] = "serving"
    /\ unlocked' = unlocked \ {d}
    /\ stopping' = stopping \cup {d}
    /\ Disturb
    /\ UNCHANGED <<locks, socket, phase, answer, commands>>

SignalByOther(d) ==
    /\ "signal" \in External
    /\ phase[d] = "serving"
    /\ stopping' = stopping \cup {d}
    /\ Disturb
    /\ UNCHANGED <<locks, socket, phase, unlocked, answer, commands>>

Crash(d) ==
    /\ "crash" \in External
    /\ phase[d] \notin {"fresh", "dead"}
    /\ Die(d, answer[d])
    /\ Disturb
    /\ UNCHANGED <<startLock, socket, commands>>

\* A person or a supervisor runs envaultd directly.
LaunchDirectly(d) ==
    /\ "launch" \in External
    /\ Advance(d, "fresh", "boot")
    /\ Disturb
    /\ UNCHANGED <<locks, socket, unlocked, stopping, answer, commands>>

\* The command is killed; its child runs on.
Interrupt(c) ==
    /\ "interrupt" \in External
    /\ pc[c] \notin Ended
    /\ GoTo(c, "gone")
    /\ lifetimeLock' = IF lifetimeLock = c THEN Nobody ELSE lifetimeLock
    /\ Disturb
    /\ UNCHANGED <<socket, daemons, child, probes, told>>

CommandStep(c) ==
    \/ Connect(c) \/ StatusAnswered(c) \/ StopAnswered(c) \/ Dropped(c)
    \/ ResponseTimeout(c) \/ AcquireStartLock(c) \/ TransitionTimeout(c)
    \/ TryLifetimeLock(c) \/ ReleaseLifetimeLock(c) \/ SpawnDaemon(c)
    \/ ReadAnswer(c) \/ BootTimeout(c)

DaemonStep(d) ==
    \/ TakeLifetimeLock(d) \/ OpenVault(d) \/ RemoveStaleSocket(d) \/ BindSocket(d)
    \/ SetSocketPermissions(d) \/ PrepareFails(d) \/ Announce(d) \/ LeaveLoop(d)
    \/ DropSocketGuard(d) \/ Exit(d)

ExternalStep ==
    \/ \E d \in Process : LockByOther(d) \/ StopByOther(d) \/ SignalByOther(d)
                          \/ Crash(d) \/ LaunchDirectly(d)
    \/ \E c \in Cli : Interrupt(c)

Next ==
    \/ \E c \in Cli : CommandStep(c)
    \/ \E d \in Process : DaemonStep(d)
    \/ ExternalStep

Spec == Init /\ [][Next]_vars

\* A command is scheduled, a response deadline passes, and a waiting loop
\* looks at its own deadline in every round.
Fairness ==
    \A c \in Cli :
        /\ WF_vars(Connect(c)) /\ WF_vars(ResponseTimeout(c))
        /\ WF_vars(TryLifetimeLock(c)) /\ WF_vars(ReleaseLifetimeLock(c))
        /\ WF_vars(SpawnDaemon(c)) /\ WF_vars(BootTimeout(c))
        /\ SF_vars(TransitionTimeout(c))

FairSpec == Spec /\ Fairness

-----------------------------------------------------------------------------
(* Properties.                                                             *)

TypeOK ==
    /\ startLock \in Cli \cup {Nobody}
    /\ lifetimeLock \in Cli \cup Process \cup {Nobody}
    /\ socket \in Process \cup {Nobody}
    /\ phase \in [Process -> Phase]
    /\ unlocked \in SUBSET Process
    /\ stopping \in SUBSET Process
    /\ answer \in [Process -> {"none", "status", "busy", "error"}]
    /\ pc \in [Cli -> Pc]
    /\ conn \in [Cli -> Process \cup {Nobody}]
    /\ child \in [Cli -> Process \cup {Nobody}]
    /\ probes \in [Cli -> 0 .. MaxProbes]
    /\ told \in [Cli -> Process \cup {Nobody}]
    /\ disturbed \in {"no", "yes"}

\* At most one process ever has the vault open, whatever starts, crashes and is
\* launched by hand: it is the holder of the lifetime lock.
OneVault == \A d \in unlocked : lifetimeLock = d

\* A daemon that can be asked is the one the socket path leads to: no other
\* process removes or replaces the path of a live daemon.
LiveSocket == \A d \in Process : phase[d] \in Bound => socket = d

\* A start that reports a failure leaves no process of its own behind.
NoOrphan ==
    \A c \in Cli : pc[c] = "failed" /\ child[c] # Nobody => phase[child[c]] = "dead"

\* What OneVault, LiveSocket and NoOrphan rest on: the phases in which the lock
\* is held, and how far each command and the child it spawned are.
LockHeld ==
    /\ \A d \in Process : phase[d] \in Owning => lifetimeLock = d
    /\ \A d \in unlocked : phase[d] \in Owning
    /\ \A c \in Cli : pc[c] = "release" => lifetimeLock = c
ChildKnown ==
    /\ \A c \in Cli : conn[c] # Nobody => pc[c] \in Asking
    /\ \A c \in Cli : pc[c] \in Pc \ (Ended \cup {"boot", "await"}) => child[c] = Nobody
    /\ \A c \in Cli : pc[c] \in {"boot", "await"} => child[c] \in Process
    /\ \A c \in Cli : pc[c] = "await" => phase[child[c]] = "dead"
    /\ \A d \in Process : answer[d] \in {"busy", "error"} => phase[d] = "dead"
LifecycleInv == TypeOK /\ LockHeld /\ LiveSocket /\ ChildKnown /\ NoOrphan

\* The Stop that `start` sends to replace a locked daemon never reaches an
\* unlocked one.  The start lock gives this as long as daemons are launched by
\* start commands that are not killed.
StopsOnlyLocked ==
    \A c \in Cli : pc[c] = "stop" /\ conn[c] # Nobody => conn[c] \notin unlocked

\* Start commands that nothing disturbs report the same, unlocked daemon.
StartsConverge ==
    disturbed = "no" =>
        \A c \in Cli : pc[c] = "ok" =>
            told[c] \in unlocked /\ \A e \in Cli : pc[e] = "ok" => told[e] = told[c]

\* What the two rest on.  A daemon that starts has answered nobody and has the
\* vault open once it opened it, and one that was told to stop is at its end.
Starting == {"boot", "owning", "opened", "cleared", "bound", "ready"}
PhasesFit ==
    /\ \A d \in Process : phase[d] \in {"fresh"} \cup Starting => answer[d] = "none"
    /\ \A d \in Process : phase[d] \in Starting \ {"boot", "owning"} => d \in unlocked
    /\ \A d \in unlocked : phase[d] \in Starting \cup {"serving"}
    /\ \A d \in stopping : phase[d] \in {"serving", "closing", "unlinked"}

\* Past the queue a command holds the start lock.
HoldsStart ==
    \A c \in Cli : pc[c] \in Pc \ (Ended \cup {"peek", "queue"}) => startLock = c

\* While only start commands launch daemons, and none is killed, each daemon that
\* starts has a command that waits for it, so none starts while another command
\* replaces a locked daemon.
TakesTurns ==
    disturbed = "no" \/ External \cap {"launch", "interrupt"} = {} =>
        /\ \A d \in Process : phase[d] \in Starting =>
               \E c \in Cli : pc[c] = "boot" /\ child[c] = d
        /\ \A c \in Cli : pc[c] = "stop" => unlocked = {}

\* Undisturbed, a daemon that was reported stays unlocked.
StaysUnlocked ==
    disturbed = "no" =>
        /\ stopping \cap unlocked = {}
        /\ \A c \in Cli : pc[c] # "gone"
        /\ \A c \in Cli : pc[c] = "ok" => told[c] \in unlocked
        /\ \A c \in Cli : pc[c] = "boot" /\ answer[child[c]] = "status" => child[c] \in unlocked
StartInv == LifecycleInv /\ PhasesFit /\ HoldsStart /\ TakesTurns /\ StaysUnlocked

\* Every start command ends.
StartEnds == \A c \in Cli : pc[c] \notin Ended ~> pc[c] \in Ended

\* The test concurrent_start_commands_converge_on_one_unlocked_daemon asserts
\* that start commands at the same time all succeed.
UndisturbedStartSucceeds == \A c \in Cli : pc[c] = "failed" => disturbed = "yes"
=============================================================================
