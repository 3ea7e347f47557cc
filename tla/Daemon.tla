------------------------------- MODULE Daemon -------------------------------
(***************************************************************************)
(* The EnVault daemon, envaultd: the runtime state behind one mutex, the   *)
(* connection tasks that compete for it, the accept loop, the blocking     *)
(* threads that verify passwords and move packages, and shutdown           *)
(* (crates/envault/src/daemon.rs).                                         *)
(*                                                                         *)
(* One element of Conn is one connection slot: a connection carries one    *)
(* request, and a slot is used again once its connection and the blocking  *)
(* job it left behind, if any, are gone.  A request is answered over       *)
(* several steps: every try_lock, every await and every blocking job is a  *)
(* step of its own, so other connections run in between.                   *)
(*                                                                         *)
(* Clocks are abstracted to the event that matters: a timed lease becomes  *)
(* due, a connection's deadline passes.  Peer credentials are not state:   *)
(* a peer whose uid is not the owner's is dropped before it touches any,   *)
(* so every lease and every peer below has the owner's uid.  The rate      *)
(* windows are modelled in RateLimit; here a rate check passes or fails.   *)
(***************************************************************************)
EXTENDS Naturals, FiniteSets

CONSTANTS
    Conn,       \* connection slots (the permits of `connections`)
    Op,         \* the operations clients send, a subset of Operation
    Ttl,        \* the kinds of lease clients ask for: "timed", "untimed"
    MaxMints,   \* bound: reveal-token requests in one behaviour
    AcceptErrors, \* whether accept(2) can fail (out of descriptors)
    Free,       \* nobody holds the mutex or the authentication permit
    Acceptor    \* the accept loop, as a holder of the mutex

SyncOp == {"Status", "Lock", "Stop", "AdminStatus", "AdminLock", "Read", "Mutate", "Reveal"}
AuthOp == {"AdminUnlock", "IssueRevealToken"}
Operation == SyncOp \cup AuthOp \cup {"Http", "Portability"}

ASSUME DaemonAssumption ==
    /\ Op \subseteq Operation
    /\ Ttl \subseteq {"timed", "untimed"}
    /\ MaxMints \in Nat
    /\ AcceptErrors \in BOOLEAN
    /\ Free # Acceptor
    /\ Free \notin Conn
    /\ Acceptor \notin Conn

VARIABLES
    vault,      \* RuntimeState.vault: "unlocked" is Some, "locked" is None
    lease,      \* RuntimeState.admin_lease: none, running or past its deadline
    digest,     \* its reveal_token_digest
    minted,     \* reveal tokens minted so far; token n is the n-th
    mutex,      \* holder of Mutex<RuntimeState>
    permit,     \* holder of the single authentication permit
    pc,         \* where each connection task stands
    req,        \* the request each connection decoded last
    ans,        \* the answer each connection gave last
    applied,    \* history: the connections whose request has had its effect
    job,        \* the blocking job each connection started
    known,      \* tokens that reached a client
    live,       \* history: tokens minted under the lease held now
    loop,       \* the accept loop
    notified    \* shutdown was notified, or a signal arrived

vars == <<vault, lease, digest, minted, mutex, permit, pc, req, ans, applied, job,
          known, live, loop, notified>>
runtime == <<vault, lease, digest, minted, live>>
server == <<loop, notified>>

\* A token is the number of its mint; 0 stands for none, or for a guess.
NoToken == 0
\* "due": the deadline has passed and nobody has looked at the lease since.
Lease == {"none", "timed", "untimed", "due"}
\* password is "right" or "wrong" where the operation carries one; ttl is the
\* kind of lease AdminUnlock asks for; token is the one RevealSecretValue shows.
Request == [op : Operation, password : {"right", "wrong", "none"},
            ttl : {"timed", "untimed", "none"}, token : Nat]
NoRequest == [op |-> "Status", password |-> "none", ttl |-> "none", token |-> NoToken]
Answer == {"none", "ok", "failed", "busy", "deadline", "ambiguous", "aborted"}
Pc == {"idle", "read", "rate", "check", "permit", "await", "grant", "handle",
       "prepare", "network", "write"}
Job == {"none", "verify", "queued", "run"}
\* Where a connection task needs the mutex for its next step.
LockPc == {"rate", "check", "grant", "handle", "prepare"}
LoopState == {"select", "admit", "drain", "exited", "failed"}

-----------------------------------------------------------------------------
Init ==
    /\ vault = "unlocked"
    /\ lease = "none"
    /\ digest = NoToken
    /\ minted = 0
    /\ mutex = Free
    /\ permit = Free
    /\ pc = [c \in Conn |-> "idle"]
    /\ req = [c \in Conn |-> NoRequest]
    /\ ans = [c \in Conn |-> "none"]
    /\ applied = {}
    /\ job = [c \in Conn |-> "none"]
    /\ known = {}
    /\ live = {}
    /\ loop = "select"
    /\ notified = FALSE

-----------------------------------------------------------------------------
(* The accept loop.                                                        *)

\* A client connects; the loop leaves select! and blocks on the mutex.
AcceptConnection ==
    /\ loop = "select"
    /\ loop' = "admit"
    /\ UNCHANGED <<runtime, mutex, permit, pc, req, ans, applied, job, known, notified>>

AcceptorLocks ==
    /\ loop = "admit"
    /\ mutex = Free
    /\ mutex' = Acceptor
    /\ UNCHANGED <<runtime, permit, pc, req, ans, applied, job, known, server>>

\* check_connection_rate refused the peer, or no connection permit is left.
DropConnection ==
    /\ mutex = Acceptor
    /\ mutex' = Free
    /\ loop' = "select"
    /\ UNCHANGED <<runtime, permit, pc, req, ans, applied, job, known, notified>>

SpawnConnection(c) ==
    /\ mutex = Acceptor
    /\ pc[c] = "idle"
    /\ job[c] = "none"
    /\ mutex' = Free
    /\ loop' = "select"
    /\ pc' = [pc EXCEPT ![c] = "read"]
    /\ req' = [req EXCEPT ![c] = NoRequest]
    /\ ans' = [ans EXCEPT ![c] = "none"]
    /\ applied' = applied \ {c}
    /\ UNCHANGED <<runtime, permit, job, known, notified>>

-----------------------------------------------------------------------------
(* One connection task.                                                    *)

Goto(c, p) == pc' = [pc EXCEPT ![c] = p]

Reply(c, a) ==
    /\ Goto(c, "write")
    /\ ans' = [ans EXCEPT ![c] = a]

\* A frame that does not decode, a protocol version or a ttl out of range.
ReadMalformed(c) ==
    /\ pc[c] = "read"
    /\ Reply(c, "failed")
    /\ UNCHANGED <<runtime, mutex, permit, req, applied, job, known, server>>

PendingMints == {c \in Conn : pc[c] # "idle" /\ req[c].op = "IssueRevealToken"}

\* What a client can send: a password only where one is asked for, a ttl only
\* with AdminUnlock, and no token but those that reached a client.
Requests ==
    {r \in [op : Op, password : {"right", "wrong", "none"}, ttl : Ttl \cup {"none"},
            token : known \cup {NoToken}] :
        /\ r.op \in AuthOp <=> r.password # "none"
        /\ r.op = "AdminUnlock" <=> r.ttl # "none"
        /\ r.token # NoToken => r.op = "Reveal"
        /\ r.op = "IssueRevealToken" =>
              minted + Cardinality(PendingMints) < MaxMints}

FirstPc(op) ==
    IF op \in AuthOp THEN "rate"
    ELSE IF op = "Http" THEN "prepare"
    ELSE IF op = "Portability" THEN "await"
    ELSE "handle"

ReadRequest(c) ==
    /\ pc[c] = "read"
    /\ \E r \in Requests :
          /\ req' = [req EXCEPT ![c] = r]
          /\ Goto(c, FirstPc(r.op))
          /\ job' = [job EXCEPT ![c] = IF r.op = "Portability" THEN "queued" ELSE "none"]
    /\ UNCHANGED <<runtime, mutex, permit, ans, applied, known, server>>

\* state.try_lock(), and Busy when anyone else holds the mutex.
TryLock(c) ==
    /\ pc[c] \in LockPc
    /\ mutex = Free
    /\ mutex' = c
    /\ UNCHANGED <<runtime, permit, pc, req, ans, applied, job, known, server>>

TryLockBusy(c) ==
    /\ pc[c] \in LockPc
    /\ mutex \notin {Free, c}
    /\ Reply(c, "busy")
    /\ UNCHANGED <<runtime, mutex, permit, req, applied, job, known, server>>

\* The critical section of c at p; it ends by dropping the guard.
Critical(c, p) ==
    /\ pc[c] = p
    /\ mutex = c
    /\ mutex' = Free

AdminGranted == vault = "unlocked" /\ lease \in {"timed", "untimed"}

DropLeaseIf(b) ==
    /\ lease' = IF b THEN "none" ELSE lease
    /\ digest' = IF b THEN NoToken ELSE digest
    /\ live' = IF b THEN {} ELSE live

DropLease == DropLeaseIf(TRUE)

\* What admin_lease_active leaves behind: a lease past its deadline is dropped.
PurgeLease == DropLeaseIf(lease = "due")

\* require_admin looks at the lease only when the vault is unlocked; it
\* succeeds when AdminGranted.
RequireAdmin == DropLeaseIf(vault = "unlocked" /\ lease = "due")

\* The handler carried the request out, or returned an error.
Carried(c) == applied' = applied \cup {c} /\ Reply(c, "ok")
Refused(c) == Reply(c, "failed") /\ UNCHANGED applied

CheckAuthenticationRate(c) ==
    /\ Critical(c, "rate")
    /\ \/ Goto(c, "check") /\ UNCHANGED ans
       \/ Reply(c, "failed")
    /\ UNCHANGED <<runtime, permit, req, applied, job, known, server>>

\* The checks before the password is verified: an unlocked vault for
\* AdminUnlock, an active lease as well for IssueRevealToken.
CheckBeforeVerify(c) ==
    /\ Critical(c, "check")
    /\ \/ req[c].op = "AdminUnlock" /\ UNCHANGED <<lease, digest, live>>
       \/ req[c].op # "AdminUnlock" /\ RequireAdmin
    /\ IF AdminGranted \/ (req[c].op = "AdminUnlock" /\ vault = "unlocked")
       THEN Goto(c, "permit") /\ UNCHANGED ans
       ELSE Reply(c, "failed")
    /\ UNCHANGED <<vault, minted, permit, req, applied, job, known, server>>

\* authentication.acquire_owned().await, then spawn_blocking: the permit
\* moves into the blocking closure.
AcquirePermit(c) ==
    /\ pc[c] = "permit"
    /\ permit = Free
    /\ permit' = c
    /\ job' = [job EXCEPT ![c] = "verify"]
    /\ Goto(c, "await")
    /\ UNCHANGED <<runtime, mutex, req, ans, applied, known, server>>

\* Mutant: only a connection that still waits gives the permit back.
FinishVerify_PermitWithWaiter(c) ==
    /\ job[c] = "verify"
    /\ job' = [job EXCEPT ![c] = "none"]
    /\ permit' = IF pc[c] = "await" THEN Free ELSE permit
    /\ IF pc[c] # "await"
       THEN UNCHANGED <<pc, ans>>
       ELSE IF req[c].password = "right"
            THEN Goto(c, "grant") /\ UNCHANGED ans
            ELSE Reply(c, "failed")
    /\ UNCHANGED <<runtime, mutex, req, applied, known, server>>

\* VaultSession::unlock returns in the blocking thread and drops the permit;
\* the connection, when it still waits, goes on.
FinishVerify(c) ==
    /\ job[c] = "verify"
    /\ job' = [job EXCEPT ![c] = "none"]
    /\ permit' = Free
    /\ IF pc[c] # "await"
       THEN UNCHANGED <<pc, ans>>
       ELSE IF req[c].password = "right"
            THEN Goto(c, "grant") /\ UNCHANGED ans
            ELSE Reply(c, "failed")
    /\ UNCHANGED <<runtime, mutex, req, applied, known, server>>

\* Mutant: the vault is not looked at again after the password was verified.
IssueAdminLease_Unchecked(c) ==
    /\ Critical(c, "grant")
    /\ req[c].op = "AdminUnlock"
    /\ lease' = req[c].ttl
    /\ digest' = NoToken
    /\ live' = {}
    /\ Carried(c)
    /\ UNCHANGED <<vault, minted, permit, req, job, known, server>>

\* issue_admin_lease: a new lease replaces the old one and has no digest.
IssueAdminLease(c) ==
    /\ Critical(c, "grant")
    /\ req[c].op = "AdminUnlock"
    /\ \/ /\ vault = "unlocked"
          /\ lease' = req[c].ttl
          /\ digest' = NoToken
          /\ live' = {}
          /\ Carried(c)
       \/ /\ vault = "locked"
          /\ UNCHANGED <<lease, digest, live>>
          /\ Refused(c)
    /\ UNCHANGED <<vault, minted, permit, req, job, known, server>>

\* mint_reveal_token; the token travels back in the reply, kept in req[c].token.
MintRevealToken(c) ==
    /\ Critical(c, "grant")
    /\ req[c].op = "IssueRevealToken"
    /\ \/ /\ AdminGranted
          /\ minted' = minted + 1
          /\ digest' = minted + 1
          /\ live' = live \cup {minted + 1}
          /\ req' = [req EXCEPT ![c].token = minted + 1]
          /\ Carried(c)
          /\ UNCHANGED lease
       \/ /\ ~AdminGranted
          /\ RequireAdmin
          /\ Refused(c)
          /\ UNCHANGED <<minted, req>>
    /\ UNCHANGED <<vault, permit, job, known, server>>

-----------------------------------------------------------------------------
(* RuntimeState::handle, one action per kind of operation.                 *)

Handling(c, op) ==
    /\ Critical(c, "handle")
    /\ req[c].op = op

\* An open vault is asked for its profiles first, which may fail.
HandleStatus(c) ==
    /\ Handling(c, "Status")
    /\ \/ PurgeLease /\ Reply(c, "ok")
       \/ vault = "unlocked" /\ Reply(c, "failed") /\ UNCHANGED <<lease, digest, live>>
    /\ UNCHANGED <<vault, minted, permit, req, applied, job, known, server>>

\* RuntimeState::lock drops the session and the lease with its digest.
DropVault == vault' = "locked" /\ DropLease

\* Lock is a no-op on a locked daemon.
HandleLock(c) ==
    /\ Handling(c, "Lock")
    /\ vault' = "locked"
    /\ DropLeaseIf(vault = "unlocked")
    /\ Carried(c)
    /\ UNCHANGED <<minted, permit, req, job, known, server>>

HandleStop(c) ==
    /\ Handling(c, "Stop")
    /\ DropVault
    /\ Carried(c)
    /\ UNCHANGED <<minted, permit, req, job, known, server>>

HandleAdminStatus(c) ==
    /\ Handling(c, "AdminStatus")
    /\ RequireAdmin
    /\ Reply(c, IF vault = "unlocked" THEN "ok" ELSE "failed")
    /\ UNCHANGED <<vault, minted, permit, req, applied, job, known, server>>

HandleAdminLock(c) ==
    /\ Handling(c, "AdminLock")
    /\ \/ AdminGranted /\ DropLease /\ Carried(c)
       \/ ~AdminGranted /\ RequireAdmin /\ Refused(c)
    /\ UNCHANGED <<vault, minted, permit, req, job, known, server>>

\* The operations that need the vault and no lease: metadata reads, RunEnv,
\* ResolveArgvSecret.  They may still fail in the vault.
HandleRead(c) ==
    /\ Handling(c, "Read")
    /\ \/ vault = "unlocked" /\ Reply(c, "ok")
       \/ Reply(c, "failed")
    /\ UNCHANGED <<runtime, permit, req, applied, job, known, server>>

\* The admin-gated operations on profiles, workspaces, secrets and HTTP rules,
\* which may still fail in the vault (what a failed one leaves is Vault's
\* question; here a request has its effect when its handler returns Ok).
HandleMutate(c) ==
    /\ Handling(c, "Mutate")
    /\ RequireAdmin
    /\ \/ AdminGranted /\ Carried(c)
       \/ Refused(c)
    /\ UNCHANGED <<vault, minted, permit, req, job, known, server>>

\* Mutant: any token does while the lease has a digest.
HandleReveal_AnyToken(c) ==
    /\ Handling(c, "Reveal")
    /\ RequireAdmin
    /\ \/ AdminGranted /\ digest # NoToken /\ Carried(c)
       \/ Refused(c)
    /\ UNCHANGED <<vault, minted, permit, req, job, known, server>>

\* RevealSecretValue: the token must match the digest kept on the lease.
HandleReveal(c) ==
    /\ Handling(c, "Reveal")
    /\ RequireAdmin
    /\ \/ AdminGranted /\ digest # NoToken /\ digest = req[c].token /\ Carried(c)
       \/ Refused(c)
    /\ UNCHANGED <<vault, minted, permit, req, job, known, server>>

-----------------------------------------------------------------------------
(* Requests that run outside the connection task's critical section.       *)

\* prepare_http_request decrypts the credential under the mutex; the request
\* itself is sent after the mutex is released.
PrepareHttpRequest(c) ==
    /\ Critical(c, "prepare")
    /\ \/ vault = "unlocked" /\ Goto(c, "network") /\ UNCHANGED ans
       \/ Reply(c, "failed")
    /\ UNCHANGED <<runtime, permit, req, applied, job, known, server>>

SendHttpRequest(c) ==
    /\ pc[c] = "network"
    /\ c \notin applied
    /\ applied' = applied \cup {c}
    /\ UNCHANGED <<runtime, mutex, permit, pc, req, ans, job, known, server>>

FinishHttpRequest(c) ==
    /\ pc[c] = "network"
    /\ \/ c \in applied /\ Reply(c, "ok")
       \/ Reply(c, "failed")
    /\ UNCHANGED <<runtime, mutex, permit, req, applied, job, known, server>>

\* What a finished blocking job tells the connection, if it still waits.
ReplyFromJob(c, a) ==
    IF pc[c] = "await" THEN Reply(c, a) ELSE UNCHANGED <<pc, ans>>

PortabilityTryLock(c) ==
    /\ job[c] = "queued"
    /\ IF mutex = Free
       THEN /\ mutex' = c
            /\ job' = [job EXCEPT ![c] = "run"]
            /\ UNCHANGED <<pc, ans>>
       ELSE /\ job' = [job EXCEPT ![c] = "none"]
            /\ ReplyFromJob(c, "busy")
            /\ UNCHANGED mutex
    /\ UNCHANGED <<runtime, permit, req, applied, known, server>>

\* Mutant: the lease is not looked at when the job runs.
PortabilityRun_Unchecked(c) ==
    /\ job[c] = "run"
    /\ mutex = c
    /\ mutex' = Free
    /\ job' = [job EXCEPT ![c] = "none"]
    /\ applied' = applied \cup {c}
    /\ ReplyFromJob(c, "ok")
    /\ UNCHANGED <<runtime, permit, req, known, server>>

\* handle_portability, which checks the lease when it runs.
PortabilityRun(c) ==
    /\ job[c] = "run"
    /\ mutex = c
    /\ mutex' = Free
    /\ job' = [job EXCEPT ![c] = "none"]
    /\ RequireAdmin
    /\ \/ AdminGranted /\ applied' = applied \cup {c} /\ ReplyFromJob(c, "ok")
       \/ ReplyFromJob(c, "failed") /\ UNCHANGED applied
    /\ UNCHANGED <<vault, minted, permit, req, known, server>>

-----------------------------------------------------------------------------
(* Deadlines, answers, the end of a connection.                            *)

\* Mutant: the permit belongs to the connection and goes with it.
Timeout_FreesPermit(c) ==
    /\ pc[c] \in {"read", "permit", "await", "network"}
    /\ Reply(c, IF req[c].op = "Portability" THEN "ambiguous" ELSE "deadline")
    /\ permit' = IF permit = c THEN Free ELSE permit
    /\ UNCHANGED <<runtime, mutex, req, applied, job, known, server>>

\* Mutant: the deadline also covers a request that was carried out.
Timeout_AfterEffect(c) ==
    /\ pc[c] \in {"read", "permit", "await", "network", "write"}
    /\ Reply(c, IF req[c].op = "Portability" THEN "ambiguous" ELSE "deadline")
    /\ UNCHANGED <<runtime, mutex, permit, req, applied, job, known, server>>

\* Mutant: reading the request has no deadline.
Timeout_NotReading(c) ==
    /\ pc[c] \in {"permit", "await", "network"}
    /\ Reply(c, IF req[c].op = "Portability" THEN "ambiguous" ELSE "deadline")
    /\ UNCHANGED <<runtime, mutex, permit, req, applied, job, known, server>>

\* timeout_at drops the future at one of its awaits; a blocking job it
\* waited for goes on without it.
Timeout(c) ==
    /\ pc[c] \in {"read", "permit", "await", "network"}
    /\ Reply(c, IF req[c].op = "Portability" THEN "ambiguous" ELSE "deadline")
    /\ UNCHANGED <<runtime, mutex, permit, req, applied, job, known, server>>

\* Mutant: a Stop whose answer could not be written does not notify the loop.
CloseConnection_NotifyIfWritten(c) ==
    /\ pc[c] = "write"
    /\ \/ /\ ans[c] = "ok" /\ req[c].op = "IssueRevealToken"
          /\ known' = known \cup {req[c].token}
       \/ UNCHANGED known
    /\ notified' \in {notified, notified \/ (ans[c] = "ok" /\ req[c].op = "Stop")}
    /\ Goto(c, "idle")
    /\ UNCHANGED <<runtime, mutex, permit, req, ans, applied, job, loop>>

\* The response is written, or the write fails or times out (known unchanged); an
\* accepted Stop notifies the accept loop in either case.
CloseConnection(c) ==
    /\ pc[c] = "write"
    /\ \/ /\ ans[c] = "ok" /\ req[c].op = "IssueRevealToken"
          /\ known' = known \cup {req[c].token}
       \/ UNCHANGED known
    /\ notified' = (notified \/ (ans[c] = "ok" /\ req[c].op = "Stop"))
    /\ Goto(c, "idle")
    /\ UNCHANGED <<runtime, mutex, permit, req, ans, applied, job, loop>>

\* The monotonic clock passes the lease's deadline.
LeaseFallsDue ==
    /\ lease = "timed"
    /\ lease' = "due"
    /\ UNCHANGED <<vault, digest, minted, live, mutex, permit, pc, req, ans, applied, job, known, server>>

-----------------------------------------------------------------------------
(* Shutdown.                                                               *)

LifetimeLockHeld == loop \notin {"exited", "failed"}

\* SIGTERM, SIGINT or SIGHUP.
Signal ==
    /\ LifetimeLockHeld
    /\ ~notified
    /\ notified' = TRUE
    /\ UNCHANGED <<runtime, mutex, permit, pc, req, ans, applied, job, known, loop>>

\* select! takes the shutdown branch; abort_all follows.
BeginShutdown ==
    /\ loop = "select"
    /\ notified
    /\ loop' = "drain"
    /\ UNCHANGED <<runtime, mutex, permit, pc, req, ans, applied, job, known, notified>>

\* accept() fails and `?` leaves run(): the tasks are dropped unjoined, the
\* vault is not locked, and the socket and the lifetime lock are let go.
AcceptFails ==
    /\ AcceptErrors = TRUE
    /\ loop = "select"
    /\ loop' = "failed"
    /\ UNCHANGED <<runtime, mutex, permit, pc, req, ans, applied, job, known, notified>>

\* An aborted task ends at its next await, so never inside its critical section.
AbortConnection(c) ==
    /\ loop \in {"drain", "failed"}
    /\ pc[c] # "idle"
    /\ pc[c] \in LockPc => mutex # c
    /\ Goto(c, "idle")
    /\ ans' = [ans EXCEPT ![c] = IF pc[c] = "write" THEN ans[c] ELSE "aborted"]
    /\ UNCHANGED <<runtime, mutex, permit, req, applied, job, known, server>>

\* Mutant: the loop leaves without locking the vault.
FinishShutdown_KeepsVault ==
    /\ loop = "drain"
    /\ \A c \in Conn : pc[c] = "idle"
    /\ loop' = "exited"
    /\ UNCHANGED <<runtime, mutex, permit, pc, req, ans, applied, job, known, notified>>

\* All tasks joined: the loop takes the mutex (waiting for a running job),
\* locks the vault, removes the socket and lets go of the lifetime lock.
FinishShutdown ==
    /\ loop = "drain"
    /\ \A c \in Conn : pc[c] = "idle"
    /\ mutex = Free
    /\ DropVault
    /\ loop' = "exited"
    /\ UNCHANGED <<minted, mutex, permit, pc, req, ans, applied, job, known, notified>>

\* Dropping the tokio runtime discards blocking jobs that never started.
DiscardJob(c) ==
    /\ ~LifetimeLockHeld
    /\ job[c] = "queued"
    /\ job' = [job EXCEPT ![c] = "none"]
    /\ UNCHANGED <<runtime, mutex, permit, pc, req, ans, applied, known, server>>

-----------------------------------------------------------------------------
ConnectionStep(c) ==
    \/ ReadRequest(c) \/ ReadMalformed(c)
    \/ TryLock(c) \/ TryLockBusy(c)
    \/ CheckAuthenticationRate(c) \/ CheckBeforeVerify(c) \/ AcquirePermit(c)
    \/ IssueAdminLease(c) \/ MintRevealToken(c)
    \/ HandleStatus(c) \/ HandleLock(c) \/ HandleStop(c)
    \/ HandleAdminStatus(c) \/ HandleAdminLock(c)
    \/ HandleRead(c) \/ HandleMutate(c) \/ HandleReveal(c)
    \/ PrepareHttpRequest(c) \/ SendHttpRequest(c) \/ FinishHttpRequest(c)
    \/ Timeout(c) \/ CloseConnection(c)

JobStep(c) ==
    \/ FinishVerify(c)
    \/ PortabilityTryLock(c) \/ PortabilityRun(c) \/ DiscardJob(c)

LoopStep ==
    \/ AcceptConnection \/ AcceptorLocks \/ DropConnection
    \/ \E c \in Conn : SpawnConnection(c)
    \/ BeginShutdown \/ FinishShutdown \/ AcceptFails

Next ==
    \/ \E c \in Conn : ConnectionStep(c) \/ JobStep(c) \/ AbortConnection(c)
    \/ LoopStep
    \/ LeaseFallsDue
    \/ Signal

Spec == Init /\ [][Next]_vars

\* What the daemon does on its own: finish what it started and obey timers.
\* Clients may never send, providers may never answer, so neither is fair.
Progress(c) ==
    \/ TryLock(c) \/ TryLockBusy(c)
    \/ CheckAuthenticationRate(c) \/ CheckBeforeVerify(c) \/ AcquirePermit(c)
    \/ IssueAdminLease(c) \/ MintRevealToken(c)
    \/ HandleStatus(c) \/ HandleLock(c) \/ HandleStop(c)
    \/ HandleAdminStatus(c) \/ HandleAdminLock(c)
    \/ HandleRead(c) \/ HandleMutate(c) \/ HandleReveal(c)
    \/ PrepareHttpRequest(c) \/ Timeout(c) \/ CloseConnection(c)

\* select! picks at random among ready branches, so a shutdown that stays
\* ready is taken however many clients connect: strong fairness.
Fairness ==
    /\ \A c \in Conn : /\ WF_vars(Progress(c))
                       /\ WF_vars(JobStep(c))
                       /\ WF_vars(AbortConnection(c))
    /\ WF_vars(AcceptorLocks)
    /\ WF_vars(DropConnection \/ \E c \in Conn : SpawnConnection(c))
    /\ SF_vars(BeginShutdown)
    /\ WF_vars(FinishShutdown)

FairSpec == Spec /\ Fairness

-----------------------------------------------------------------------------
(* Properties.                                                             *)

TypeOK ==
    /\ vault \in {"unlocked", "locked"}
    /\ lease \in Lease
    /\ digest \in Nat
    /\ minted \in Nat
    /\ mutex \in Conn \cup {Free, Acceptor}
    /\ permit \in Conn \cup {Free}
    /\ pc \in [Conn -> Pc]
    /\ req \in [Conn -> Request]
    /\ ans \in [Conn -> Answer]
    /\ applied \in SUBSET Conn
    /\ job \in [Conn -> Job]
    /\ known \in SUBSET Nat
    /\ live \in SUBSET Nat
    /\ loop \in LoopState
    /\ notified \in BOOLEAN

\* A locked daemon holds no admin lease, whatever password verifications were
\* under way when it was locked (issue_admin_lease looks at the vault again).
LeaseNeedsVault == vault = "locked" => lease = "none"

\* At most one password is verified at a time: a blocking verification owns
\* the permit until it returns, even when its connection timed out or was
\* aborted (the permit moves into the spawn_blocking closure).
OneVerification ==
    \A c \in Conn : job[c] = "verify" <=> permit = c

\* The reveal digest on the lease was minted under this lease: a token never
\* outlives the lease it was issued for, and a new lease starts without one.
TokenOfThisLease ==
    digest # NoToken => lease # "none" /\ digest \in live

\* What the answer says is what happened: "ok" means done, and after a refusal,
\* Busy or a deadline the request has not had, and will not have, an effect.
\* Exempt are the two requests that leave the mutex behind: a portability
\* request may take effect after its deadline answer (which says so), and a
\* brokered HTTP request may have been sent before it failed.
EffectOp == {"AdminUnlock", "IssueRevealToken", "Mutate", "Reveal", "Portability",
             "Lock", "Stop", "AdminLock"}
AnswerTruthful ==
    \A c \in Conn : req[c].op \in EffectOp =>
        /\ ans[c] = "ok" => c \in applied
        /\ ans[c] \in {"failed", "busy", "deadline"} => c \notin applied

\* Plaintext is revealed only with a token minted under the lease that is
\* active at that moment, by a daemon that is unlocked.
RevealNeedsCurrentProof ==
    [][\A c \in Conn :
          req[c].op = "Reveal" /\ c \in applied' \ applied =>
              AdminGranted /\ req[c].token \in live]_vars

\* Once the lifetime lock is let go, so that another daemon can open the
\* vault, no request of this one takes effect any more.
QuietAfterExit ==
    [][~LifetimeLockHeld => applied' \subseteq applied]_vars

\* Locking the daemon is final and ends every authorization at once: after it
\* nothing takes effect but Lock, Stop and a brokered HTTP request that was
\* prepared before, whatever was queued, verified or waiting at the time.
LockIsFinal ==
    [][vault = "locked" =>
          /\ vault' = "locked"
          /\ \A c \in applied' \ applied : req[c].op \in {"Lock", "Stop", "Http"}]_vars

\* A brokered HTTP request leaves the daemon only while the vault is unlocked.
NoHttpAfterLock ==
    [][\A c \in Conn : SendHttpRequest(c) => vault = "unlocked"]_vars

\* Every connection ends: each await of a connection task has a deadline.
ConnectionsEnd == \A c \in Conn : pc[c] # "idle" ~> pc[c] = "idle"

\* An accepted Stop ends the daemon, whether or not its answer could be
\* written and however many clients keep connecting.
StopEndsDaemon ==
    (\E c \in Conn : req[c].op = "Stop" /\ c \in applied) ~> ~LifetimeLockHeld

\* A verification gives the permit back whatever became of its connection.
PermitReturns == \A c \in Conn : permit = c ~> permit # c

-----------------------------------------------------------------------------
(* The inductive invariant behind the safety properties.                   *)

\* Before a task's request was carried out it has no answer and no effect,
\* and only a task that waits, answers or is gone has a blocking job.
BusyPc == Pc \ {"idle", "write", "await"}
TaskInv ==
    \A c \in Conn :
        /\ pc[c] \in BusyPc => job[c] = "none" /\ ans[c] = "none"
        /\ pc[c] \in (BusyPc \cup {"await"}) \ {"network"} => c \notin applied
        /\ pc[c] = "await" => ans[c] = "none" /\ req[c].op \in AuthOp \cup {"Portability"}
        /\ pc[c] \in {"rate", "check", "permit", "grant"} => req[c].op \in AuthOp
        /\ pc[c] \in {"prepare", "network"} => req[c].op = "Http"

\* A verification belongs to a request that needs a password; a portability
\* job belongs to an unapplied portability request whose answer promises nothing.
JobInv ==
    \A c \in Conn :
        /\ job[c] = "verify" => req[c].op \in AuthOp
        /\ job[c] \in {"queued", "run"} =>
              /\ req[c].op = "Portability"
              /\ c \notin applied
              /\ ans[c] \in {"none", "ambiguous", "aborted"}

\* A lease is asked for with its kind, and tokens are numbered in the order of
\* their mints, so that a new one never matches the digest it replaces.
MintInv ==
    /\ \A c \in Conn : req[c].op = "AdminUnlock" => req[c].ttl \in {"timed", "untimed"}
    /\ digest <= minted

\* The accept loop holds the mutex only while it admits a connection; after
\* an orderly exit the vault is locked and no task is left; it leaves in disorder
\* only when accept fails.
LoopInv ==
    /\ mutex = Acceptor => loop = "admit"
    /\ loop = "exited" => vault = "locked" /\ \A c \in Conn : pc[c] = "idle"
    /\ loop = "failed" => AcceptErrors = TRUE

IInv ==
    /\ TypeOK
    /\ LeaseNeedsVault
    /\ OneVerification
    /\ TokenOfThisLease
    /\ TaskInv
    /\ JobInv
    /\ MintInv
    /\ LoopInv
    /\ AnswerTruthful
=============================================================================
