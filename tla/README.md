# EnVault in TLA+

A verification project for EnVault: a local, single-user secret vault with a
daemon (`envaultd`), a command line and a terminal interface. The modules model
what the code in `src/crates` does; TLC checks them on small instances, TLAPS
proves the invariants and action properties of the state machines, and what the broker
and the env files compute, for all values of the constants. Each definition is mapped to
the lines it stands for in `PROJECT.json`.

## 1. The system

| Component | State | Operations | Interacts with |
|---|---|---|---|
| Daemon runtime (`envault/src/daemon.rs`) | `RuntimeState`: the open `VaultSession` or none, one admin lease with a deadline and a reveal-token digest, the rate windows; one mutex, one authentication permit, 64 connection permits | `handle` and its `handle_*`, `authenticate_admin`, `issue_reveal_token`, the accept loop, shutdown | every client over the Unix socket; the vault session; blocking threads |
| Rate windows (`daemon.rs`) | a global window and at most 256 per login session | `check_connection_rate`, `check_authentication_rate` | accept loop, password operations |
| Vault session (`envault-service/src/lib.rs`, `scope_policy.rs`, `broker.rs`) | the runtime loaded set, the vault key | profiles, workspaces, secrets and versions, HTTP rules, reads, `run` resolution | the store, inside the daemon's critical section |
| Store (`envault-store`) | SQLite tables with unique and foreign keys | one transaction per call, an import batch, migrations | only the session |
| Portability (`envault-service/src/portability.rs`) | none between calls: the plan hash is with the client | export, preview, commit of packages, `.env` and config files | the session, in a blocking thread of the daemon |
| Lifecycle (`envault/src/client.rs`, `main.rs`, `daemon.rs`) | start lock, lifetime lock, socket path, child processes | `envault start`, boot, stop, crash | several commands and daemons through the runtime directory |
| HTTP broker (`envault-broker`) | none | check a rule and a request, resolve, read and search a response | the network |
| Project load state (`envault/src/project.rs`, `main.rs`) | one JSON file for all directories | `load`, `unload` | the daemon's loaded set, one request at a time |
| Init, uninstall, convenience unlock (`main.rs`, `internal.rs`, `convenience_unlock.rs`) | vault file, temporary files, marker, password store | publish, enable, disable, remove | the file system, the daemon |
| Terminal interface (`envault/src/tui/app.rs`) | screens, modes, fetched lists, a captured target, a preview | key presses, requests | the daemon, which others change meanwhile |
| Crypto, platform, protocol, Windows FFI | none that changes | pure functions, file checks, framing | everybody |

Hard behaviours: the mutex is taken with `try_lock` several times within one
request and released around awaits; password verification and package imports
run in blocking threads that outlive their connection; deadlines drop futures at
any await; shutdown aborts tasks; several `start` commands and daemons race over
two lock files and a socket path; a request made of several store transactions
can fail in the middle; an import is two requests with anything between them;
commands of many requests and file operations are killed anywhere; a screen shows
what was true some time ago. What can go wrong, line by line, is the list
`hazards` of `PROJECT.json`.

What makes each component correct:

- daemon: no authority survives a lock, a deadline or its lease; an answer agrees
  with what was done; the daemon ends when told to, and is quiet once another can start;
- rate windows: bounded state, budgets that eviction does not refill, refusals with a cause;
- vault: the integrity check's conditions after every sequence of operations,
  base as the permanent underlay, failures that leave the vault alone, versions kept;
- portability: a commit does what its preview showed, or nothing, and once; a package
  that passes validation can be applied; what is exported comes back;
- lifecycle: one process has the vault open, the socket leads to it, starts end,
  agree, and leave nothing behind;
- projects: a directory gives back only what it took;
- installation: a vault is never replaced, is removed only with its own password, and
  leaves no trace;
- terminal interface: a request acts on what was shown when it was confirmed;
- broker: a rule bounds path, address, size and content.

## 2. Modules

| Module | What it models |
|---|---|
| `Daemon` | the mutex, the permit, connections, blocking jobs, lease and tokens, shutdown |
| `Authority`, `DaemonAuthority` | what the daemon promises about authority, and the refinement mapping |
| `RateLimit` | the rate windows |
| `Vault` | the vault session over the store's tables, with the daemon's wrappers |
| `Import` | exports, previews and commits over `Vault`, which it extends |
| `Package` | a package's payload: validation, remapping, the batch, the vault's check; scopes of any depth |
| `EnvFile`, `Broker` | the env syntax; the broker's checks |
| `Algorithms` | the inputs of `Package`, `EnvFile` and `Broker`, and what is said of them |
| `Lifecycle` | start commands, daemon processes, locks and the socket path |
| `Projects`, `Host`, `Screens` | load and unload; the installation; the terminal interface |
| `Daemon_proofs` | theorems of `Daemon`, and that it implements `Authority` |
| `Vault_proofs`, `Lifecycle_proofs` | theorems of each |
| `Clients_proofs` | theorems of `Projects`, `Host` and `Screens` |
| `FoldFacts` | the fold of a sequence, step by step, for any operator |
| `Broker_proofs` | what the broker refuses: addresses, paths, responses |
| `Algorithms_proofs` | env files come back; exports are valid packages; the rate windows |
| `Import_proofs` | theorems of `Import`, from the lemmas of `Vault_proofs` |
| `MCDaemon`, `MCVault`, `MCImport`, `MCAlgorithms`, `MCLifecycle`, `MCClients` | values, symmetry sets and bounds for TLC |

Mutants (`Action_Mutation`, marked "Mutant:") stand before the definition they change.
They are not part of any specification; each one is a plausible bug that makes the
property named with it in `PROJECT.json` fail.

### Daemon

A connection slot `c` has a program counter `pc[c]`. Between two awaits of
`process_decoded_request` a task runs alone, except that the mutex is a real one:
`TryLock` takes it, or `TryLockBusy` ends the request, and the critical section is
the next step.

| `pc` | Code |
|---|---|
| `read` | `read_async_frame` under its deadline |
| `rate` | `check_authentication_rate` for the two password operations |
| `check` | the first critical section of `authenticate_admin`, `issue_reveal_token` |
| `permit`, `await` | `acquire_owned().await`, then the blocking job |
| `grant` | `issue_admin_lease`, `mint_reveal_token` |
| `handle` | `RuntimeState::handle` |
| `prepare`, `network` | the `HttpRequest` arm: decrypt under the mutex, send without it |
| `write` | the answer, then `notify_one` for an accepted Stop |

`job[c]` is the blocking closure the connection started: it keeps running when
`Timeout` or `AbortConnection` takes the connection away, and it owns the permit
(`verify`) or the mutex (`run`). `Op` chooses which operations clients send; the
operations on the vault's rows are two classes here, `Read` and `Mutate`, because
the daemon treats them alike: they need an unlocked vault, a `Mutate` also the lease.
A request has its effect (`applied`) when its handler returns Ok; what a failed
handler leaves in the vault is `Vault`'s question. `live` and `known` are history:
the tokens minted under the present lease, and those that reached a client. Rate
checks pass or fail freely. All peers have the owner's uid, since the others are
dropped before they touch anything, and a lease is per uid.

### Authority

A vault that is open until it is closed for good, a grant, a second proof under it, and
one effect per request. `DaemonAuthority` maps the daemon to it: a lease counts as a
grant while it is unexpired, a digest as a proof while its lease does. The permit, the
mutex, the blocking threads, the deadlines and the connections are gone; `KeepsAuthority`
says that every step of `Daemon` is one of `Authority` or none of its business. In
particular a verification that ends after a Lock grants nothing, a mint that ends under
another lease proves nothing, and an import in a blocking thread changes nothing once the
grant it was asked under has ended.

### RateLimit

Ages instead of a clock: `TimePasses` makes every window one tick older, a window of
age `Minute` is stale. `Check` is either check with its order kept: the global window
is charged before the session's window is looked for, and a session without a window
first drops the stale ones. `recent[k][x][n]` is a history, which the code does not keep:
how often `x` was counted in the last `n` ticks, so that a bound on every minute, wherever
it starts, can be stated.

### Vault

One action per operation, each a whole call including the parts that fail: `result`
keeps the outcome and a failing disjunct writes what the code wrote before it failed.
Rows are functions over ids drawn once (UUID v4); names are the lookup digests, unique
by the store's constraints. A value is the number of its version. `loaded` is the
runtime set, which keeps ids of deleted profiles as the code does. `Lock` is the end of
the session in any way, a crash included, since SQLite keeps what was committed. A crash
between the two transactions of `CreateProfile` with a workspace leaves the profile
unbound: the same state as a `CreateProfile` without one, followed by `Lock`.
`TombstoneSecret` is part of the service's API, which only imports and library users call.

### Import, Package and EnvFile

`Import` puts one file and one client's plan next to `Vault`'s state. `ExportPackage`,
`ExportPlaintextEnv` and `ExportConfig` write the file; `ReceiveFile` and `RemoveFile`
exchange it; `Preview(a)` builds the plan of request `a` (kind, strategy, renaming,
target) and shows it; `CommitImport(a)` builds it again and is refused unless it hashes
the same. The hash is modelled by what it depends on: `Known` are the tables it reads,
and a row that is written again never hashes as before because its nonces are new
(`Written`), while rows that came and went leave no trace. `plan.used` remembers a plan
that was committed. `Remap` is `mapped_uuid`: a function of the package, the name of the
destination and the source id, so importing twice gives the same ids. The commit is one
transaction: `Rejected(a)` is what its constraints refuse, a rule that still refers to a
deleted secret included, and then nothing happens. A received package is one that a vault
exported: `Packaged` is what `validate_payload` demands of it, and that its base profile
starts with the vault, as it does in every vault.

`Package` has the payload's tables themselves: `ValidPayload` in the order of
`validate_payload`, `Imported` for remapping and the batch, `Applies` for the store's
constraints, `MetadataHolds` for `validate_encrypted_metadata`, and scopes of any depth
with the code's two ways of counting it. `EnvFile` has the writer and the parser of env
files over tokens. `Broker` has the rule's and the request's validation, the address
blocks as the code masks them, and the search of a response for the credential, whose
encodings are tokens around it.

### Lifecycle

A `start` command is a program counter over `start_daemon` and `client::start`; `After`
is the table of what each question's answer leads to. A request takes two steps,
`Connect` (with `authenticate_server`) and an answer, so the daemon can change or end
in between. A daemon's phases follow `Server::prepare`, `run_from_stdio`, `run` and the
drop order of `Server`: lifetime lock, vault, stale socket, bind, chmod, readiness,
serving, closing, unlink, exit. `External` chooses what others do: lock, stop, signal,
crash, a direct launch of `envaultd`, a killed command. `disturbed` remembers that
anything but orderly, timely steps happened, for the properties that speak about
undisturbed runs.

### Projects, Host and Screens

`Projects`: a command reads the manifest and the state file, sends `ShowProfile`,
`LoadProfile` or `UnloadProfile` for one name after the other, `ShowWorkspace` and
`LoadWorkspace` for the workspace, whose members the daemon looks up for each of the two,
and writes the file in three steps (`Truncate`, `Fill`, `Rename` of one temporary
file that all commands share). Any request may fail and `Abort` ends a command anywhere.
`HandLoad`, `HandUnload`, `Relock`, `Bind` and `Unbind` are the daemon's other clients.
`claimed`, `joined` and `byHand` are history: what loads of a directory found not loaded and
loaded, what was bound to the workspace between the two requests of such a load, and what
users loaded themselves. A manifest lists one workspace at most; two would be asked for one
after the other like profiles.

`Host`: invocations of `init`, `start`, `uninstall` and `convenience-unlock enable` and
`disable`, each a sequence of the file, password-store and daemon steps the code makes;
`Fail` ends one anywhere, which is also a kill. `init` builds a temporary file and
publishes it with a link that never replaces; `uninstall` looks for a vault once, proves
its password through the daemon, makes the backup, stops the daemon and removes three
things. A vault is named after the `init` that made it, its password likewise.

`Screens`: a key press with its requests is one step, as the interface handles one event at a
time. `list` is what was fetched last, `mode` the prompt with what it captured, `preview`
the plan on display. Any request may fail, and a change answered with an error may have
been made. `OthersChange` and `LeaseChanges` are other clients. `struck` is history: the
entry that was highlighted when a key was pressed, and the one the request was for.

## 3. Runs

`IInv`, `VaultInv`, `ImportInv`, `RateInv`, `StartInv`, `ProjectsInv`, `HostInv` and
`ScreensInv` are the inductive invariants of section 4: each run checks the very formula
that is proved, and the safety properties are its conjuncts or follow from it.

All runs use TLC's full search; deadlock checking is off where the system may stop
(no client calls, the daemon has ended, ids are used up, commands are done).

| Run | Instance | Shows |
|---|---|---|
| `Authority` | 2 connections, 6 operations, timed leases, 2 mints, failing accept | leases, tokens and imports against Lock, deadlines, shutdown and each other; the refinement |
| `Shutdown` | 2 connections, 8 operations, fair | connections end, the permit returns, Stop ends the daemon, quiet afterwards |
| `Session` | 3 profiles, 2 secrets, 2 versions, 1 workspace | names, memberships, loaded set, versions, rules, restarts, partial failures |
| `Import` | 2 profiles and 2 secrets of this vault, a package exported, one received | previews against commits, edits and exchanged files in between |
| `Algorithms` | inputs below; 3 sessions, 2 kept windows, minutes of 2 ticks | the broker's checks, the env syntax, payloads; budgets and eviction |
| `Safety` | 2 commands, 3 processes, every external event | one vault holder, one live socket, no orphans |
| `Starts` | the same, fair, without direct launches and killed commands | starts end, converge and stop no unlocked daemon |
| `Clients` | 2 loads or unloads of 2 directories, 2 acts of users; 3 invocations; a screen with 2 rows | what directories track and unload, the state file; installation; terminal interface |
| `Http`, `Exports`, `Depth`, `Selected` | instances above | expected violations, section 6 |

### Bounds

Two connections are enough for every race of the daemon: it has
one mutex and one permit, and each hazard is between a request and one other. Slots are
used again without limit, so any number of requests follow each other. Two mints
(`MaxMints`) let an old token meet a new lease. `Op` is what the properties of a run tell
apart: `Authority` has the operations that give, take and use authority, `Shutdown` the
ones that wait, answer and write.

Three profile ids let one be deleted while another takes its name; two secrets, a clash;
two versions (`MaxVersion`), a successor. The constraint `Apart` of `MCVault` separates
what does not meet: behaviours in which there was a secret have no workspace, no
description and only base starting with the vault, and descriptions and workspaces are
not combined. Each half is complete, and resolution across profiles is in the half with
secrets.

`MCImport`: this vault draws two ids of each kind, another vault drew its own, and
`MaxPackages` is 1 because a second package only adds ids that meet nothing. `Explored`
stops where base is renamed, a profile other than base starts with the vault, more than
three profiles, secrets and workspaces came into being, or more than one row came or went
while a plan is held. One change under a plan is what tells whether the hash catches it;
a second one could only undo the first, which the model allows by rows that come and go.
The run `Exports` has no such constraint.

`MCAlgorithms` evaluates every input of its sets: paths of up to five tokens against seven
prefixes; both ends of every address block and the addresses next to them, alone and in
pairs; responses under up to four encodings out of eight; env values of up to four tokens
out of eleven, and up to three entries, with limits so small that each of the four is
passed by some file; payloads with up to three scopes of all four kinds,
two profiles and two secrets, applied to a vault with a nested scope. `MaxScopeDepth` is 3
for the code's 64, so that three scopes reach and pass it. The rate windows move only in
behaviours that judge no input, and the other way round, since the two share nothing.
Three sessions for two windows make room necessary; the limits are 1 of 2 and 2 of 3.

Three processes are the one before, the one being started and one launched meanwhile.
`MaxProbes` is 1 instead of 10: one retry already gives both outcomes.

`MCClients` runs three programs that share nothing that is modelled, so only one of them
leaves its initial state in a behaviour (`program`). Two commands (`MaxRuns`) make every
race on the state file, and two acts of users (`MaxHands`) are a profile loaded and then
bound to the workspace. Of the two profiles one starts with the vault; the manifests
list the other one, both with the workspace, or the workspace alone. Three invocations
are an uninstall, an init and a start or enable. The screen has two previews
(`MaxPreviews`) and one change by others (`MaxOthers`; two in `Selected`).
`ScreensApart` explores the portability screen while the lists are empty, and profiles
while there is no secret; `Refreshed` stops after a refresh that failed, about which
only `RevealsWhatIsListed` says something, and it excuses that. The `VIEW` leaves out
the history that `ActsOnSelected` alone reads; `Selected` has no view.

Connections, sessions, commands, processes other than the first, invocations, directories,
ids other than base and names are symmetric: no property tells them apart, and the fair runs use no
symmetry.

### Fairness

`Daemon!Fairness`: a runnable task, a blocking job and the accept loop are
eventually scheduled by tokio and the system, a deadline fires (`Timeout` is part of the
fair `Progress`); `select!` picks at random among ready branches, hence strong fairness
for a shutdown that stays ready. Clients owe nothing: sending a request, and the
provider's answer to an HTTP request, are not fair. `Lifecycle!Fairness`: the command
itself is scheduled, response deadlines and deadlines of waiting loops pass, the latter
looked at in every round, hence strong. No daemon owes a start anything. The other
modules state safety only: their commands end when their requests do, and users owe
nothing.

## 4. Proofs

Proved with TLAPS for every value of the constants: any number of connections, profiles,
secrets, versions, commands, processes and rows, any operations and any requests. The
assumptions are those the modules name. `DaemonAssumption`, `LifecycleAssumption`,
`RateAssumption`, `ProjectsAssumption`, `HostAssumption`, `ScreensAssumption` and
`VaultAssumption` say that sentinels differ from values, that base is there, that bounds
are numbers and that sessions are finite. `ImportAssumption` types the requests;
`PackageAssumption` says that remapped ids are ids and that received packages are
`Packaged`; `AddressAssumption` says that addresses are made of octets or 16-bit segments,
`PathAssumption` and `ResponseAssumption` that paths are of characters and that chunks
and limits count bytes. `EntriesAssumption` is what `export_plaintext_env` and the vault
make sure of before a file is written: at least one entry, valid names, each once.
`EnvAssumption` says that two limits are numbers.
`GrowthAssumption` says that the parent of the root is no scope, that an id which is drawn
is neither that nor base's, and that `MAX_SCOPE_DEPTH` is at least 2. Every theorem is
about the specification the runs check.

### Daemon

`IInv` adds to the safety properties what a task has done by the place where it is
(`TaskInv`: no answer and no effect before its critical section), which blocking jobs
belong to which requests and what their connection may have been told (`JobInv`), when the
accept loop holds the mutex and leaves (`LoopInv`), and what a mint under way was asked
under (`MintInv`). `AnswerTruthful` is not inductive alone: a timed-out import has answered
while its job can still apply it, and only `JobInv` says that this answer promised nothing.

From `IInv` follow `LeaseSafety`, `VerificationSafety`, `TokenSafety`, `AnswerSafety` and,
as action properties, `RevealSafety`, `LockFinality` and `QuietAfterOrderlyExit`, the last
under the assumption that `accept` does not fail. `ImplementsAuthority` is the refinement:
`InitMaps` for the initial states, then one lemma for each kind of step (a lease issued, a
token minted, a vault closed, an effect, a request sent on, an end) that shows which step of
`Authority` it is, or that the abstract state does not see it (`QuietStepMaps`).

### Vault

`VaultInv` is the integrity conditions, base as underlay, and that ids are drawn once
(`DrawnOnce`), without which a new profile could be loaded already. From it
`IntegritySafety`, `BaseSafety`, `CreationSafety`.

The action properties need no more than that and one idea each. `FailureSafety`: every
failing disjunct leaves all but the two things the property names. `HistorySafety`: an
operation touches one secret (`OneSecretStep`), and that one by appending, by deleting or by
a tombstone. `ViewsApart`: that secret has one owner (`Local`), and a view is made of the rows of
its profile and of base, so that where base's view stays only one other can change.
The first attempt at `ViewsApart` failed, because a view was then a set of secrets without
their names: with three secrets, renaming the one in base hides it from two profiles at once
that have a secret of the new name, while base's view, so defined, stays. A view has names
now.

### Import

`ImportInv` adds to `VaultInv` that every secret has a name, that the file is one that can
be read, what a plan on display looks like (`PlanFits`), and that a plan which was committed
either fits no longer or has nothing left to do (`NothingLeft`). `NamedSecrets` was found
missing when a package export was to be shown readable.

The commits come down to two shapes. An env or config import is an `Addition`: free keys get
new ids, present ones a version. A package import is a replacement (`Brings`): secrets go and
those of the package stand in their place under ids that are new, or were theirs before. What
either does to the tables is proved once, then `ImportInvariance`. `CommitAsShown`
(`PreviewBinds`) needs that an equal hash means an equal preview, `CommitOnce`
(`NoBlindRepeat`) needs `NothingLeft`. `Restoration` (`Restores`) needs that the base id of
the package is not the id of another profile in it, which `Packaged` derives from random ids
being drawn once: then the renaming of base to the base that is here is injective.
`RulesSafety` follows secret by secret.

### Lifecycle

`LifecycleInv` adds to its properties the phases in which the lifetime lock is held and what
a command knows of its child. The heart is that the lock is taken before the stale socket is
removed and let go after the guard unlinked its own, so that nobody else can touch the path
in between (`SocketSafety`), and the vault is only open inside (`VaultExclusion`);
`FailedStartLeavesNothing` is about the child.

`StartInv` adds what the start lock gives: which phases go with which answers, that a
command past the queue holds it, that each daemon that starts has a command that waits for
it (`TakesTurns`, as long as no daemon is launched directly and no command killed), and that
an undisturbed daemon which was reported stays unlocked (`StaysUnlocked`). `StopSafety` has
the hypothesis of `TakesTurns` and holds through crashes, signals, locks and timeouts;
`Convergence` has none, since `StartsConverge` itself is about undisturbed behaviours.

### Rate windows

`BoundedState` is by finite cardinalities: a window is added only after room was made.
`Covers` relates a counter to the history: what was counted since the window began is at
most the counter, what was counted in a longer span at most one limit more, and a stale
window has seen nothing in this tick. At the span of a minute that is `TwiceTheLimit`; that
making room drops stale windows only is what keeps the second clause when a session comes
back. `RefusalsJustified` reads the same relation from the other side: a full counter of a
window that counts was filled in the minute before.

### Projects, Host and Screens

- `OnlyClaimed`: `ProjectsInv`. `TracksOnlyClaimed` is about the state file, but a command
  carries names between reading and writing it, so the same is said of what each holds
  (`HoldsClaimed`), and that what it is about to load was listed to it or has joined the
  workspace since. What holds for commands run one at a time rests on the file they read
  being the one that is there (`OneAtATime`) and on a user's loads being seen before they are
  asked for, but for those that join in between (`HandsApart`).
- `MachineSafety`: `HostInv`. An uninstall that runs alone is followed through its steps
  (`StoppedAndForgotten`, `ServesItsVault`), any other by what it has proved or who made the
  vault meanwhile (`ProvedOrMadeMeanwhile`). `OneVaultPublished` and `NoTraceLeft` are action
  properties, the second from `HostInv`.
- `WhatIsShown`: `ScreensInv`. A prompt is answered later than it was opened, so the
  invariant says what of the screen cannot have changed in between (`Captured`); that a plan
  is sent once rests on the number of the preview on display being larger than all sent
  (`SentBefore`).

### The broker

`PublicOnly` (`OnlyPublicAddresses`) is about all addresses, where the run looks at the
borders of blocks. A block is a first address and a length of prefix, the code compares
octets or masks segments; a lemma for each kind of block says which parts lie in it
(`OneOctet`, `PrivateBlock`, `SecondSegment`, ...), and `PublicIpv4` and `PublicIpv6` put
them together. That multicast needs no mask of its own in the model is part of it:
`FirstSegment` shows ff00::/8 to lie outside 2000::/3.

The rest of the broker, and the env files, compute by loops over sequences of any length,
which the model writes as folds. The provers have no induction over data, so it is done with
numbers: a set of numbers has a least one (`NatMin`, from well-foundedness), hence
`Induction` over a set of indices. `FoldFacts` takes the operator as a constant and shows
that the values of a fold on the beginnings of its sequence are a run, each made from the one
before by the operator (`FoldRuns`), what one element more does (`FoldAppend`) and how the
fold of a concatenation goes on from the fold of its first part (`FoldJoin`). Each loop
instantiates it (`Splitting`, `Walking`, `Reading`, `Escaping`, ...) and says what holds along
its run.

`BelowPrefix` (`PathStaysBelowPrefix`, by `PathsStayBelow`) is that no path the broker lets
through leaves the rule's prefix, for a provider that walks dot segments and for one that
decodes first. A path without hidden separators has the same segments whether it is split
or decoded first (`SplitDecoded`), a segment that is not dangerous is no dot segment in
either form (`NotDangerous`), a walk over such segments only grows (`WalkGrows`), and a
path that continues a prefix has the prefix's segments first (`ContinuedPath`).

`NothingPasses` (`NothingEchoed`) is the equivalence: a response is passed on exactly when
it is within the limit and hides no credential. `ReadEnds` follows the sum of the chunks to
the first that passes the limit; `Rounds` and `CandidatesAre` say which texts are
reached after each round of decoding, and `FindsHidden` that these are the ones under at most
two encodings that are peeled in that order. The searched text does not depend on how the
body was cut (`Joined`).

### Env files

`EnvReadsBack` (`EnvRoundTrip`, by `WrittenReads`): of what `export_plaintext_env` writes,
an import reads the same entries if none of its limits is passed (`EnvFits`), whatever the
values hold, and refuses the file if one is. The parser's run over the lines is followed by
what it has read of the first entries, or that it has failed (`ReadUpto`). Escaping and unquoting are
one run seen from two sides, character by character (`QuotedReads`); a written line has no
line break in it, so that the file breaks where the entries end (`LineBroken`, `FileBroken`);
trimming takes nothing from a quoted line (`TrimStays`), and its first `=` is the one
that was written (`LineParsed`).

That the entries of an input satisfy the assumption is the first half of `Formed`, an
invariant of the specification.

### Exports

`ExportsPass` (`ExportsAreAccepted`): an export of a profile, of any vault that grew
from its root by nested scopes and profiles in any order, passes `validate_payload` of
the import, and so does that of a whole vault in which one profile starts. Its inductive
form is `VaultForm`, the second half of `Formed`: the scopes are a finite tree of typed rows
whose paths are their own, a profile other than base sits at the scope that has its id, and
the check of the metadata holds.

Validation and the check climb from a scope to its root with a bound. That climb is one
recursive function (`Climb`), shown to be a way up of single steps (`ClimbAscends`), of
which there is only one (`WaysAgree`), so that it tells at which height a scope ends
(`DepthIs`); a larger bound tells the same (`EndsLater`). `select_export_scopes` collects
the scopes below a profile's in rounds until nothing is added; by induction over the rounds,
whatever they have collected hangs on the profile's scope without gaps (`SubtreeHangs`).
Rows that hang so on a root climb in the export as they do in the vault, or end at that
root earlier (`ExportEnds`); with the paths, which are unique and nest in the vault, this is
all that validation asks of scopes (`ExportedScopesValid`). Growth keeps the form because
a new row ends one step above its parent and changes no other's way up (`TreeGrows`).
`CanCreateScope` gives the bound and a path that no other scope has; for a profile's scope
its random id does (`FreshIds`).

### Only model-checked

- Liveness: `ConnectionsEnd`, `StopEndsDaemon`, `PermitReturns`, `StartEnds`. It needs
  ENABLED and the fairness of actions, which the installed provers do not reach.
- `AcceptedPayloadApplies`, about payloads whose scopes are remapped, inserted in the order
  of a sorting by depth and checked in the vault that results. `Algorithms` evaluates it over
  bounded payloads. A proof would need what a destination vault satisfies, ids that are
  disjoint for each plan, and what a sorting of a set by depth returns.
- The expected violations, which are counterexamples.


## 5. Conditions worth knowing

Each is what a property has to except, or what modelling the code brought up next to it.

- `QuietAfterExit` needs an accept loop that does not fail. When `accept` returns an error
  (out of descriptors, `daemon.rs:573`), `run` is left with `?`: the tasks are dropped
  unjoined and the vault is not locked first, so a running import can commit after the
  lifetime lock is free.
- `StopsOnlyLocked` needs daemons that are launched by start commands which are not killed:
  with direct launches, the Stop of a `start` can reach a daemon that was launched and
  unlocked after the Status.
- `StartsConverge` is about starts that succeed: one that looks at a daemon between its
  bind and its chmod fails (`main.rs:1005`) instead of waiting.
- `AnswerTruthful` exempts brokered HTTP: a request can have been sent and be answered with
  a deadline.
- `FailureKeepsVault` names the two operations that keep something when they fail. Their
  client learns little: `map_service_failure` (`daemon.rs:1610`, `1758`) turns every refusal
  of the store into `vault_corrupt`.
- `ProfilesApart` exempts base. A secret in base that two profiles inherit makes them
  impossible to merge in one `run` (`envault-service/src/lib.rs:643`).
- `Status.loaded_profiles` lists the profiles that start with the vault
  (`daemon.rs:143`), not `loaded`.
- `ImportInv` says that no import breaks the vault, not that one always succeeds: a profile
  that is replaced while one of its secrets has an HTTP rule is refused by the rule's
  foreign key. A package imported again brings back ids that were deleted, and with them
  a place in the loaded set they still had. An export of config lists what a profile
  inherits, so importing it gives the profile secrets of its own.
- `ImportInv` takes received packages as exports of a vault. `validate_payload` asks a
  workspace package for exactly one profile at its root scope
  (`portability.rs:2975`) and for exactly one profile that starts with the vault
  (`portability.rs:2683`), not that the two are one; a package that no vault exported could
  leave a vault whose base does not start with it.
- `TracksOnlyClaimed` and `HandLoadedStay` except what is bound to the workspace between the
  two requests of a load. The doc of that code says that profiles which a user loaded "some
  other way are left alone" (`main.rs:1765`), but `ShowWorkspace` and `LoadWorkspace`
  (`main.rs:1811`, `1821`) each look the members up: a profile that is loaded by hand and
  bound in between is missing from the first answer and part of the second, so the directory
  tracks it and a later `load` or `unload` unloads it, with one command running.
- `HandLoadedStay` is also about commands that run one at a time. `TornOnlyByOverlap`
  says when the state file can be torn: two loads at once can lose an update or tear the
  file, after which every load and unload fails. A state file that outlives a lock makes
  the next `load` unload what a user has loaded since, if the directory had it before
  (`main.rs:1788`); `byHand` does not count what some directory tracks or is about to
  load. The base profile is not in these lists. Were base bound to the workspace between
  the two requests of a load, it would be tracked, and each later load that drops it
  would fail, because it cannot be unloaded.
- `RemovesWhatItProved` excuses an uninstall that saw no vault and asked for no password, and
  removes one that an init made during its prompt (`main.rs:1046`).
- On the secrets screen `u` does nothing while a reveal token is held, though the lease it
  came from has ended (`app.rs:1016`).
- `EnvRoundTrip` is about at least one entry: the export of a profile without secrets is
  an empty file, which `parse_env` refuses (`portability.rs:3310`). It also says which files
  are refused: a value may have 512 KiB, an exported line and file any length, but an import
  takes lines of 64 KiB (`portability.rs:3283`) and files of 1 MiB, so that a profile with one
  long value exports to a file of which nothing can be imported. An export that meets a NUL
  or text that is not UTF-8 in a value writes no file.

## 6. Findings

Four runs expect a violation; each states what a document or a message says and
shows a behaviour of the code against it.

- `Http`: a brokered request prepared before a Lock is sent after it.
- `Exports`: a vault in which a second profile starts with it can no longer be exported as a
  whole.
- `Depth`: a package whose scopes are one level too deep, or of a retired kind, passes
  validation and is committed; the check that runs after the commit fails, and so does every
  unlock.
- `Selected`: the terminal interface lists the secrets of every profile and sends every
  request about one to base.

The quotations are in `PROJECT.json`.

## 7. Not modelled, and the plan

Not modelled because there is no state or no control to check: cryptography (AEAD, Argon2,
HMAC are taken as perfect; a value is a version's number), framing and CBOR, file permission
checks, printing and drawing, FFI wrappers, release tooling. Windows is left out
because its pipe server mirrors the Unix loop. DNS, TLS and the HTTP exchange are I/O. Schema
migrations and the copy that `backup` makes are one transaction or one call of SQLite.
Limits on sizes and counts of a package are comparisons with constants. Resolution over
trees deeper than two levels is left out because no operation of the daemon builds one;
`Package` grows and checks them.

What is left:

1. The proof of `AcceptedPayloadApplies`, from an inductive invariant of what a vault holds
   and a lemma on the order of insertion.
2. `ImportInv` for packages that no vault exported, with `BaseUnderlay` replaced by the
   weaker condition that then holds.
3. The refinement of a vault with one transaction per call by `Vault`'s operations of
   several, as an abstract specification of its own.
