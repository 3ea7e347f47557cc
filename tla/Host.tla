-------------------------------- MODULE Host --------------------------------
(***************************************************************************)
(* What EnVault keeps on a machine, and the commands that create and       *)
(* remove it (main.rs, convenience_unlock.rs, envault-service): the vault  *)
(* file and the temporary files of `init` in the data directory, the       *)
(* marker and the stored password of convenience unlock, the runtime       *)
(* directory and the daemon that is reached through it.                    *)
(*                                                                         *)
(* Commands interleave between any two of their steps, any step may fail   *)
(* and a command may be killed anywhere.  A vault is named after the `init` *)
(* that builds it and its password is its own.  Waiting for a daemon that  *)
(* ends, and what else start does, is in Lifecycle.                        *)
(***************************************************************************)
EXTENDS FiniteSets

CONSTANTS
    Job,   \* invocations of the command line, each one runs once
    First, \* a vault that may be there from the start
    Nil    \* nothing

ASSUME HostAssumption == First \notin Job /\ Nil \notin Job \cup {First}

VARIABLES
    vault,      \* the vault at vault.db
    temps,      \* temporary files of init
    marker,     \* "yes" if convenience-unlock.enabled exists
    credential, \* the password in the operating system's store
    daemon,     \* the daemon of the runtime directory: its vault and state
    orphans,    \* daemons whose runtime directory was removed
    job,        \* the invocations
    beside,     \* history: the jobs that ran at some time while each one did
    removed,    \* history: which uninstall removed which vault
    ghosted     \* history: "yes" once a daemon served a vault that is not at the path

hostVars == <<vault, temps, marker, credential, daemon, orphans, job, beside, removed, ghosted>>

-----------------------------------------------------------------------------
NoJob == [pc |-> "new"]
Over == {"new", "done", "failed"}
Active == {j \in Job : job[j].pc \notin Over}

NoDaemon == [vault |-> Nil, state |-> "none", lease |-> "no"]
Serving == daemon.state = "serving"
Ghost == Serving /\ daemon.vault # vault

HostInit ==
    /\ vault \in {Nil, First}
    /\ temps = {}
    /\ marker = "no"
    /\ credential = Nil
    /\ daemon = NoDaemon
    /\ orphans = {}
    /\ job = [j \in Job |-> NoJob]
    /\ beside = [j \in Job |-> {}]
    /\ removed = {}
    /\ ghosted = "no"

\* A job begins; it and the jobs under way see one another.
Enter(j, record) ==
    /\ job[j].pc = "new"
    /\ job' = [job EXCEPT ![j] = record]
    /\ beside' = [i \in Job |-> IF i = j THEN Active
                                ELSE IF i \in Active THEN beside[i] \cup {j} ELSE beside[i]]
    /\ UNCHANGED removed

Step(j, at, next) ==
    /\ job[j].pc = at
    /\ job' = [job EXCEPT ![j].pc = next]
    /\ UNCHANGED <<beside, removed>>

\* An error, a refusal at a prompt, or a kill; nothing is undone.
Fail(j) ==
    /\ j \in Active
    /\ job' = [job EXCEPT ![j].pc = "failed"]
    /\ UNCHANGED <<vault, temps, marker, credential, daemon, orphans, beside, removed>>

-----------------------------------------------------------------------------
(* envault init                                                            *)

BeginInit(j) ==
    /\ vault = Nil
    /\ Enter(j, [pc |-> "build"])
    /\ UNCHANGED <<vault, temps, marker, credential, daemon, orphans>>

\* The second look, and the temporary vault.
BuildVault(j) ==
    /\ vault = Nil
    /\ Step(j, "build", "publish")
    /\ temps' = temps \cup {j}
    /\ UNCHANGED <<vault, marker, credential, daemon, orphans>>

\* Mutant: the temporary file is renamed to the path.
Publishes_Replacing(j) == j \in temps

\* A hard link is refused if the path is taken, or the file was removed.
Publishes(j) == j \in temps /\ vault = Nil

Publish(j) ==
    /\ Publishes(j)
    /\ Step(j, "publish", "tidy")
    /\ vault' = j
    /\ UNCHANGED <<temps, marker, credential, daemon, orphans>>
PublishRefused(j) ==
    /\ ~Publishes(j)
    /\ Step(j, "publish", "tidy")
    /\ UNCHANGED <<vault, temps, marker, credential, daemon, orphans>>

\* The name of the temporary file goes, published or not.
Tidy(j) ==
    /\ Step(j, "tidy", "done")
    /\ temps' = temps \ {j}
    /\ UNCHANGED <<vault, marker, credential, daemon, orphans>>

-----------------------------------------------------------------------------
(* envault start, as far as this module needs it                           *)

\* resolve_start_password: the stored password, else one that is typed.
BeginStart(j) ==
    /\ \E p \in Job \cup {First} :
           /\ marker = "yes" /\ credential # Nil => p = credential
           /\ Enter(j, [pc |-> "spawn", password |-> p])
    /\ UNCHANGED <<vault, temps, marker, credential, daemon, orphans>>

\* client::start: a daemon that serves will do, whatever the password; otherwise the
\* password must open the vault at the path.
Starts(j) ==
    \/ Serving /\ UNCHANGED daemon
    \/ /\ daemon.state = "none"
       /\ vault # Nil /\ job[j].password = vault
       /\ daemon' = [vault |-> vault, state |-> "serving", lease |-> "no"]

Spawn(j) ==
    /\ Step(j, "spawn", "done")
    /\ Starts(j)
    /\ UNCHANGED <<vault, temps, marker, credential, orphans>>

DaemonEnds ==
    /\ \/ daemon.state = "ending" /\ daemon' = NoDaemon /\ UNCHANGED orphans
       \/ \E o \in orphans : o.state = "ending" /\ orphans' = orphans \ {o} /\ UNCHANGED daemon
    /\ UNCHANGED <<vault, temps, marker, credential, job, beside, removed>>

LeaseEnds ==
    /\ daemon.lease = "yes"
    /\ daemon' = [daemon EXCEPT !.lease = "no"]
    /\ UNCHANGED <<vault, temps, marker, credential, orphans, job, beside, removed>>

-----------------------------------------------------------------------------
(* envault convenience-unlock enable | disable                             *)

\* The password is verified against the vault at the path.
BeginEnable(j) ==
    /\ vault # Nil
    /\ Enter(j, [pc |-> "set", password |-> vault])
    /\ UNCHANGED <<vault, temps, marker, credential, daemon, orphans>>
StorePassword(j) ==
    /\ Step(j, "set", "mark")
    /\ credential' = job[j].password
    /\ UNCHANGED <<vault, temps, marker, daemon, orphans>>
WriteMarker(j) ==
    /\ Step(j, "mark", "done")
    /\ marker' = "yes"
    /\ UNCHANGED <<vault, temps, credential, daemon, orphans>>

BeginDisable(j) ==
    /\ Enter(j, [pc |-> "forget", next |-> "done"])
    /\ UNCHANGED <<vault, temps, marker, credential, daemon, orphans>>

\* Mutant: the store is asked only if the marker says that it holds a password.
Forgets_IfMarked == credential' = IF marker = "yes" THEN Nil ELSE credential

\* keystore.delete, whether the marker is there or not; no entry is no error.
Forgets == credential' = Nil

DeletePassword(j) ==
    /\ Step(j, "forget", "unmark")
    /\ Forgets
    /\ UNCHANGED <<vault, temps, marker, daemon, orphans>>
RemoveMarker(j) ==
    /\ Step(j, "unmark", job[j].next)
    /\ marker' = "no"
    /\ UNCHANGED <<vault, temps, credential, daemon, orphans>>

-----------------------------------------------------------------------------
(* envault uninstall                                                       *)

\* Whether there is a vault is read once, before the prompts.
BeginUninstall(j) ==
    /\ \E p \in Job \cup {First} :
           Enter(j, [pc |-> IF vault # Nil THEN "start" ELSE "stop", next |-> "runtime",
                     password |-> p, proved |-> Nil, backup |-> Nil])
    /\ UNCHANGED <<vault, temps, marker, credential, daemon, orphans>>
StartForUninstall(j) ==
    /\ Step(j, "start", "prove")
    /\ Starts(j)
    /\ UNCHANGED <<vault, temps, marker, credential, orphans>>

\* Mutant: an authority that is held will do, whoever proved it.
Proves_Held(j) == job[j].password = daemon.vault \/ daemon.lease = "yes"

\* AdminUnlock verifies the password anew.
Proves(j) == job[j].password = daemon.vault

AdminUnlock(j) ==
    /\ job[j].pc = "prove"
    /\ Serving /\ Proves(j)
    /\ daemon' = [daemon EXCEPT !.lease = "yes"]
    /\ job' = [job EXCEPT ![j].pc = "backup", ![j].proved = job[j].password]
    /\ UNCHANGED <<vault, temps, marker, credential, orphans, beside, removed>>

\* ExportPackage of the whole vault; it is the lease that authorises it.
Backup(j) ==
    /\ job[j].pc = "backup"
    /\ Serving /\ daemon.lease = "yes"
    /\ job' = [job EXCEPT ![j].pc = "stop", ![j].backup = daemon.vault]
    /\ UNCHANGED <<vault, temps, marker, credential, daemon, orphans, beside, removed>>
SkipBackup(j) ==
    /\ job[j].pc = "backup"
    /\ job' = [job EXCEPT ![j].pc = "stop", ![j].backup = job[j].proved]
    /\ UNCHANGED <<vault, temps, marker, credential, daemon, orphans, beside, removed>>

\* Stop is acknowledged before the daemon has ended; no daemon is no error.
StopDaemon(j) ==
    /\ Step(j, "stop", "forget")
    /\ daemon' = IF Serving THEN [daemon EXCEPT !.state = "ending", !.lease = "no"] ELSE daemon
    /\ UNCHANGED <<vault, temps, marker, credential, orphans>>

\* The socket and the locks go with the directory; whoever has them open goes on.
RemoveRuntime(j) ==
    /\ Step(j, "runtime", "data")
    /\ orphans' = IF daemon.state = "none" THEN orphans ELSE orphans \cup {daemon}
    /\ daemon' = NoDaemon
    /\ UNCHANGED <<vault, temps, marker, credential>>

\* remove_dir_all removes entry by entry.
RemoveVault(j) ==
    /\ job[j].pc = "data" /\ vault # Nil
    /\ vault' = Nil
    /\ removed' = removed \cup {[by |-> j, vault |-> vault]}
    /\ UNCHANGED <<temps, marker, credential, daemon, orphans, job, beside>>
RemoveOther(j) ==
    /\ job[j].pc = "data"
    /\ \/ \E t \in temps : temps' = temps \ {t} /\ UNCHANGED marker
       \/ marker = "yes" /\ marker' = "no" /\ UNCHANGED temps
    /\ UNCHANGED <<vault, credential, daemon, orphans, job, beside, removed>>
Uninstalled(j) ==
    /\ vault = Nil /\ temps = {} /\ marker = "no"
    /\ Step(j, "data", "done")
    /\ UNCHANGED <<vault, temps, marker, credential, daemon, orphans>>

-----------------------------------------------------------------------------
JobStep(j) ==
    \/ BeginInit(j) \/ BuildVault(j) \/ Publish(j) \/ PublishRefused(j) \/ Tidy(j)
    \/ BeginStart(j) \/ Spawn(j)
    \/ BeginEnable(j) \/ StorePassword(j) \/ WriteMarker(j)
    \/ BeginDisable(j) \/ DeletePassword(j) \/ RemoveMarker(j)
    \/ BeginUninstall(j) \/ StartForUninstall(j) \/ AdminUnlock(j) \/ Backup(j) \/ SkipBackup(j)
    \/ StopDaemon(j) \/ RemoveRuntime(j) \/ RemoveVault(j) \/ RemoveOther(j) \/ Uninstalled(j)
    \/ Fail(j)

HostNext ==
    /\ (\E j \in Job : JobStep(j)) \/ DaemonEnds \/ LeaseEnds
    /\ ghosted' = IF Ghost' THEN "yes" ELSE ghosted

HostSpec == HostInit /\ [][HostNext]_hostVars

-----------------------------------------------------------------------------
Uninstalls == {j \in Job : "proved" \in DOMAIN job[j]}
Alone(j) == beside[j] = {}

\* A vault that is there is never replaced: of inits that run at once one publishes and
\* the others are refused, and a path is free again only through an uninstall
\* (publish_no_replace).
PublishedOnce == [][vault # Nil => vault' \in {vault, Nil}]_hostVars

\* An uninstall removes a vault only after a proof of that vault's password, with the
\* backup that was asked for of that vault.  Nothing else is excused but an init of that
\* vault that ran beside the uninstall (which looks for a vault once, at its start), or
\* a daemon that served a vault which was no longer there.
RemovesWhatItProved ==
    \A r \in removed :
        \/ job[r.by].proved = r.vault /\ job[r.by].backup = r.vault
        \/ r.vault \in beside[r.by]
        \/ ghosted = "yes"

\* A daemon serves a vault that is no longer at the path, and acknowledges what will be
\* lost, or goes on serving where Stop cannot reach it, only if another job ran beside
\* an uninstall; Stop comes before anything is removed.
GhostNeedsOverlap ==
    (ghosted = "yes" \/ \E o \in orphans : o.state = "serving") =>
        \E j \in Uninstalls : ~Alone(j)

\* The password store never holds a password that does not open the vault that is there,
\* which start would use without a prompt, and never outlives the vault, unless jobs
\* overlapped: however enables, disables and uninstalls were cut short.
CredentialFits ==
    (\A j \in Job : Alone(j)) => credential \in {Nil, vault}

\* "Permanently removes every local trace" (main.rs:1035): an uninstall that no other job
\* ran beside leaves no vault, no temporary file, no stored password, no marker and no
\* daemon that can be reached, whatever earlier jobs that were killed had left.
LeavesNoTrace ==
    [][\A j \in Job : (job[j].pc = "data" /\ job'[j].pc = "done" /\ Alone(j)) =>
           /\ vault' = Nil /\ temps' = {} /\ marker' = "no" /\ credential' = Nil
           /\ ~Serving']_hostVars
-----------------------------------------------------------------------------
(* What the three rest on.                                                 *)

Vaults == Job \cup {First}
Daemons == [vault : Vaults \cup {Nil}, state : {"none", "serving", "ending"}, lease : {"yes", "no"}]

\* The commands and their steps, with what they carry along.
InitJob == [pc : {"new", "build", "publish", "tidy", "done", "failed"}]
PasswordJob == [pc : {"spawn", "set", "mark", "done", "failed"}, password : Vaults]
DisableJob == [pc : {"forget", "unmark", "done", "failed"}, next : {"done"}]
UninstallJob ==
    [pc : {"start", "prove", "backup", "stop", "forget", "unmark", "runtime", "data", "done", "failed"},
     next : {"runtime"}, password : Vaults, proved : Vaults \cup {Nil}, backup : Vaults \cup {Nil}]

HostTypeOK ==
    /\ vault \in Vaults \cup {Nil}
    /\ temps \in SUBSET Job
    /\ marker \in {"yes", "no"}
    /\ credential \in Vaults \cup {Nil}
    /\ daemon \in Daemons /\ orphans \in SUBSET Daemons
    /\ job \in [Job -> InitJob \cup PasswordJob \cup DisableJob \cup UninstallJob]
    /\ beside \in [Job -> SUBSET Job]
    /\ removed \in SUBSET [by : Job, vault : Vaults]
    /\ ghosted \in {"yes", "no"}

\* Jobs that are under way ran beside one another, and those to come beside none.
Overlaps ==
    /\ \A i, j \in Active : i # j => i \in beside[j]
    /\ \A j \in Job : job[j].pc = "new" => Alone(j)

\* A daemon serves a vault, the one at the path unless that was noted.
ServesItsVault == Serving => daemon.vault # Nil /\ (daemon.vault = vault \/ ghosted = "yes")

\* Past its Stop, an uninstall that runs alone has no daemon serving, and once it has asked
\* the password store, nothing is in it.
StoppedAndForgotten ==
    \A j \in Active \cap Uninstalls : Alone(j) =>
        /\ job[j].pc \in {"forget", "unmark", "runtime", "data"} => ~Serving
        /\ job[j].pc \in {"unmark", "runtime", "data"} => credential = Nil

\* An enable that runs alone stores the password of the vault that is there.
StoresItsVault == \A j \in Job : job[j].pc = "set" /\ Alone(j) => job[j].password = vault

\* Whatever runs beside it, an uninstall that has got past the proof has proved the vault
\* that is there, or that vault was made meanwhile.
ProvedOrMadeMeanwhile ==
    ghosted = "no" /\ vault # Nil =>
        \A j \in Active \cap Uninstalls :
            \/ vault \in beside[j]
            \/ job[j].pc \in {"start", "prove"}
            \/ job[j].proved = vault /\ (job[j].pc = "backup" \/ job[j].backup = vault)

\* Vaults are removed by uninstalls, in their last step, when what they proved is settled.
RemovedLast == \A r \in removed : r.by \in Uninstalls /\ job[r.by].pc \in {"data", "done", "failed"}

\* The three, and what they rest on: no step leads out of it.
HostInv ==
    /\ HostTypeOK
    /\ RemovesWhatItProved /\ GhostNeedsOverlap /\ CredentialFits
    /\ Overlaps /\ ServesItsVault /\ StoppedAndForgotten /\ StoresItsVault
    /\ ProvedOrMadeMeanwhile /\ RemovedLast
=============================================================================
