------------------------------- MODULE Vault -------------------------------
(***************************************************************************)
(* The vault session: the operations of VaultSession (crates/envault-      *)
(* service) over the tables of crates/envault-store, with the wrappers the *)
(* daemon's handlers add, and the runtime loaded set.                      *)
(*                                                                         *)
(* Every operation runs to its end under the daemon's mutex, so it is one  *)
(* action; its outcome is kept in `result`, and a refusal leaves behind    *)
(* only what the code wrote before it refused.  Cryptography, texts and    *)
(* the generation counter are abstracted; a secret's value is the number   *)
(* of its version.  A profile and its scope are one: the scope tree the    *)
(* program builds is the root, which is the base profile's, with one child *)
(* scope per other profile.                                                *)
(***************************************************************************)
EXTENDS Naturals, FiniteSets, Sequences

CONSTANTS
    Pid,        \* profile ids; an id is drawn once (UUID v4)
    Base,       \* the id of the base profile
    PName,      \* normalized profile names
    BaseName,   \* the name `base` starts with
    Desc,       \* profile descriptions
    NoDesc,     \* the description a profile is created with
    Sid,        \* secret ids, drawn once as well
    SName,      \* normalized secret names
    MaxVersion, \* bound: versions of one secret
    WName,      \* normalized workspace names
    Absent      \* no row

ASSUME VaultAssumption ==
    /\ Base \in Pid
    /\ BaseName \in PName
    /\ NoDesc \in Desc
    /\ MaxVersion \in Nat \ {0}
    /\ Absent \notin Pid \cup PName \cup SName \cup WName

VARIABLES
    session,    \* "open" while the daemon holds a VaultSession
    loaded,     \* VaultSession.loaded: the profile ids read access covers
    pname,      \* table profile: the name, Absent when there is no row
    auto,       \* its column activate_on_start
    desc,       \* its column encrypted_description
    drawn,      \* profile ids drawn so far
    owner,      \* table secret: the profile whose scope holds it
    sname,      \* its name
    current,    \* its current_version; status 1, a tombstone, is version 0
    versions,   \* table secret_version: the versions stored per secret
    rules,      \* table secret_http_access: the secrets with a rule
    drawnSecrets, \* secret ids drawn so far
    workspaces, \* table workspace
    members,    \* table workspace_membership
    result      \* the outcome of the last operation

profiles == <<pname, auto, desc, drawn>>
secrets == <<owner, sname, current, versions, rules, drawnSecrets>>
groups == <<workspaces, members>>
vars == <<session, loaded, profiles, secrets, groups, result>>

Success == {"ok", "noop"}
\* "corrupt" is what map_service_failure makes of every StoreError; only exports and
\* imports answer with the second line.
Failure == {"conflict", "not_found", "not_loaded", "corrupt", "denied", "duplicate",
            "invalid", "io", "auth", "stale", "strategy"}
Session == {"open", "locked"}

\* initialize_temporary, then the first unlock.
Init ==
    /\ session = "open"
    /\ loaded = {Base}
    /\ pname = [p \in Pid |-> IF p = Base THEN BaseName ELSE Absent]
    /\ auto = {Base}
    /\ desc = [p \in Pid |-> NoDesc]
    /\ drawn = {Base}
    /\ owner = [s \in Sid |-> Absent]
    /\ sname = [s \in Sid |-> Absent]
    /\ current = [s \in Sid |-> 0]
    /\ versions = [s \in Sid |-> {}]
    /\ rules = {}
    /\ drawnSecrets = {}
    /\ workspaces = {}
    /\ members = {}
    /\ result = "ok"

-----------------------------------------------------------------------------
(* Lookups.                                                                *)

Profiles == {p \in Pid : pname[p] # Absent}
Secrets == {s \in Sid : owner[s] # Absent}
Tombstone(s) == current[s] = 0

\* profile_by_name, and secret_by_lookup in one scope; names are unique.
Named(n) == {p \in Profiles : pname[p] = n}
SecretsAt(P, x) == {s \in Secrets : owner[s] \in P /\ sname[s] = x}
Members(w) == {p \in Pid : <<w, p>> \in members}

Answer(r) == result' = r
\* The operation ends with r and has changed nothing.
Ends(r) == Answer(r) /\ UNCHANGED <<session, loaded, profiles, secrets, groups>>

\* The error of secret_by_ref(profile, name, require_loaded), or "none".
RefError(n, x, requireLoaded) ==
    IF Named(n) = {} THEN "not_found"
    ELSE IF requireLoaded /\ ~ Named(n) \subseteq loaded THEN "not_loaded"
    ELSE IF SecretsAt(Named(n), x) = {} THEN "not_found"
    ELSE "none"

\* The operation that needs a secret it does not get.
RefFails(n, x, requireLoaded) ==
    /\ RefError(n, x, requireLoaded) # "none"
    /\ Ends(RefError(n, x, requireLoaded))

-----------------------------------------------------------------------------
(* Profiles.                                                               *)

\* Mutant: the id of a deleted profile is drawn again.
CreateProfile_ReusesIds(n, w) ==
    /\ session = "open"
    /\ w = Absent
    /\ Named(n) = {}
    /\ \E p \in Pid \ Profiles :
          /\ pname' = [pname EXCEPT ![p] = n]
          /\ desc' = [desc EXCEPT ![p] = NoDesc]
          /\ drawn' = drawn \cup {p}
    /\ Answer("ok")
    /\ UNCHANGED <<session, loaded, auto, secrets, groups>>

\* Mutant: the workspace is looked up after the profile was created.
CreateProfile_BindsLast(n, w) ==
    /\ session = "open"
    /\ Named(n) = {}
    /\ \E p \in Pid \ drawn :
          /\ pname' = [pname EXCEPT ![p] = n]
          /\ drawn' = drawn \cup {p}
          /\ IF w \in workspaces \cup {Absent}
             THEN /\ members' = members \cup ({w} \ {Absent}) \X {p}
                  /\ Answer("ok")
             ELSE UNCHANGED members /\ Answer("not_found")
    /\ UNCHANGED <<session, loaded, auto, desc, secrets, workspaces>>

\* CreateProfile, bound to workspace w at once unless w is Absent.  The
\* workspace is looked up first, so binding the new profile cannot fail.
CreateProfile(n, w) ==
    /\ session = "open"
    /\ \/ w # Absent /\ w \notin workspaces /\ Ends("not_found")
       \/ w \in workspaces \cup {Absent} /\ Named(n) # {} /\ Ends("conflict")
       \/ /\ w \in workspaces \cup {Absent}
          /\ Named(n) = {}
          /\ \E p \in Pid \ drawn :
                /\ pname' = [pname EXCEPT ![p] = n]
                /\ desc' = [desc EXCEPT ![p] = NoDesc]
                /\ drawn' = drawn \cup {p}
                /\ members' = members \cup ({w} \ {Absent}) \X {p}
          /\ Answer("ok")
          /\ UNCHANGED <<session, loaded, auto, secrets, workspaces>>

\* update_profile writes the description before it looks at the flag, so a
\* refused flag leaves the new description behind.
UpdateProfile(n, d, flag) ==
    /\ session = "open"
    /\ \/ Named(n) = {} /\ Ends("not_found")
       \/ \E p \in Named(n) :
             /\ desc' = [desc EXCEPT ![p] = d]
             /\ \/ /\ flag = "keep"
                   /\ Answer("ok")
                   /\ UNCHANGED auto
                \/ /\ flag = "on"
                   /\ Answer("ok")
                   /\ auto' = auto \cup {p}
                \/ /\ flag = "off"
                   /\ p = Base \/ auto \subseteq {p}
                   /\ Answer("conflict")
                   /\ UNCHANGED auto
                \/ /\ flag = "off"
                   /\ p # Base
                   /\ ~ auto \subseteq {p}
                   /\ Answer("ok")
                   /\ auto' = auto \ {p}
             /\ UNCHANGED <<session, loaded, pname, drawn, secrets, groups>>

RenameProfile(old, new) ==
    /\ session = "open"
    /\ \/ Named(old) = {} /\ Ends("not_found")
       \/ ~ Named(new) \subseteq Named(old) /\ Named(old) # {} /\ Ends("conflict")
       \/ \E p \in Named(old) :
             /\ Named(new) \subseteq {p}
             /\ pname' = [pname EXCEPT ![p] = new]
             /\ Answer("ok")
             /\ UNCHANGED <<session, loaded, auto, desc, drawn, secrets, groups>>

\* The rows that refer to p: its secrets, through its scope, and memberships.
Referenced(p) == (\E s \in Sid : owner[s] = p) \/ (\E w \in WName : <<w, p>> \in members)

\* delete_profile; a foreign key that refers to the profile or its scope
\* fails the transaction.  The loaded set keeps the id.
DeleteProfile(n) ==
    /\ session = "open"
    /\ \/ Named(n) = {} /\ Ends("noop")
       \/ \E p \in Named(n) : p \in {Base} \cup auto /\ Ends("conflict")
       \/ \E p \in Named(n) : p \notin {Base} \cup auto /\ Referenced(p) /\ Ends("corrupt")
       \/ \E p \in Named(n) :
             /\ p \notin {Base} \cup auto
             /\ ~Referenced(p)
             /\ pname' = [pname EXCEPT ![p] = Absent]
             /\ desc' = [desc EXCEPT ![p] = NoDesc]
             /\ Answer("ok")
             /\ UNCHANGED <<session, loaded, auto, drawn, secrets, groups>>

-----------------------------------------------------------------------------
(* The loaded set.                                                         *)

Load(P) ==
    /\ loaded' = loaded \cup P
    /\ Answer("ok")
    /\ UNCHANGED <<session, profiles, secrets, groups>>

LoadProfile(n) ==
    /\ session = "open"
    /\ IF Named(n) = {} THEN Ends("not_found") ELSE Load(Named(n))

LoadWorkspace(w) ==
    /\ session = "open"
    /\ IF w \in workspaces THEN Load(Members(w)) ELSE Ends("not_found")

UnloadProfile(n) ==
    /\ session = "open"
    /\ \/ Named(n) = {} /\ Ends("not_found")
       \/ Base \in Named(n) /\ Ends("conflict")
       \/ /\ Named(n) # {}
          /\ Base \notin Named(n)
          /\ loaded' = loaded \ Named(n)
          /\ Answer("ok")
          /\ UNCHANGED <<session, profiles, secrets, groups>>

\* RuntimeState::lock, or the end of the process in any way: SQLite keeps
\* what was committed, the loaded set is gone.
Lock ==
    /\ session = "open"
    /\ session' = "locked"
    /\ loaded' = {}
    /\ Answer("ok")
    /\ UNCHANGED <<profiles, secrets, groups>>

\* VaultSession::unlock by a new daemon; validate_startup_profile refuses a
\* vault in which nothing is active on start.
Unlock ==
    /\ session = "locked"
    /\ IF auto = {}
       THEN Ends("corrupt")
       ELSE /\ session' = "open"
            /\ loaded' = auto
            /\ Answer("ok")
            /\ UNCHANGED <<profiles, secrets, groups>>

-----------------------------------------------------------------------------
(* Workspaces.                                                             *)

CreateWorkspace(w) ==
    /\ session = "open"
    /\ IF w \in workspaces
       THEN Ends("conflict")
       ELSE /\ workspaces' = workspaces \cup {w}
            /\ Answer("ok")
            /\ UNCHANGED <<session, loaded, profiles, secrets, members>>

\* bind and unbind: the primary key refuses a second membership, and
\* expect_single_change the removal of one that is not there.
BindProfile(w, n) ==
    /\ session = "open"
    /\ \/ (w \notin workspaces \/ Named(n) = {}) /\ Ends("not_found")
       \/ \E p \in Named(n) : w \in workspaces /\ <<w, p>> \in members /\ Ends("corrupt")
       \/ \E p \in Named(n) :
             /\ w \in workspaces
             /\ <<w, p>> \notin members
             /\ members' = members \cup {<<w, p>>}
             /\ Answer("ok")
             /\ UNCHANGED <<session, loaded, profiles, secrets, workspaces>>

UnbindProfile(w, n) ==
    /\ session = "open"
    /\ \/ (w \notin workspaces \/ Named(n) = {}) /\ Ends("not_found")
       \/ \E p \in Named(n) : w \in workspaces /\ <<w, p>> \notin members /\ Ends("corrupt")
       \/ \E p \in Named(n) :
             /\ w \in workspaces
             /\ <<w, p>> \in members
             /\ members' = members \ {<<w, p>>}
             /\ Answer("ok")
             /\ UNCHANGED <<session, loaded, profiles, secrets, workspaces>>

DeleteWorkspace(w) ==
    /\ session = "open"
    /\ \/ w \notin workspaces /\ Ends("noop")
       \/ w \in workspaces /\ Members(w) # {} /\ Ends("corrupt")
       \/ /\ w \in workspaces
          /\ Members(w) = {}
          /\ workspaces' = workspaces \ {w}
          /\ Answer("ok")
          /\ UNCHANGED <<session, loaded, profiles, secrets, members>>

-----------------------------------------------------------------------------
(* Secrets.                                                                *)

\* insert_secret_with_version, or insert_tombstone when there is no version.
InsertSecret(p, x, last) ==
    \E s \in Sid \ drawnSecrets :
        /\ owner' = [owner EXCEPT ![s] = p]
        /\ sname' = [sname EXCEPT ![s] = x]
        /\ current' = [current EXCEPT ![s] = last]
        /\ versions' = [versions EXCEPT ![s] = 1 .. last]
        /\ drawnSecrets' = drawnSecrets \cup {s}
        /\ Answer("ok")
        /\ UNCHANGED <<session, loaded, profiles, rules, groups>>

\* create_secret, typed or generated; a tombstone occupies its name too.
CreateSecret(n, x) ==
    /\ session = "open"
    /\ \/ Named(n) = {} /\ Ends("not_found")
       \/ SecretsAt(Named(n), x) # {} /\ Ends("conflict")
       \/ \E p \in Named(n) : SecretsAt({p}, x) = {} /\ InsertSecret(p, x, 1)

\* update_secret changes a description, which is not modelled.
UpdateSecret(n, x) ==
    /\ session = "open"
    /\ \/ RefFails(n, x, FALSE)
       \/ \E s \in SecretsAt(Named(n), x) :
             Ends(IF Tombstone(s) THEN "conflict" ELSE "ok")

RenameSecret(n, x, y) ==
    /\ session = "open"
    /\ \/ RefFails(n, x, FALSE)
       \/ \E s \in SecretsAt(Named(n), x) :
             IF SecretsAt({owner[s]}, y) \subseteq {s}
             THEN /\ sname' = [sname EXCEPT ![s] = y]
                  /\ Answer("ok")
                  /\ UNCHANGED <<session, loaded, profiles, owner, current, versions,
                                 rules, drawnSecrets, groups>>
             ELSE Ends("conflict")

\* Mutant: the new version replaces the old ones.
SetSecretValue_Replaces(n, x) ==
    /\ session = "open"
    /\ \E s \in SecretsAt(Named(n), x) :
          /\ current[s] \in 1 .. (MaxVersion - 1)
          /\ current' = [current EXCEPT ![s] = @ + 1]
          /\ versions' = [versions EXCEPT ![s] = {current[s] + 1}]
    /\ Answer("ok")
    /\ UNCHANGED <<session, loaded, profiles, owner, sname, rules, drawnSecrets, groups>>

\* add_secret_version: the row and current_version move together, under a
\* compare-and-set on the version the caller read.
SetSecretValue(n, x) ==
    /\ session = "open"
    /\ \/ RefFails(n, x, FALSE)
       \/ \E s \in SecretsAt(Named(n), x) : Tombstone(s) /\ Ends("conflict")
       \/ \E s \in SecretsAt(Named(n), x) :
             /\ ~Tombstone(s)
             /\ current[s] < MaxVersion
             /\ current' = [current EXCEPT ![s] = @ + 1]
             /\ versions' = [versions EXCEPT ![s] = @ \cup {current[s] + 1}]
             /\ Answer("ok")
             /\ UNCHANGED <<session, loaded, profiles, owner, sname, rules,
                            drawnSecrets, groups>>

Erase(S) ==
    /\ owner' = [s \in Sid |-> IF s \in S THEN Absent ELSE owner[s]]
    /\ sname' = [s \in Sid |-> IF s \in S THEN Absent ELSE sname[s]]
    /\ current' = [s \in Sid |-> IF s \in S THEN 0 ELSE current[s]]
    /\ versions' = [s \in Sid |-> IF s \in S THEN {} ELSE versions[s]]
    /\ Answer("ok")
    /\ UNCHANGED <<session, loaded, profiles, drawnSecrets, groups>>

\* Mutant: the HTTP rule outlives its secret.
DeleteSecret_KeepsRule(n, x) ==
    /\ session = "open"
    /\ \E s \in SecretsAt(Named(n), x) : Erase({s}) /\ UNCHANGED rules

\* Mutant: the name is deleted in every scope.
DeleteSecret_EveryScope(n, x) ==
    /\ session = "open"
    /\ SecretsAt(Named(n), x) # {}
    /\ Erase(SecretsAt(Pid, x))
    /\ rules' = rules \ SecretsAt(Pid, x)

DeleteSecret(n, x) ==
    /\ session = "open"
    /\ \/ RefError(n, x, FALSE) # "none" /\ Ends("noop")
       \/ \E s \in SecretsAt(Named(n), x) : Erase({s}) /\ rules' = rules \ {s}

\* tombstone_secret: hides an inherited name, or turns the profile's own
\* secret into a tombstone, whose HTTP rule stays.
TombstoneSecret(n, x) ==
    /\ session = "open"
    /\ \/ Named(n) = {} /\ Ends("not_found")
       \/ \E p \in Named(n) : SecretsAt({p}, x) = {} /\ InsertSecret(p, x, 0)
       \/ \E s \in SecretsAt(Named(n), x) :
             /\ current' = [current EXCEPT ![s] = 0]
             /\ versions' = [versions EXCEPT ![s] = {}]
             /\ Answer("ok")
             /\ UNCHANGED <<session, loaded, profiles, owner, sname, rules,
                            drawnSecrets, groups>>

\* SetSecretHttpAccess loads the profile, then normalizes the constraint, which
\* the broker may deny, then looks for the secret.
SetHttpAccess(n, x) ==
    /\ session = "open"
    /\ \/ Named(n) = {} /\ Ends("not_found")
       \/ /\ Named(n) # {}
          /\ loaded' = loaded \cup Named(n)
          /\ \/ Answer("denied") /\ UNCHANGED rules
             \/ /\ rules' = rules \cup SecretsAt(Named(n), x)
                /\ Answer(IF SecretsAt(Named(n), x) = {} THEN "not_found" ELSE "ok")
          /\ UNCHANGED <<session, profiles, owner, sname, current, versions,
                         drawnSecrets, groups>>

RemoveHttpAccess(n, x) ==
    /\ session = "open"
    /\ \/ RefFails(n, x, FALSE)
       \/ /\ RefError(n, x, FALSE) = "none"
          /\ rules' = rules \ SecretsAt(Named(n), x)
          /\ Answer("ok")
          /\ UNCHANGED <<session, loaded, profiles, owner, sname, current, versions,
                         drawnSecrets, groups>>

-----------------------------------------------------------------------------
(* Reads.                                                                  *)

\* resolve_argv_secret and reveal_secret_value of the current version: a
\* tombstone has no last version to return.
ReadSecretValue(n, x) ==
    /\ session = "open"
    /\ \/ RefFails(n, x, TRUE)
       \/ \E s \in SecretsAt(Named(n), x) :
             /\ RefError(n, x, TRUE) = "none"
             /\ Ends(IF versions[s] = {} THEN "corrupt" ELSE "ok")

\* prepare_http_request; whether the request fits the rule is the broker's.
PrepareHttpRequest(n, x) ==
    /\ session = "open"
    /\ \/ RefFails(n, x, TRUE)
       \/ \E s \in SecretsAt(Named(n), x) :
             /\ RefError(n, x, TRUE) = "none"
             /\ Ends(IF s \notin rules THEN "denied"
                     ELSE IF Tombstone(s) THEN "not_found"
                     ELSE IF current[s] \notin versions[s] THEN "corrupt"
                     ELSE "ok")

\* resolved_secrets over the scope chain root, p: the profile's own entries
\* hide the base's entries of the same name, and tombstones are not shown.
Visible(p) ==
    {s \in Secrets :
        /\ ~Tombstone(s)
        /\ \/ owner[s] = p
           \/ owner[s] = Base /\ SecretsAt({p}, sname[s]) = {}}

VisibleNames(p) == {sname[s] : s \in Visible(p)}

\* What is merged of profiles with the given names.
Merged(ns) == UNION {Visible(p) : p \in UNION {Named(n) : n \in ns}}
NamesOf(some) == {sname[s] : s \in some}

\* How resolve_run_env may fail at the i-th name it was given, or "none".  It compares
\* names as they are spelled: two secrets of one normalized name may differ in it.
RunErrors(ns, i) ==
    LET next == Merged({ns[i]})
        before == Merged({ns[j] : j \in 1 .. (i - 1)})
    IN  IF Named(ns[i]) = {} THEN {"not_found"}
        ELSE IF ~ Named(ns[i]) \subseteq loaded THEN {"not_loaded"}
        ELSE IF next \cap before # {} THEN {"duplicate"}
        ELSE IF NamesOf(next) \cap NamesOf(before) # {} THEN {"duplicate", "none"}
        ELSE {"none"}

\* The profiles are merged in order and the first failure is the answer.
ResolveRunEnv(ns) ==
    /\ session = "open"
    /\ \/ /\ \A i \in DOMAIN ns : "none" \in RunErrors(ns, i)
          /\ Ends("ok")
       \/ \E i \in DOMAIN ns : \E error \in RunErrors(ns, i) \ {"none"} :
             /\ \A j \in 1 .. (i - 1) : "none" \in RunErrors(ns, j)
             /\ Ends(error)

-----------------------------------------------------------------------------
ProfileStep ==
    \E n \in PName :
        \/ \E w \in WName \cup {Absent} : CreateProfile(n, w)
        \/ \E d \in Desc, flag \in {"keep", "on", "off"} : UpdateProfile(n, d, flag)
        \/ \E m \in PName : RenameProfile(n, m)
        \/ DeleteProfile(n)
        \/ LoadProfile(n)
        \/ UnloadProfile(n)

WorkspaceStep ==
    \E w \in WName :
        \/ CreateWorkspace(w)
        \/ LoadWorkspace(w)
        \/ \E n \in PName : BindProfile(w, n)
        \/ \E n \in PName : UnbindProfile(w, n)
        \/ DeleteWorkspace(w)

SecretStep ==
    \E n \in PName, x \in SName :
        \/ CreateSecret(n, x)
        \/ UpdateSecret(n, x)
        \/ \E y \in SName : RenameSecret(n, x, y)
        \/ SetSecretValue(n, x)
        \/ DeleteSecret(n, x)
        \/ TombstoneSecret(n, x)
        \/ SetHttpAccess(n, x)
        \/ RemoveHttpAccess(n, x)
        \/ ReadSecretValue(n, x)
        \/ PrepareHttpRequest(n, x)

Next ==
    \/ ProfileStep
    \/ WorkspaceStep
    \/ SecretStep
    \/ \E n, m \in PName : ResolveRunEnv(<<n>>) \/ ResolveRunEnv(<<n, m>>)
    \/ Lock
    \/ Unlock

Spec == Init /\ [][Next]_vars

-----------------------------------------------------------------------------
(* Properties.                                                             *)

TypeOK ==
    /\ session \in Session
    /\ loaded \in SUBSET Pid
    /\ pname \in [Pid -> PName \cup {Absent}]
    /\ auto \in SUBSET Pid
    /\ desc \in [Pid -> Desc]
    /\ drawn \in SUBSET Pid
    /\ owner \in [Sid -> Pid \cup {Absent}]
    /\ sname \in [Sid -> SName \cup {Absent}]
    /\ current \in [Sid -> Nat]
    /\ versions \in [Sid -> SUBSET Nat]
    /\ rules \in SUBSET Sid
    /\ drawnSecrets \in SUBSET Sid
    /\ workspaces \in SUBSET WName
    /\ members \in SUBSET (WName \X Pid)
    /\ result \in Success \cup Failure

\* What VaultSession::integrity_check and the foreign keys demand: names are
\* unique, every reference has its row, and the versions of a secret are
\* exactly 1 to current_version.
UniqueNames ==
    /\ \A p, q \in Profiles : pname[p] = pname[q] => p = q
    /\ \A s, t \in Secrets : owner[s] = owner[t] /\ sname[s] = sname[t] => s = t
ReferencesHold ==
    /\ \A s \in Secrets : owner[s] \in Profiles
    /\ \A s \in rules : s \in Secrets
    /\ \A w \in WName, p \in Pid :
          <<w, p>> \in members => w \in workspaces /\ p \in Profiles
VersionsContiguous == \A s \in Sid : versions[s] = 1 .. current[s]
IntegrityHolds == UniqueNames /\ ReferencesHold /\ VersionsContiguous

\* The base profile is the permanent underlay: whatever is renamed, deleted,
\* unloaded or switched off, it exists, starts with the vault and is loaded, so
\* validate_startup_profile never refuses the vault.
BaseUnderlay ==
    /\ Base \in Profiles
    /\ Base \in auto
    /\ session = "open" => Base \in loaded

\* Ids are drawn once, and what starts with the vault exists: the loaded set
\* can hold ids of deleted profiles, and they never come back.
DrawnOnce ==
    /\ Profiles \cup loaded \subseteq drawn
    /\ auto \subseteq Profiles
    /\ Secrets \subseteq drawnSecrets

\* The inductive invariant: the safety properties above hold together, each
\* with the help of the others.
VaultInv == TypeOK /\ IntegrityHolds /\ BaseUnderlay /\ DrawnOnce

\* A profile that comes into being is not loaded, though the loaded set may
\* still hold ids of deleted profiles; and only existing profiles get loaded.
CreatedNotLoaded ==
    [][/\ \A p \in Pid : p \notin Profiles /\ pname'[p] # Absent => p \notin loaded'
       /\ \A p \in loaded' \ loaded : p \in Profiles]_vars

\* A failed operation changes no row and no loaded profile, with the two
\* exceptions the code makes: update_profile keeps the description it wrote
\* before it refused the flag, and SetSecretHttpAccess keeps the profile loaded.
FailureKeepsVault ==
    [][result' \in Failure =>
          /\ UNCHANGED <<session, pname, auto, drawn, secrets, groups>>
          /\ desc' # desc => result' = "conflict"
          /\ loaded' # loaded => result' \in {"not_found", "denied"} /\ loaded \subseteq loaded']_vars

\* Versions are immutable: a stored version disappears only with its secret or
\* when the secret becomes a tombstone, and a rule stays with its secret.
HistoryKept ==
    [][\A s \in Secrets :
          /\ owner'[s] \in {owner[s], Absent}
          /\ owner'[s] # Absent /\ current'[s] # 0 => versions[s] \subseteq versions'[s]
          /\ owner'[s] = Absent => s \notin rules']_vars

\* Only an operation that was asked to changes what is visible in a profile:
\* work on one profile other than base never changes another one's view.  A
\* view is what is seen and under which name: a rename in base moves a name.
Visibility(p) == {<<s, sname[s], current[s]>> : s \in Visible(p)}
ProfilesApart ==
    [][Visibility(Base)' = Visibility(Base) =>
          LET changed == {p \in Profiles \ {Base} : Visibility(p)' # Visibility(p)}
          IN  \A p, q \in changed : p = q]_vars
=============================================================================
