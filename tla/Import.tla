------------------------------- MODULE Import -------------------------------
(***************************************************************************)
(* Portability (crates/envault-service/src/portability.rs): exports of the *)
(* vault to one file, and the two-step import of that file: a preview      *)
(* returns a plan hash, a commit rebuilds the plan and is refused unless   *)
(* it hashes to the same.  Between any two steps the vault is worked on    *)
(* with the operations of Vault, and the file may go and another one come. *)
(*                                                                         *)
(* A value of the file is not modelled: a version is its number.  The hash *)
(* covers every row with its nonces, so a row that is written again never  *)
(* hashes as before; rows that came and went leave no trace, and neither   *)
(* do memberships.                                                         *)
(***************************************************************************)
EXTENDS Vault, Functions, FiniteSetsExt

CONSTANTS
    Remap(_, _, _), \* mapped_uuid: package, destination name and source id
    MaxPackages,    \* bound: packages exported
    Requests,       \* the import requests a client makes
    Foreign,        \* packages of other vaults that may be received
    NoFile,         \* nothing at the path
    NoPlan          \* no hash, or one that matches nothing any more

VARIABLES
    file,       \* what the path of exports and imports holds
    packages,   \* packages exported so far; each has a fresh package_id
    plan        \* what the client's plan hash stands for, and what it showed

importVars == <<vars, file, packages, plan>>

Strategy == {"abort", "skip", "replace", "rename"}
Kind == {"env", "config", "profile", "workspace"}

\* `rename` is rename_to, `target` the profile of an env import.
ASSUME ImportAssumption ==
    Requests \subseteq [kind : Kind, strategy : Strategy, rename : PName \cup {Absent},
                       target : PName \cup {Absent}]

\* A package as a vault exports it, this one or another: validate_payload refuses what
\* differs, but for the base profile, which starts in every vault.  The id of this vault's
\* base profile was drawn here.
Packaged(f) ==
    LET P == DOMAIN f.names
        S == DOMAIN f.owners
    IN  /\ f.kind \in {"profile", "workspace"} /\ f.id \in 0 .. MaxPackages
        /\ P # {} /\ P \subseteq Pid /\ S \subseteq Sid
        /\ f.names \in [P -> PName] /\ f.descs \in [P -> Desc]
        /\ f.owners \in [S -> P] /\ f.labels \in [S -> SName] /\ f.lasts \in [S -> Nat]
        /\ IsInjective(f.names)
        /\ \A s, t \in S : f.owners[s] = f.owners[t] /\ f.labels[s] = f.labels[t] => s = t
        /\ f.kind = "profile" => \A p, q \in P : p = q
        /\ f.kind = "workspace" =>
              /\ f.base \in f.auto /\ f.auto \subseteq P
              /\ Base \in P => f.base = Base
              /\ f.groups \subseteq WName /\ f.members \subseteq f.groups \X P

ASSUME PackageAssumption ==
    /\ MaxPackages \in Nat
    /\ \A k \in 0 .. MaxPackages, n \in PName :
          /\ \A p \in Pid : Remap(k, n, p) \in Pid
          /\ \A s \in Sid : Remap(k, n, s) \in Sid
    /\ \A f \in Foreign : Packaged(f)

\* The ids of packages: mapped_uuid made them, or another vault drew them; a
\* random id of this vault never meets them.
PackageIds ==
    LET made == {Remap(k, n, i) : k \in 0 .. MaxPackages, n \in PName, i \in Pid \cup Sid}
    IN  made \cup UNION {DOMAIN f.names \cup DOMAIN f.owners : f \in Foreign}

-----------------------------------------------------------------------------
(* The plan hash.                                                          *)

\* destination_state_digest: the rows it reads, every table but the rules.
Known == [profiles |-> Profiles, secrets |-> Secrets,
          workspaces |-> workspaces, members |-> members]

ProfileRow(p) == <<pname[p], desc[p], p \in auto>>
SecretRow(s) == <<owner[s], sname[s], current[s]>>

\* Mutant: the rows of secrets are hashed by their ids only.
Written_Ids(known) ==
    \/ \E p \in known.profiles : ProfileRow(p)' # ProfileRow(p)
    \/ \E s \in known.secrets : owner'[s] # owner[s]
    \/ ~ known.workspaces \subseteq workspaces'

\* A row that the hash covers is written.
Written(known) ==
    \/ \E p \in known.profiles : ProfileRow(p)' # ProfileRow(p)
    \/ \E s \in known.secrets : SecretRow(s)' # SecretRow(s)
    \/ ~ known.workspaces \subseteq workspaces'

\* The plan after a step that is no commit.
Aged ==
    plan' = IF plan = NoPlan \/ Written(plan.known) THEN NoPlan
            ELSE [plan EXCEPT !.used = @ /\ Known' = Known]

\* The call ends with r; neither the vault nor the file has changed.
Refuses(r) == Ends(r) /\ UNCHANGED <<file, packages, plan>>

ImportInit ==
    /\ Init
    /\ file = NoFile
    /\ packages = 0
    /\ plan = NoPlan

-----------------------------------------------------------------------------
(* Exports.                                                                *)

\* export_package: the selected profiles and their secrets with ids; a
\* workspace package also has the groups.  Rules and the loaded set stay out.
Selected(kind, P) ==
    LET S == {s \in Secrets : owner[s] \in P}
    IN  [kind |-> kind, id |-> packages + 1, base |-> Base,
         names |-> Restrict(pname, P), descs |-> Restrict(desc, P), auto |-> auto \cap P,
         owners |-> Restrict(owner, S), labels |-> Restrict(sname, S),
         lasts |-> Restrict(current, S),
         groups |-> IF kind = "workspace" THEN workspaces ELSE {},
         members |-> IF kind = "workspace" THEN members ELSE {}]

\* validate_payload on what this vault can export: its rows satisfy all of it
\* but the demand for exactly one profile that is active on start.
PayloadAccepted(kind) == kind = "workspace" => Cardinality(auto) = 1

ExportPackage(kind, n) ==
    /\ session = "open"
    /\ \/ file # NoFile /\ Refuses("conflict")
       \/ file = NoFile /\ kind = "profile" /\ Named(n) = {} /\ Refuses("not_found")
       \/ file = NoFile /\ ~PayloadAccepted(kind) /\ Refuses("invalid")
       \/ /\ file = NoFile
          /\ kind = "profile" => Named(n) # {}
          /\ PayloadAccepted(kind)
          /\ packages < MaxPackages
          /\ file' = Selected(kind, IF kind = "profile" THEN Named(n) ELSE Profiles)
          /\ packages' = packages + 1
          /\ Answer("ok")
          /\ UNCHANGED <<session, loaded, profiles, secrets, groups, plan>>

\* export_plaintext_env: the names a run of the profile would see.
ExportPlaintextEnv(n) ==
    /\ session = "open"
    /\ \/ file # NoFile /\ Refuses("conflict")
       \/ file = NoFile /\ Named(n) = {} /\ Refuses("not_found")
       \/ \E p \in Named(n) :
             /\ file = NoFile
             /\ \E entries \in [1 .. Cardinality(VisibleNames(p)) -> VisibleNames(p)] :
                   /\ IsInjective(entries)
                   /\ file' = [kind |-> "env", entries |-> entries]
             /\ Answer("ok")
             /\ UNCHANGED <<session, loaded, profiles, secrets, groups, packages, plan>>

\* export_config_yaml: for each profile what is visible in it, by name, and the
\* groups with the names of their members.
ConfigDocument(P, W) ==
    LET N == {pname[p] : p \in P}
        Doc(F(_)) == [n \in N |-> F(CHOOSE p \in P : pname[p] = n)]
        About(p) == desc[p]
    IN  [kind |-> "config",
         descs |-> Doc(About),
         contents |-> Doc(VisibleNames),
         groups |-> [w \in W |-> {pname[p] : p \in Members(w)}]]

\* resolve_config_export_selection: the vault, one profile, or a workspace.
ConfigSelection(which, n, w) ==
    CASE which = "vault" -> [profiles |-> Profiles, groups |-> workspaces]
      [] which = "profile" -> [profiles |-> Named(n), groups |-> {}]
      [] which = "workspace" -> [profiles |-> Members(w), groups |-> {w}]

ExportConfig(which, n, w) ==
    /\ session = "open"
    /\ LET missing == \/ which = "profile" /\ Named(n) = {}
                      \/ which = "workspace" /\ w \notin workspaces
           chosen == ConfigSelection(which, n, w)
       IN  \/ file # NoFile /\ Refuses("conflict")
           \/ file = NoFile /\ missing /\ Refuses("not_found")
           \/ /\ file = NoFile
              /\ ~missing
              /\ file' = ConfigDocument(chosen.profiles, chosen.groups)
              /\ Answer("ok")
              /\ UNCHANGED <<session, loaded, profiles, secrets, groups, packages, plan>>

\* A file from elsewhere: a package of another vault, or an env file written by
\* hand, where names that differ in case are one name, so it can come twice.
ReceiveFile(f) ==
    /\ file = NoFile
    /\ file' = f
    /\ UNCHANGED <<vars, packages, plan>>

\* The file is removed; the next one has another digest.
RemoveFile ==
    /\ file # NoFile
    /\ file' = NoFile
    /\ plan' = NoPlan
    /\ UNCHANGED <<vars, packages>>

-----------------------------------------------------------------------------
(* Previews.  A request is [kind, strategy, rename, target]; `rename` is    *)
(* rename_to and `target` the profile of an env file, Absent without one.   *)

RenameFits(a) ==
    \/ a.strategy = "rename" /\ a.rename # Absent
    \/ a.strategy \in {"abort", "skip"} /\ a.rename = Absent
    \/ a.strategy = "replace"

\* How planning fails, or "none".  Env and config plans look at the strategy
\* before they open the file, packages are opened first.
PlanError(a) ==
    IF a.kind \in {"env", "config"} /\ a.strategy = "rename" THEN "strategy"
    ELSE IF file = NoFile THEN "io"
    ELSE IF file.kind # a.kind THEN "invalid"
    ELSE IF a.kind = "env" /\ Named(a.target) = {} THEN "not_found"
    ELSE IF a.kind = "workspace"
            /\ (a.rename # Absent \/ a.strategy \notin {"abort", "replace"}) THEN "strategy"
    ELSE IF a.kind = "profile" /\ ~RenameFits(a) THEN "strategy"
    ELSE "none"

\* The password or the identity does not open the package.
Unauthenticated(a) == file # NoFile /\ a.kind \in {"profile", "workspace"}

\* The action planned for one entry of an env or config file.
EntryAction(P, x, strategy) ==
    CASE SecretsAt(P, x) = {} -> "create"
      [] SecretsAt(P, x) # {} /\ strategy = "skip" -> "skip"
      [] OTHER -> IF strategy = "replace" /\ \A s \in SecretsAt(P, x) : ~Tombstone(s)
                  THEN "append" ELSE "reject"

\* The name a profile package is imported under.
Destination(a) ==
    IF a.rename # Absent THEN a.rename ELSE CHOOSE n \in Range(file.names) : TRUE

ProfileAction(a) ==
    CASE Named(Destination(a)) = {} -> IF a.strategy = "rename" THEN "rename" ELSE "create"
      [] Named(Destination(a)) # {} /\ a.strategy \in {"skip", "replace"} -> a.strategy
      [] OTHER -> "reject"

\* workspace_is_portably_empty
PortablyEmpty == Cardinality(Profiles) = 1 /\ Secrets = {} /\ workspaces = {}

Added(is_there) == IF is_there THEN "skip" ELSE "create"

\* What a config preview shows for entries, profiles, workspaces and memberships.
ShownEntries(a) ==
    UNION {{<<"secret", n, x, EntryAction(Named(n), x, a.strategy)>> : x \in file.contents[n]} :
              n \in DOMAIN file.contents}
ShownProfiles == {<<"profile", n, n, Added(Named(n) # {})>> : n \in DOMAIN file.contents}
ShownWorkspaces == {<<"workspace", w, w, Added(w \in workspaces)>> : w \in DOMAIN file.groups}
ShownMembers ==
    UNION {{<<"membership", w, n, Added(\E p \in Named(n) : <<w, p>> \in members)>> :
               n \in file.groups[w]} : w \in DOMAIN file.groups}

\* What the preview shows: resource, its names and the action planned for it.
View(a) ==
    CASE a.kind = "env" ->
           {<<"secret", a.target, x, EntryAction(Named(a.target), x, a.strategy)>> :
               x \in Range(file.entries)}
      [] a.kind = "config" -> ShownEntries(a) \cup ShownProfiles \cup ShownWorkspaces \cup ShownMembers
      [] a.kind = "profile" -> {<<"profile", Destination(a), Destination(a), ProfileAction(a)>>}
      [] a.kind = "workspace" ->
           IF a.strategy = "abort" /\ ~PortablyEmpty
           THEN {<<"workspace", "destination", "destination", "reject">>} ELSE {}

Rejected(a) == \E v \in View(a) : v[4] = "reject"

Preview(a) ==
    /\ session = "open"
    /\ \/ PlanError(a) # "none" /\ Refuses(PlanError(a))
       \/ Unauthenticated(a) /\ Refuses("auth")
       \/ /\ PlanError(a) = "none"
          /\ plan' = [args |-> a, known |-> Known, shown |-> View(a), used |-> FALSE]
          /\ Answer("ok")
          /\ UNCHANGED <<session, loaded, profiles, secrets, groups, file, packages>>

-----------------------------------------------------------------------------
(* Commits.                                                                *)

\* The planned actions as they are hashed: an env plan leaves out its profile and
\* the entries that meet nothing.
Hashed(a, view) ==
    IF a.kind = "env" THEN {<<v[3], v[4]>> : v \in {u \in view : u[4] # "create"}} ELSE view

\* Mutant: the request itself is not hashed.
Matches_ActionsOnly(a) ==
    /\ plan # NoPlan
    /\ plan.known = Known
    /\ Hashed(plan.args, plan.shown) = Hashed(a, View(a))

\* The hash of the plan rebuilt now is the client's.
Matches(a) ==
    /\ plan # NoPlan
    /\ plan.args = a
    /\ plan.known = Known
    /\ Hashed(a, plan.shown) = Hashed(a, View(a))

\* A batch that adds secrets, keys K = <<profile, name>> under the ids f[k], and
\* a version to each secret of A, over the profiles P and their names.
Adds(K, f, A) ==
    /\ \A s \in A : current[s] < MaxVersion
    /\ LET S == {f[k] : k \in K}
           key == [s \in S |-> CHOOSE k \in K : f[k] = s]
       IN  /\ owner' = [s \in Sid |-> IF s \in S THEN key[s][1] ELSE owner[s]]
           /\ sname' = [s \in Sid |-> IF s \in S THEN key[s][2] ELSE sname[s]]
           /\ current' = [s \in Sid |-> IF s \in S \cup A THEN current[s] + 1 ELSE current[s]]
           /\ versions' = [s \in Sid |-> IF s \in S \cup A THEN versions[s] \cup {current[s] + 1}
                                         ELSE versions[s]]
           /\ drawnSecrets' = drawnSecrets \cup S
    /\ UNCHANGED rules

Injections(K, X) == {f \in [K -> X] : IsInjective(f)}

\* The names an env file plans to create, once for every entry.
Creates(a, i) == EntryAction(Named(a.target), file.entries[i], a.strategy) = "create"
Twice(a) ==
    \E i, j \in DOMAIN file.entries :
        i # j /\ file.entries[i] = file.entries[j]
        /\ EntryAction(Named(a.target), file.entries[i], a.strategy) \in {"create", "append"}

\* commit_env_import, once the plan stands: an entry that comes twice breaks the
\* unique name, or the compare-and-set of the version, and the whole batch.
CommitEnv(a) ==
    \/ Twice(a) /\ Ends("corrupt")
    \/ \E p \in Named(a.target) :
          LET K == {<<p, file.entries[i]>> : i \in {j \in DOMAIN file.entries : Creates(a, j)}}
              A == {s \in Secrets : <<"secret", a.target, sname[s], "append">> \in View(a)
                                    /\ owner[s] = p}
          IN  /\ ~Twice(a)
              /\ \E f \in Injections(K, Sid \ (drawnSecrets \cup PackageIds)) : Adds(K, f, A)
              /\ Answer("ok")
              /\ UNCHANGED <<session, loaded, profiles, groups>>

\* commit_config_import: profiles and workspaces the file names are created, none
\* is replaced or removed, and no profile starts with the vault.
CommitConfig(a) ==
    LET missing == {n \in DOMAIN file.contents : Named(n) = {}}
    IN  \E g \in Injections(missing, Pid \ (drawn \cup PackageIds)) :
          LET place(n) == IF n \in missing THEN g[n] ELSE CHOOSE p \in Named(n) : TRUE
              born(p) == CHOOSE n \in missing : g[n] = p
              With(act) == {v \in View(a) : v[1] = "secret" /\ v[4] = act}
              K == {<<place(v[2]), v[3]>> : v \in With("create")}
              A == UNION {SecretsAt(Named(v[2]), v[3]) : v \in With("append")}
          IN  /\ pname' = [p \in Pid |-> IF p \in Range(g) THEN born(p) ELSE pname[p]]
              /\ desc' = [p \in Pid |-> IF p \in Range(g) THEN file.descs[born(p)] ELSE desc[p]]
              /\ drawn' = drawn \cup Range(g)
              /\ \E f \in Injections(K, Sid \ (drawnSecrets \cup PackageIds)) : Adds(K, f, A)
              /\ workspaces' = workspaces \cup DOMAIN file.groups
              /\ members' = members \cup
                    UNION {{w} \X {place(n) : n \in file.groups[w]} : w \in DOMAIN file.groups}
              /\ Answer("ok")
              /\ UNCHANGED <<session, loaded, auto>>

\* The secrets of the package in place of those of `gone`: id t(s) in profile q(p).
Brings(gone, t, q) ==
    LET S == DOMAIN file.owners
        source == [s \in {t[s] : s \in S} |-> CHOOSE i \in S : t[i] = s]
        New(s, row, old, none) == IF s \in DOMAIN source THEN row[source[s]]
                                  ELSE IF s \in gone THEN none ELSE old[s]
    IN  /\ owner' = [s \in Sid |-> IF s \in DOMAIN source THEN q[file.owners[source[s]]]
                                   ELSE IF s \in gone THEN Absent ELSE owner[s]]
        /\ sname' = [s \in Sid |-> New(s, file.labels, sname, Absent)]
        /\ current' = [s \in Sid |-> New(s, file.lasts, current, 0)]
        /\ versions' = [s \in Sid |-> IF s \in DOMAIN source THEN 1 .. file.lasts[source[s]]
                                      ELSE IF s \in gone THEN {} ELSE versions[s]]
        /\ drawnSecrets' = drawnSecrets \cup DOMAIN source

\* Mutant: the rules of the deleted secrets are not looked for.
DeletionRefused_Never(gone) == FALSE

\* The foreign key of secret_http_access refuses to delete a secret with a rule.
DeletionRefused(gone) == gone \cap rules # {}

\* commit_loaded_package of a profile package.  Ids come from the package and the
\* destination's name, so importing it twice can meet rows of the first import;
\* and a rule on a secret that is replaced refuses its deletion.
CommitProfile(a) ==
    LET n == Destination(a)
        source == CHOOSE p \in DOMAIN file.names : TRUE
        target == IF Named(n) = {} THEN Remap(file.id, n, source) ELSE CHOOSE p \in Named(n) : TRUE
        t == [s \in DOMAIN file.owners |-> Remap(file.id, n, s)]
        gone == IF Named(n) = {} THEN {} ELSE {s \in Secrets : owner[s] = target}
        refused == \/ Named(n) = {} /\ target \in Profiles
                   \/ Range(t) \cap (Secrets \ gone) # {}
                   \/ DeletionRefused(gone)
    IN  \/ ProfileAction(a) = "skip" /\ Ends("ok")
        \/ ProfileAction(a) # "skip" /\ refused /\ Ends("corrupt")
        \/ /\ ProfileAction(a) # "skip"
           /\ ~refused
           /\ pname' = [pname EXCEPT ![target] = n]
           /\ desc' = [desc EXCEPT ![target] = file.descs[source]]
           /\ drawn' = drawn \cup {target}
           /\ Brings(gone, t, [p \in {source} |-> target])
           /\ Answer("ok")
           /\ UNCHANGED <<session, loaded, auto, rules, groups>>

\* Mutant: the rules of secrets that come back are kept.
RulesAfterReset_Kept == rules \cap DOMAIN file.owners

\* apply_import_reset empties secret_http_access with the other tables.
RulesAfterReset == {}

\* Mutant: memberships keep the profile ids of the package.
ImportedMembers_Unmapped(q) == file.members

ImportedMembers(q) == {<<m[1], q[m[2]]>> : m \in file.members}

\* commit_loaded_package of a workspace package: every table is replaced, the base
\* profile of the package becomes the one that is here, other ids are kept.
CommitWorkspace ==
    LET P == DOMAIN file.names
        q == [p \in P |-> IF p = file.base THEN Base ELSE p]
        source(p) == CHOOSE i \in P : q[i] = p
    IN  /\ pname' = [p \in Pid |-> IF p \in Range(q) THEN file.names[source(p)] ELSE Absent]
        /\ desc' = [p \in Pid |-> IF p \in Range(q) THEN file.descs[source(p)] ELSE NoDesc]
        /\ auto' = {q[p] : p \in file.auto}
        /\ drawn' = drawn \cup Range(q)
        /\ Brings(Secrets, [s \in DOMAIN file.owners |-> s], q)
        /\ rules' = RulesAfterReset
        /\ workspaces' = file.groups
        /\ members' = ImportedMembers(q)
        /\ Answer("ok")
        /\ UNCHANGED <<session, loaded>>

Apply(a) ==
    \/ a.kind = "env" /\ CommitEnv(a)
    \/ a.kind = "config" /\ CommitConfig(a)
    \/ a.kind = "profile" /\ CommitProfile(a)
    \/ a.kind = "workspace" /\ CommitWorkspace

\* The plan after the commit of request a: `used` if that was all that happened
\* to the vault since the preview.  A replacement writes every row it keeps.
Spent(a) ==
    LET rewrites == \/ a.kind = "workspace"
                    \/ a.kind = "profile" /\ ProfileAction(a) = "replace"
    IN  plan' = IF Written(plan.known) \/ (rewrites /\ result' = "ok") THEN NoPlan
                ELSE [plan EXCEPT !.used = @ \/ result' = "ok"]

CommitImport(a) ==
    /\ session = "open"
    /\ \/ PlanError(a) # "none" /\ Refuses(PlanError(a))
       \/ Unauthenticated(a) /\ Refuses("auth")
       \/ PlanError(a) = "none" /\ ~Matches(a) /\ Refuses("stale")
       \/ PlanError(a) = "none" /\ Matches(a) /\ Rejected(a) /\ Refuses("conflict")
       \/ /\ PlanError(a) = "none"
          /\ Matches(a)
          /\ ~Rejected(a)
          /\ Apply(a)
          /\ Spent(a)
          /\ UNCHANGED <<file, packages>>

-----------------------------------------------------------------------------
\* Env files written by hand, with one name in two spellings.
HandWritten == {[kind |-> "env", entries |-> <<x, x>>] : x \in SName}

\* The operations that change tables go on; the loaded set and the lock matter to
\* no export or import.  Random ids are not those of packages.
LocalStep ==
    /\ \/ \E n \in PName :
             \/ \E w \in WName \cup {Absent} : CreateProfile(n, w)
             \/ \E d \in Desc, flag \in {"keep", "on", "off"} : UpdateProfile(n, d, flag)
             \/ \E m \in PName : RenameProfile(n, m)
             \/ DeleteProfile(n)
       \/ \E w \in WName :
             \/ CreateWorkspace(w)
             \/ \E n \in PName : BindProfile(w, n) \/ UnbindProfile(w, n)
             \/ DeleteWorkspace(w)
       \/ \E n \in PName, x \in SName :
             \/ CreateSecret(n, x)
             \/ \E y \in SName : RenameSecret(n, x, y)
             \/ SetSecretValue(n, x)
             \/ DeleteSecret(n, x)
             \/ TombstoneSecret(n, x)
             \/ SetHttpAccess(n, x)
             \/ RemoveHttpAccess(n, x)
    /\ (drawn' \cup drawnSecrets') \cap PackageIds \subseteq drawn \cup drawnSecrets
    /\ Aged
    /\ UNCHANGED <<file, packages>>

FileStep ==
    \/ \E kind \in {"profile", "workspace"}, n \in PName : ExportPackage(kind, n)
    \/ \E n \in PName : ExportPlaintextEnv(n)
    \/ ExportConfig("vault", Absent, Absent)
    \/ \E n \in PName : ExportConfig("profile", n, Absent)
    \/ \E w \in WName : ExportConfig("workspace", Absent, w)
    \/ \E f \in Foreign \cup HandWritten : ReceiveFile(f)
    \/ RemoveFile

ImportStep == \E a \in Requests : Preview(a) \/ CommitImport(a)

ImportNext == LocalStep \/ FileStep \/ ImportStep

ImportSpec == ImportInit /\ [][ImportNext]_importVars

-----------------------------------------------------------------------------
(* Properties.                                                             *)

Rows == <<pname, desc, auto, owner, sname, current, versions, groups>>

\* What a commit did to the vault, said as a preview says it.
Changes ==
    {<<"secret", pname'[owner'[s]], sname'[s], "create">> : s \in Secrets' \ Secrets}
    \cup {<<"secret", pname[owner[s]], sname[s], "append">> :
             s \in {t \in Secrets : current'[t] = current[t] + 1}}
    \cup {<<"profile", pname'[p], pname'[p], "create">> : p \in Profiles' \ Profiles}
    \cup {<<"workspace", w, w, "create">> : w \in workspaces' \ workspaces}
    \cup {<<"membership", m[1], pname'[m[2]], "create">> : m \in members' \ members}

\* Nothing that was there is gone or renamed.
OnlyAdds ==
    /\ \A p \in Profiles : ProfileRow(p)' = ProfileRow(p)
    /\ \A s \in Secrets : owner'[s] = owner[s] /\ sname'[s] = sname[s]
                          /\ versions[s] \subseteq versions'[s]
    /\ workspaces \subseteq workspaces' /\ members \subseteq members'

\* Outside the profile called n every row is as it was.
OnlyInside(n) ==
    /\ \A p \in Profiles \cup Profiles' :
          pname[p] # n /\ pname'[p] # n => ProfileRow(p)' = ProfileRow(p)
    /\ \A s \in Secrets \cup Secrets' :
          \/ SecretRow(s)' = SecretRow(s)
          \/ s \in Secrets => pname[owner[s]] = n
    /\ \A s \in Secrets' : SecretRow(s)' # SecretRow(s) => pname'[owner'[s]] = n
    /\ UNCHANGED <<auto, groups>>

\* A commit does what its preview showed (ADR 0011), though the vault and the
\* file may have changed in between: an env or config import makes exactly the
\* entries shown as created or appended and loses nothing, a profile import
\* touches the profile it named only.
PreviewBinds ==
    [][Rows' # Rows => \A a \in Requests : CommitImport(a) =>
          /\ a.kind \in {"env", "config"} =>
                /\ Changes = {v \in plan.shown : v[4] \in {"create", "append"}}
                /\ OnlyAdds
          /\ a.kind = "profile" => \A v \in plan.shown : OnlyInside(v[2])]_importVars

\* A client that does not know whether its commit went through may send it again:
\* a plan that was committed changes the vault no second time.
NoBlindRepeat ==
    [][plan # NoPlan /\ plan.used /\ Rows' # Rows =>
          \A a \in Requests : ~CommitImport(a)]_importVars

\* An imported workspace package restores what was exported: the same profiles,
\* secrets with their histories, tombstones and groups, by name.
Content(names, descs, starts, owners, labels, lasts, groupNames, grouped) ==
    [profiles |-> {<<names[p], descs[p], p \in starts>> : p \in DOMAIN names},
     secrets |-> {<<names[owners[s]], labels[s], lasts[s]>> : s \in DOMAIN owners},
     groups |-> groupNames,
     members |-> {<<m[1], names[m[2]]>> : m \in {k \in grouped : k[2] \in DOMAIN names}}]

Restores ==
    [][\A a \in Requests : Rows' # Rows /\ a.kind = "workspace" /\ CommitImport(a) =>
          Content(Restrict(pname', Profiles'), desc', auto', Restrict(owner', Secrets'), sname',
                  current', workspaces', members')
          = Content(file.names, file.descs, file.auto, file.owners, file.labels, file.lasts,
                    file.groups, file.members)]_importVars

\* A permission to send a secret over HTTP is never imported and never passes
\* to other values: a rule that outlasts a step still belongs to the versions
\* it was set for, unless the profile's owner made the secret a tombstone.
RulesStayWithValues ==
    [][\A s \in rules \cap rules' :
          \/ Tombstone(s)'
          \/ owner'[s] = owner[s] /\ versions[s] \subseteq versions'[s]]_importVars

\* The whole vault can be exported whenever it is open.
WholeVaultExports == session = "open" => PayloadAccepted("workspace")

-----------------------------------------------------------------------------
(* The inductive invariant.                                                *)

\* What a file can be: an env file, a config document or a package.
Readable(f) ==
    \/ f.kind = "env" /\ Range(f.entries) \subseteq SName
    \/ /\ f.kind = "config"
       /\ DOMAIN f.contents \subseteq PName /\ DOMAIN f.groups \subseteq WName
       /\ \A n \in DOMAIN f.contents : f.contents[n] \subseteq SName /\ f.descs[n] \in Desc
       /\ \A w \in DOMAIN f.groups : f.groups[w] \subseteq DOMAIN f.contents
    \/ Packaged(f)

\* While a plan is held its file is there, and an env preview shows one action for each
\* name of it.
EntryActions == {"create", "skip", "append", "reject"}
PlanFits ==
    plan # NoPlan =>
        /\ plan \in [args : Requests, known : {plan.known}, shown : {plan.shown}, used : BOOLEAN]
        /\ file # NoFile /\ file.kind = plan.args.kind
        /\ plan.args.kind = "env" =>
              \E act \in [Range(file.entries) -> EntryActions] :
                  plan.shown = {<<"secret", plan.args.target, x, act[x]>> : x \in Range(file.entries)}

\* A plan that was committed no longer matches, or has nothing left to do.
NothingLeft ==
    plan # NoPlan /\ plan.used =>
        /\ plan.args.kind # "workspace"
        /\ plan.known = Known => \A v \in plan.shown : v[4] = "skip"

\* Every row of a secret has a name.
NamedSecrets == \A s \in Secrets : sname[s] \in SName

\* Whatever is imported, in whatever order, the vault stays sound: what the integrity
\* check demands holds, and the base profile exists, starts with the vault and is loaded
\* (apply_import_batch is one transaction).  The rest is what that and the properties
\* above rest on: no step leads out of it.
ImportInv ==
    /\ VaultInv /\ NamedSecrets
    /\ packages \in 0 .. MaxPackages
    /\ file = NoFile \/ Readable(file)
    /\ PlanFits /\ NothingLeft
=============================================================================
