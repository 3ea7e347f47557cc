--------------------------- MODULE Import_proofs ---------------------------
(***************************************************************************)
(* Proofs about Import for every vault, every set of requests and foreign  *)
(* packages and every number of exports: the inductive invariant ImportInv *)
(* and, from it, the four action properties of imports.                    *)
(*                                                                         *)
(* An env or config commit is one batch of new secrets and new versions    *)
(* (Addition); a package commit puts the secrets of the package in place   *)
(* of others (Swapped).  What both do to the vault is proved once, as are  *)
(* the ways a preview is read (View, Hashed); each commit then follows     *)
(* from the batch or the replacement it makes.                             *)
(***************************************************************************)
EXTENDS Import, Vault_proofs

\* Work on the vault between imports is work Vault knows.
LEMMA LocalIsNext == LocalStep => Next
<1>1. ASSUME NEW n \in PName,
             \/ \E w \in WName \cup {Absent} : CreateProfile(n, w)
             \/ \E d \in Desc, flag \in {"keep", "on", "off"} : UpdateProfile(n, d, flag)
             \/ \E m \in PName : RenameProfile(n, m)
             \/ DeleteProfile(n)
      PROVE  ProfileStep
  BY <1>1 DEF ProfileStep
<1>2. ASSUME NEW w \in WName,
             \/ CreateWorkspace(w)
             \/ \E n \in PName : BindProfile(w, n) \/ UnbindProfile(w, n)
             \/ DeleteWorkspace(w)
      PROVE  WorkspaceStep
  BY <1>2 DEF WorkspaceStep
<1>3. ASSUME NEW n \in PName, NEW x \in SName,
             \/ CreateSecret(n, x)
             \/ \E y \in SName : RenameSecret(n, x, y)
             \/ SetSecretValue(n, x)
             \/ DeleteSecret(n, x)
             \/ TombstoneSecret(n, x)
             \/ SetHttpAccess(n, x)
             \/ RemoveHttpAccess(n, x)
      PROVE  SecretStep
  BY <1>3 DEF SecretStep
<1> QED
  BY <1>1, <1>2, <1>3 DEF LocalStep, Next

ProfilesSound ==
    /\ session \in Session /\ loaded \subseteq Pid
    /\ pname \in [Pid -> PName \cup {Absent}] /\ desc \in [Pid -> Desc]
    /\ drawn \subseteq Pid
    /\ \A p, q \in Profiles : pname[p] = pname[q] => p = q
    /\ BaseUnderlay
    /\ Profiles \cup loaded \subseteq drawn
    /\ auto \subseteq Profiles

SecretsSound ==
    /\ owner \in [Sid -> Pid \cup {Absent}] /\ sname \in [Sid -> SName \cup {Absent}]
    /\ current \in [Sid -> Nat] /\ versions \in [Sid -> SUBSET Nat]
    /\ drawnSecrets \subseteq Sid
    /\ \A s, t \in Secrets : owner[s] = owner[t] /\ sname[s] = sname[t] => s = t
    /\ \A s \in Secrets : owner[s] \in Profiles
    /\ rules \subseteq Secrets
    /\ VersionsContiguous
    /\ Secrets \subseteq drawnSecrets

GroupsSound == workspaces \subseteq WName /\ members \subseteq workspaces \X Profiles

\* VaultInv, table by table.
LEMMA Halves ==
  ASSUME VaultInv
  PROVE  ProfilesSound /\ SecretsSound /\ GroupsSound
<1> USE DEF VaultInv, IntegrityHolds
<1>1. ProfilesSound
  BY DEF ProfilesSound, TypeOK, UniqueNames, DrawnOnce
<1>2. SecretsSound
  BY DEF SecretsSound, TypeOK, UniqueNames, ReferencesHold, DrawnOnce
<1>3. GroupsSound
  BY DEF GroupsSound, TypeOK, ReferencesHold
<1> QED
  BY <1>1, <1>2, <1>3

\* And back again, for the next state.
LEMMA Whole ==
  ASSUME ProfilesSound', SecretsSound', GroupsSound', result' \in Success \cup Failure
  PROVE  VaultInv'
<1>1. TypeOK'
  BY DEF TypeOK, ProfilesSound, SecretsSound, GroupsSound, Profiles, Secrets
<1>2. UniqueNames' /\ VersionsContiguous' /\ BaseUnderlay' /\ DrawnOnce'
  BY DEF UniqueNames, ProfilesSound, SecretsSound, DrawnOnce
<1>3. ReferencesHold'
  BY DEF ReferencesHold, SecretsSound, GroupsSound
<1> QED
  BY <1>1, <1>2, <1>3 DEF VaultInv, IntegrityHolds

-----------------------------------------------------------------------------
(* A batch that adds secrets and versions.                                  *)

\* The keys K of new secrets are free, their ids were never drawn, and the
\* secrets A get a version.
Addition(K, f, A) ==
    /\ K \subseteq Pid \X SName
    /\ \A k \in K : SecretsAt({k[1]}, k[2]) = {}
    /\ f \in [K -> Sid \ drawnSecrets] /\ IsInjective(f)
    /\ A \subseteq Secrets
    /\ Adds(K, f, A)

\* What a batch does to the rows of secrets.
LEMMA RowsAdded ==
  ASSUME VaultInv, NEW K, NEW f, NEW A, Addition(K, f, A)
  PROVE  /\ \A k \in K : /\ f[k] \in Sid \ drawnSecrets
                         /\ owner'[f[k]] = k[1] /\ sname'[f[k]] = k[2]
         /\ \A s \in Sid : (\E k \in K : s = f[k]) \/ (owner'[s] = owner[s] /\ sname'[s] = sname[s])
         /\ \A s \in Secrets : /\ owner'[s] = owner[s] /\ sname'[s] = sname[s]
                               /\ current'[s] = IF s \in A THEN current[s] + 1 ELSE current[s]
                               /\ versions[s] \subseteq versions'[s]
         /\ Secrets' = Secrets \cup {f[k] : k \in K}
         /\ drawnSecrets' = drawnSecrets \cup {f[k] : k \in K}
         /\ rules' = rules
         /\ owner' \in [Sid -> Pid \cup {Absent}] /\ sname' \in [Sid -> SName \cup {Absent}]
         /\ current' \in [Sid -> Nat] /\ versions' \in [Sid -> SUBSET Nat]
         /\ VersionsContiguous'
<1> USE VaultAssumption
<1> DEFINE S == {f[k] : k \in K}
           key == [s \in S |-> CHOOSE k \in K : f[k] = s]
<1>1. /\ owner' = [s \in Sid |-> IF s \in S THEN key[s][1] ELSE owner[s]]
      /\ sname' = [s \in Sid |-> IF s \in S THEN key[s][2] ELSE sname[s]]
      /\ current' = [s \in Sid |-> IF s \in S \cup A THEN current[s] + 1 ELSE current[s]]
      /\ versions' = [s \in Sid |-> IF s \in S \cup A THEN versions[s] \cup {current[s] + 1}
                                    ELSE versions[s]]
      /\ drawnSecrets' = drawnSecrets \cup S /\ rules' = rules
  BY DEF Addition, Adds
<1>2. \A k \in K : f[k] \in S /\ f[k] \in Sid \ drawnSecrets /\ key[f[k]] = k
  BY DEF Addition, IsInjective
<1>3. \A s \in S : \E k \in K : s = f[k]
  OBVIOUS
<1>4. \A k \in K : k[1] \in Pid /\ k[2] \in SName
  BY DEF Addition
<1>5. \A s \in Secrets : s \notin S
  <2> HIDE DEF S, key
  <2>1. \A s \in S : s \notin drawnSecrets
    BY <1>2, <1>3
  <2> QED
    BY <2>1 DEF VaultInv, DrawnOnce
<1>6. TypeOK /\ VersionsContiguous /\ A \subseteq Secrets
  BY DEF VaultInv, IntegrityHolds, Addition
<1> HIDE DEF S, key
<1>7. /\ owner' \in [Sid -> Pid \cup {Absent}] /\ sname' \in [Sid -> SName \cup {Absent}]
      /\ current' \in [Sid -> Nat] /\ versions' \in [Sid -> SUBSET Nat]
  BY <1>1, <1>2, <1>3, <1>4, <1>6 DEF TypeOK
<1>8. VersionsContiguous'
  <2>1. ASSUME NEW s \in Sid
        PROVE  versions'[s] = 1 .. current'[s]
    <3>1. versions[s] = 1 .. current[s] /\ current[s] \in Nat
      BY <1>6 DEF VersionsContiguous, TypeOK
    <3>2. (1 .. current[s]) \cup {current[s] + 1} = 1 .. (current[s] + 1)
      BY <3>1
    <3> QED
      BY <1>1, <3>1, <3>2
  <2> QED
    BY <2>1 DEF VersionsContiguous
<1>9. \A k \in K : owner'[f[k]] = k[1] /\ sname'[f[k]] = k[2]
  BY <1>1, <1>2
<1>10. Secrets' = Secrets \cup S
  BY <1>1, <1>2, <1>3, <1>4, <1>9 DEF Secrets
<1>11. \A s \in Secrets : /\ owner'[s] = owner[s] /\ sname'[s] = sname[s]
                          /\ current'[s] = IF s \in A THEN current[s] + 1 ELSE current[s]
                          /\ versions[s] \subseteq versions'[s]
  BY <1>1, <1>5 DEF Secrets
<1>12. \A s \in Sid : (\E k \in K : s = f[k]) \/ (owner'[s] = owner[s] /\ sname'[s] = sname[s])
  BY <1>1, <1>3
<1> QED
  BY <1>1, <1>2, <1>7, <1>8, <1>9, <1>10, <1>11, <1>12 DEF S

\* A batch into profiles that exist leaves sound tables of secrets.
LEMMA AddedSound ==
  ASSUME VaultInv, NEW K, NEW f, NEW A, Addition(K, f, A),
         Profiles \subseteq Profiles', \A k \in K : k[1] \in Profiles'
  PROVE  SecretsSound'
<1>1. /\ \A k \in K : /\ f[k] \in Sid \ drawnSecrets
                      /\ owner'[f[k]] = k[1] /\ sname'[f[k]] = k[2]
      /\ \A s \in Secrets : owner'[s] = owner[s] /\ sname'[s] = sname[s]
      /\ Secrets' = Secrets \cup {f[k] : k \in K}
      /\ drawnSecrets' = drawnSecrets \cup {f[k] : k \in K}
      /\ rules' = rules
      /\ owner' \in [Sid -> Pid \cup {Absent}] /\ sname' \in [Sid -> SName \cup {Absent}]
      /\ current' \in [Sid -> Nat] /\ versions' \in [Sid -> SUBSET Nat]
      /\ VersionsContiguous'
  BY RowsAdded
<1>2. SecretsSound
  BY Halves
<1>3. \A k \in K : SecretsAt({k[1]}, k[2]) = {} /\ k = <<k[1], k[2]>>
  BY DEF Addition
<1>4. ASSUME NEW s \in Secrets', NEW t \in Secrets', owner'[s] = owner'[t], sname'[s] = sname'[t]
      PROVE  s = t
  <2>1. CASE s \in Secrets /\ t \in Secrets
    BY <1>1, <1>2, <1>4, <2>1 DEF SecretsSound
  <2>2. ASSUME NEW k \in K, NEW u \in Secrets
        PROVE  ~(owner[u] = k[1] /\ sname[u] = k[2])
    BY <1>3 DEF SecretsAt
  <2>3. ASSUME NEW k \in K, NEW l \in K, s = f[k], t = f[l]
        PROVE  s = t
    <3>1. k[1] = l[1] /\ k[2] = l[2]
      BY <1>1, <1>4, <2>3
    <3>2. k = l
      BY <1>3, <3>1
    <3> QED
      BY <2>3, <3>2
  <2> QED
    BY <1>1, <1>4, <2>1, <2>2, <2>3
<1>5. \A s \in Secrets' : owner'[s] \in Profiles'
  BY <1>1, <1>2 DEF SecretsSound
<1> QED
  BY <1>1, <1>2, <1>4, <1>5 DEF SecretsSound

-----------------------------------------------------------------------------
(* What each commit does to the vault.                                      *)

\* The actions shown for an entry of an env or config file are one of four.
LEMMA ActionOf ==
  ASSUME NEW P, NEW x, NEW strategy
  PROVE  /\ EntryAction(P, x, strategy) \in EntryActions
         /\ EntryAction(P, x, strategy) = "create" <=> SecretsAt(P, x) = {}
BY DEF EntryAction, EntryActions

\* A name belongs to one profile.
LEMMA OneName ==
  ASSUME VaultInv, NEW n
  PROVE  /\ Named(n) \subseteq Profiles /\ Named(n) \subseteq Pid
         /\ \A p \in Named(n) : Named(n) = {p} /\ pname[p] = n
BY DEF VaultInv, IntegrityHolds, UniqueNames, Named, Profiles

\* The keys of an env file's new secrets, and the secrets it gives a version.
EnvKeys(a, p) == {<<p, file.entries[i]>> : i \in {j \in DOMAIN file.entries : Creates(a, j)}}
EnvAppends(a, p) == {s \in Secrets : <<"secret", a.target, sname[s], "append">> \in View(a)
                                      /\ owner[s] = p}

\* The commit of an env file is one batch, or fails as a whole.
LEMMA EnvCommit ==
  ASSUME VaultInv, NEW a, a.kind = "env", file.kind = "env", Range(file.entries) \subseteq SName,
         CommitEnv(a)
  PROVE  \/ Ends("corrupt")
         \/ \E p \in Named(a.target) :
               \E f \in [EnvKeys(a, p) -> Sid \ (drawnSecrets \cup PackageIds)] :
                  /\ Addition(EnvKeys(a, p), f, EnvAppends(a, p))
                  /\ UNCHANGED <<session, loaded, profiles, groups>> /\ result' = "ok"
<1>1. ASSUME NEW p \in Named(a.target),
             NEW f \in Injections(EnvKeys(a, p), Sid \ (drawnSecrets \cup PackageIds)),
             Adds(EnvKeys(a, p), f, EnvAppends(a, p))
      PROVE  Addition(EnvKeys(a, p), f, EnvAppends(a, p))
  <2>1. Named(a.target) = {p} /\ p \in Pid
    BY OneName
  <2>2. \A i \in DOMAIN file.entries : file.entries[i] \in SName
    BY DEF Range
  <2>3. \A k \in EnvKeys(a, p) : /\ k \in Pid \X SName
                                 /\ SecretsAt({k[1]}, k[2]) = {}
    <3>1. ASSUME NEW i \in DOMAIN file.entries, Creates(a, i)
          PROVE  SecretsAt({p}, file.entries[i]) = {}
      <4>1. SecretsAt(Named(a.target), file.entries[i]) = {}
        BY <3>1, ActionOf DEF Creates
      <4> QED
        BY <2>1, <4>1
    <3>2. ASSUME NEW i \in DOMAIN file.entries, Creates(a, i), NEW k, k = <<p, file.entries[i]>>
          PROVE  k \in Pid \X SName /\ SecretsAt({k[1]}, k[2]) = {}
      BY <2>1, <2>2, <3>1, <3>2
    <3> QED
      BY <3>2 DEF EnvKeys
  <2>4. EnvAppends(a, p) \subseteq Secrets
    BY DEF EnvAppends
  <2> HIDE DEF EnvKeys, EnvAppends
  <2> QED
    BY <1>1, <2>3, <2>4 DEF Addition, Injections
<1> QED
  BY <1>1 DEF CommitEnv, EnvKeys, EnvAppends, Answer, Injections

\* A config document names profiles, entries and groups.
ConfigFile ==
    /\ file.kind = "config"
    /\ DOMAIN file.contents \subseteq PName /\ DOMAIN file.groups \subseteq WName
    /\ \A n \in DOMAIN file.contents : file.contents[n] \subseteq SName /\ file.descs[n] \in Desc
    /\ \A w \in DOMAIN file.groups : file.groups[w] \subseteq DOMAIN file.contents

\* Its preview, entry by entry.
EntryView(a, n, x) == <<"secret", n, x, EntryAction(Named(n), x, a.strategy)>>
ProfileView(n) == <<"profile", n, n, Added(Named(n) # {})>>
GroupView(w) == <<"workspace", w, w, Added(w \in workspaces)>>
MemberView(w, n) == <<"membership", w, n, Added(\E p \in Named(n) : <<w, p>> \in members)>>

\* Its four kinds of entries.
LEMMA ConfigView ==
  ASSUME NEW a, a.kind = "config", NEW v
  PROVE  v \in View(a) <=>
            \/ \E n \in DOMAIN file.contents : \E x \in file.contents[n] : v = EntryView(a, n, x)
            \/ \E n \in DOMAIN file.contents : v = ProfileView(n)
            \/ \E w \in DOMAIN file.groups : v = GroupView(w)
            \/ \E w \in DOMAIN file.groups : \E n \in file.groups[w] : v = MemberView(w, n)
<1>1. View(a) = ShownEntries(a) \cup ShownProfiles \cup ShownWorkspaces \cup ShownMembers
  BY DEF View
<1>2. v \in ShownEntries(a) <=>
          \E n \in DOMAIN file.contents : \E x \in file.contents[n] : v = EntryView(a, n, x)
  BY DEF ShownEntries, EntryView
<1>3. v \in ShownProfiles <=> \E n \in DOMAIN file.contents : v = ProfileView(n)
  BY DEF ShownProfiles, ProfileView
<1>4. v \in ShownWorkspaces <=> \E w \in DOMAIN file.groups : v = GroupView(w)
  BY DEF ShownWorkspaces, GroupView
<1>5. v \in ShownMembers <=>
          \E w \in DOMAIN file.groups : \E n \in file.groups[w] : v = MemberView(w, n)
  BY DEF ShownMembers, MemberView, Added
<1> QED
  BY <1>1, <1>2, <1>3, <1>4, <1>5

\* Those about secrets are the ones shown for the contents of its profiles.
LEMMA ConfigEntries ==
  ASSUME NEW a, a.kind = "config"
  PROVE  /\ \A n \in DOMAIN file.contents : \A x \in file.contents[n] : EntryView(a, n, x) \in View(a)
         /\ \A v \in View(a) : v[1] = "secret" =>
               \E n \in DOMAIN file.contents : \E x \in file.contents[n] : v = EntryView(a, n, x)
<1>1. ASSUME NEW n \in DOMAIN file.contents, NEW x \in file.contents[n]
      PROVE  EntryView(a, n, x) \in View(a)
  BY ConfigView
<1>2. ASSUME NEW v \in View(a), v[1] = "secret"
      PROVE  \E n \in DOMAIN file.contents : \E x \in file.contents[n] : v = EntryView(a, n, x)
  <2>1. \A n, w : ProfileView(n)[1] # "secret" /\ GroupView(n)[1] # "secret"
                  /\ MemberView(w, n)[1] # "secret"
    BY DEF ProfileView, GroupView, MemberView
  <2> QED
    BY <1>2, <2>1, ConfigView
<1> QED
  BY <1>1, <1>2

\* Where a commit puts the entries of profile n: a profile drawn for it, or the one there.
Missing == {n \in DOMAIN file.contents : Named(n) = {}}
Place(g, n) == IF n \in Missing THEN g[n] ELSE CHOOSE p \in Named(n) : TRUE
Planned(a, act) == {v \in View(a) : v[1] = "secret" /\ v[4] = act}
ConfigKeys(a, g) == {<<Place(g, v[2]), v[3]>> : v \in Planned(a, "create")}
ConfigAppends(a) == UNION {SecretsAt(Named(v[2]), v[3]) : v \in Planned(a, "append")}

\* The profiles a commit adds: under the ids g, one for each missing name.
NewProfiles(g) ==
    /\ g \in [Missing -> Pid \ drawn]
    /\ Profiles' = Profiles \cup Range(g)
    /\ \A p \in Pid \ Range(g) : pname'[p] = pname[p] /\ desc'[p] = desc[p]
    /\ \A p \in Profiles : pname'[p] = pname[p] /\ desc'[p] = desc[p]
    /\ \A n \in Missing : pname'[g[n]] = n
    /\ pname' \in [Pid -> PName \cup {Absent}] /\ desc' \in [Pid -> Desc]
    /\ drawn' = drawn \cup Range(g)
    /\ UNCHANGED <<session, loaded, auto>>

\* The profiles the document misses get fresh ids.
LEMMA BornProfiles ==
  ASSUME VaultInv, ConfigFile, NEW g \in Injections(Missing, Pid \ (drawn \cup PackageIds)),
         pname' = [p \in Pid |-> IF p \in Range(g) THEN CHOOSE n \in Missing : g[n] = p
                                                  ELSE pname[p]],
         desc' = [p \in Pid |-> IF p \in Range(g) THEN file.descs[CHOOSE n \in Missing : g[n] = p]
                                                 ELSE desc[p]],
         drawn' = drawn \cup Range(g),
         UNCHANGED <<session, loaded, auto>>
  PROVE  NewProfiles(g)
<1> USE VaultAssumption
<1> DEFINE born(p) == CHOOSE n \in Missing : g[n] = p
<1>1. /\ g \in [Missing -> Pid \ drawn] /\ IsInjective(g) /\ DOMAIN g = Missing
      /\ Range(g) = {g[n] : n \in Missing}
  BY DEF Injections, Range
<1>2. \A n \in Missing : born(g[n]) = n
  BY <1>1 DEF IsInjective
<1>3. Missing \subseteq PName /\ \A n \in Missing : file.descs[n] \in Desc
  BY DEF Missing, ConfigFile
<1>4. /\ pname \in [Pid -> PName \cup {Absent}] /\ desc \in [Pid -> Desc]
      /\ Profiles \subseteq drawn
  BY Halves DEF ProfilesSound
<1>5. \A p \in Pid : pname'[p] = IF p \in Range(g) THEN born(p) ELSE pname[p]
  OBVIOUS
<1>6. \A p \in Pid : desc'[p] = IF p \in Range(g) THEN file.descs[born(p)] ELSE desc[p]
  OBVIOUS
<1>7. \A p \in Range(g) : born(p) \in Missing
  BY <1>1, <1>2
<1>8. DOMAIN pname' = Pid /\ DOMAIN desc' = Pid
  OBVIOUS
<1>9. pname' \in [Pid -> PName \cup {Absent}]
  BY <1>3, <1>4, <1>7
<1>10. desc' \in [Pid -> Desc]
  BY <1>3, <1>4, <1>7
<1> HIDE DEF born
<1>11. \A n \in Missing : g[n] \in Range(g) /\ g[n] \in Pid /\ g[n] \notin drawn
  BY <1>1
<1>12. \A p \in Profiles : p \in Pid /\ p \notin Range(g)
  BY <1>1, <1>4 DEF Profiles
<1>13. Profiles' = Profiles \cup Range(g)
  <2>1. \A p \in Pid : p \in Range(g) => pname'[p] # Absent
    BY <1>3, <1>5, <1>7
  <2>2. Range(g) \subseteq Pid
    BY <1>1
  <2> QED
    BY <1>5, <1>12, <2>1, <2>2 DEF Profiles
<1> QED
  BY <1>1, <1>2, <1>5, <1>6, <1>9, <1>10, <1>11, <1>12, <1>13 DEF NewProfiles

\* Every name of the document has its place.
LEMMA Placed ==
  ASSUME VaultInv, NEW g, NewProfiles(g), NEW n \in DOMAIN file.contents
  PROVE  /\ Place(g, n) \in Profiles' /\ Place(g, n) \in Pid /\ pname'[Place(g, n)] = n
         /\ n \in Missing => Place(g, n) \notin drawn
         /\ n \notin Missing => Named(n) = {Place(g, n)}
<1>1. CASE n \in Missing
  BY <1>1 DEF Place, NewProfiles, Range
<1>2. CASE n \notin Missing
  <2>1. Named(n) # {} /\ Place(g, n) = CHOOSE p \in Named(n) : TRUE
    BY <1>2 DEF Missing, Place
  <2>2. Place(g, n) \in Named(n)
    BY <2>1
  <2>3. Named(n) = {Place(g, n)} /\ pname[Place(g, n)] = n /\ Place(g, n) \in Profiles
    BY <2>2, OneName
  <2> QED
    BY <1>2, <2>3 DEF NewProfiles, Profiles
<1> QED
  BY <1>1, <1>2

\* The commit of a config document is new profiles and one batch.
LEMMA ConfigCommit ==
  ASSUME VaultInv, ConfigFile, NEW a, a.kind = "config", CommitConfig(a)
  PROVE  \E g, f :
            /\ NewProfiles(g)
            /\ Addition(ConfigKeys(a, g), f, ConfigAppends(a))
            /\ workspaces' = workspaces \cup DOMAIN file.groups
            /\ members' = members \cup
                   UNION {{w} \X {Place(g, n) : n \in file.groups[w]} : w \in DOMAIN file.groups}
            /\ result' = "ok"
<1>1. PICK g \in Injections(Missing, Pid \ (drawn \cup PackageIds)) :
         /\ pname' = [p \in Pid |-> IF p \in Range(g) THEN CHOOSE n \in Missing : g[n] = p
                                                      ELSE pname[p]]
         /\ desc' = [p \in Pid |-> IF p \in Range(g)
                                    THEN file.descs[CHOOSE n \in Missing : g[n] = p]
                                    ELSE desc[p]]
         /\ drawn' = drawn \cup Range(g)
         /\ \E f \in Injections(ConfigKeys(a, g), Sid \ (drawnSecrets \cup PackageIds)) :
                Adds(ConfigKeys(a, g), f, ConfigAppends(a))
         /\ workspaces' = workspaces \cup DOMAIN file.groups
         /\ members' = members \cup
                UNION {{w} \X {Place(g, n) : n \in file.groups[w]} : w \in DOMAIN file.groups}
         /\ result' = "ok"
         /\ UNCHANGED <<session, loaded, auto>>
  BY DEF CommitConfig, Missing, Place, ConfigKeys, ConfigAppends, Planned, Answer
<1>2. NewProfiles(g)
  BY <1>1, BornProfiles
<1>3. PICK f \in Injections(ConfigKeys(a, g), Sid \ (drawnSecrets \cup PackageIds)) :
         Adds(ConfigKeys(a, g), f, ConfigAppends(a))
  BY <1>1
<1>4. ASSUME NEW v \in Planned(a, "create")
      PROVE  /\ Place(g, v[2]) \in Pid /\ v[3] \in SName
             /\ SecretsAt({Place(g, v[2])}, v[3]) = {}
  <2>0. PICK n \in DOMAIN file.contents : \E x \in file.contents[n] : v = EntryView(a, n, x)
    BY <1>4, ConfigEntries DEF Planned
  <2>1. PICK x \in file.contents[n] : v = EntryView(a, n, x)
    BY <2>0
  <2>2. v[2] = n /\ v[3] = x /\ EntryAction(Named(n), x, a.strategy) = "create" /\ x \in SName
    BY <1>4, <2>1 DEF Planned, EntryView, ConfigFile
  <2>3. SecretsAt(Named(n), x) = {}
    BY <2>2, ActionOf
  <2>4. /\ Place(g, n) \in Pid
        /\ n \in Missing => Place(g, n) \notin drawn
        /\ n \notin Missing => Named(n) = {Place(g, n)}
    BY <1>2, Placed
  <2>5. CASE n \in Missing
    <3>1. \A s \in Secrets : owner[s] \in drawn
      BY Halves DEF SecretsSound, ProfilesSound
    <3> QED
      BY <2>2, <2>4, <2>5, <3>1 DEF SecretsAt
  <2>6. CASE n \notin Missing
    BY <2>2, <2>3, <2>4, <2>6
  <2> QED
    BY <2>5, <2>6
<1>5. \A k \in ConfigKeys(a, g) : k \in Pid \X SName /\ SecretsAt({k[1]}, k[2]) = {}
  BY <1>4 DEF ConfigKeys
<1>6. ConfigAppends(a) \subseteq Secrets
  BY DEF ConfigAppends, SecretsAt
<1>7. Addition(ConfigKeys(a, g), f, ConfigAppends(a))
  BY <1>3, <1>5, <1>6 DEF Addition, Injections
<1> QED
  BY <1>1, <1>2, <1>7

-----------------------------------------------------------------------------
(* Every commit keeps the vault sound.                                      *)

\* An env import.
LEMMA EnvKeeps ==
  ASSUME VaultInv, NEW a, a.kind = "env", file.kind = "env", Range(file.entries) \subseteq SName,
         CommitEnv(a)
  PROVE  VaultInv'
<1>1. CASE Ends("corrupt")
  BY <1>1, EndsInv DEF Failure
<1>2. ASSUME NEW p \in Named(a.target), NEW f, Addition(EnvKeys(a, p), f, EnvAppends(a, p)),
             UNCHANGED <<session, loaded, profiles, groups>>, result' = "ok"
      PROVE  VaultInv'
  <2>1. Profiles' = Profiles /\ UNCHANGED <<pname, auto, desc, drawn, workspaces, members>>
    BY <1>2 DEF Profiles, profiles, groups
  <2>2. ProfilesSound /\ GroupsSound
    BY Halves
  <2>3. ProfilesSound'
    BY <1>2, <2>1, <2>2 DEF ProfilesSound, BaseUnderlay
  <2>4. GroupsSound'
    BY <2>1, <2>2 DEF GroupsSound
  <2>5. \A k \in EnvKeys(a, p) : k[1] \in Profiles'
    BY <2>1, OneName DEF EnvKeys
  <2>6. SecretsSound'
    BY <1>2, <2>1, <2>5, AddedSound
  <2> QED
    BY <1>2, <2>3, <2>4, <2>6, Whole DEF Success
<1> QED
  BY <1>1, <1>2, EnvCommit

\* A config import.
LEMMA ConfigKeeps ==
  ASSUME VaultInv, ConfigFile, NEW a, a.kind = "config", CommitConfig(a)
  PROVE  VaultInv'
<1> PICK g, f :
       /\ NewProfiles(g)
       /\ Addition(ConfigKeys(a, g), f, ConfigAppends(a))
       /\ workspaces' = workspaces \cup DOMAIN file.groups
       /\ members' = members \cup
              UNION {{w} \X {Place(g, n) : n \in file.groups[w]} : w \in DOMAIN file.groups}
       /\ result' = "ok"
  BY ConfigCommit
<1>1. ProfilesSound /\ GroupsSound
  BY Halves
<1>2. ProfilesSound'
  <2>1. ASSUME NEW p \in Profiles', NEW q \in Profiles', pname'[p] = pname'[q]
        PROVE  p = q
    <3>1. \A n \in Missing : \A r \in Profiles : pname[r] # n
      BY DEF Missing, Named
    <3>2. \A r \in Profiles' : r \in Profiles \/ \E n \in Missing : r = g[n]
      BY DEF NewProfiles, Range
    <3> QED
      BY <1>1, <2>1, <3>1, <3>2 DEF NewProfiles, ProfilesSound
  <2>2. Profiles \subseteq Profiles' /\ Profiles' \cup loaded' \subseteq drawn'
    BY <1>1 DEF NewProfiles, ProfilesSound
  <2>3. drawn' \subseteq Pid
    BY <1>1 DEF NewProfiles, ProfilesSound, Range
  <2> QED
    BY <1>1, <2>1, <2>2, <2>3 DEF NewProfiles, ProfilesSound, BaseUnderlay
<1>3. GroupsSound'
  <2>1. \A w \in DOMAIN file.groups : w \in WName /\ \A n \in file.groups[w] : Place(g, n) \in Profiles'
    BY Placed DEF ConfigFile
  <2>2. ASSUME NEW m \in members'
        PROVE  m \in workspaces' \X Profiles'
    <3>1. CASE m \in members
      BY <1>1, <3>1 DEF GroupsSound, NewProfiles
    <3>2. CASE m \notin members
      BY <2>1, <3>2
    <3> QED
      BY <3>1, <3>2
  <2> QED
    BY <1>1, <2>1, <2>2 DEF GroupsSound
<1>4. \A k \in ConfigKeys(a, g) : k[1] \in Profiles'
  <2>1. ASSUME NEW v \in Planned(a, "create")
        PROVE  v[2] \in DOMAIN file.contents
    BY ConfigEntries DEF Planned, EntryView
  <2> QED
    BY <2>1, Placed DEF ConfigKeys
<1>5. SecretsSound'
  BY <1>4, AddedSound DEF NewProfiles
<1> QED
  BY <1>2, <1>3, <1>5, Whole DEF Success

-----------------------------------------------------------------------------
(* Packages.                                                                *)

\* The rows after the secrets of a package came, renumbered by t and moved by q, in
\* place of those of `gone`.
Swapped(gone, t, q) ==
    /\ \A u \in Range(t) : \E s \in DOMAIN file.owners :
          /\ t[s] = u
          /\ owner'[u] = q[file.owners[s]] /\ sname'[u] = file.labels[s]
          /\ current'[u] = file.lasts[s] /\ versions'[u] = 1 .. file.lasts[s]
    /\ \A u \in Sid \ Range(t) : u \in gone =>
          owner'[u] = Absent /\ sname'[u] = Absent /\ current'[u] = 0 /\ versions'[u] = {}
    /\ \A u \in Sid \ Range(t) : u \notin gone =>
          /\ owner'[u] = owner[u] /\ sname'[u] = sname[u]
          /\ current'[u] = current[u] /\ versions'[u] = versions[u]
    /\ drawnSecrets' = drawnSecrets \cup Range(t) /\ Range(t) \subseteq Sid

\* Brings, row by row.
LEMMA Brought ==
  ASSUME NEW gone, NEW t \in [DOMAIN file.owners -> Sid], NEW q, Brings(gone, t, q)
  PROVE  Swapped(gone, t, q)
<1> DEFINE S == DOMAIN file.owners
           T == {t[s] : s \in S}
           source == [u \in T |-> CHOOSE i \in S : t[i] = u]
<1>1. /\ owner' = [s \in Sid |-> IF s \in T THEN q[file.owners[source[s]]]
                                 ELSE IF s \in gone THEN Absent ELSE owner[s]]
      /\ sname' = [s \in Sid |-> IF s \in T THEN file.labels[source[s]]
                                 ELSE IF s \in gone THEN Absent ELSE sname[s]]
      /\ current' = [s \in Sid |-> IF s \in T THEN file.lasts[source[s]]
                                   ELSE IF s \in gone THEN 0 ELSE current[s]]
      /\ versions' = [s \in Sid |-> IF s \in T THEN 1 .. file.lasts[source[s]]
                                    ELSE IF s \in gone THEN {} ELSE versions[s]]
      /\ drawnSecrets' = drawnSecrets \cup T
  BY DEF Brings
<1>2. T = Range(t) /\ T \subseteq Sid
  BY DEF Range
<1>3. \A u \in T : source[u] \in S /\ t[source[u]] = u
  OBVIOUS
<1> HIDE DEF T, source
<1> QED
  BY <1>1, <1>2, <1>3 DEF Swapped

\* They are tables of secrets again when each row is right.
LEMMA BroughtTyped ==
  ASSUME NEW gone, NEW t, NEW q, Brings(gone, t, q),
         \A u \in Sid : /\ owner'[u] \in Pid \cup {Absent} /\ sname'[u] \in SName \cup {Absent}
                       /\ current'[u] \in Nat /\ versions'[u] \in SUBSET Nat
  PROVE  /\ owner' \in [Sid -> Pid \cup {Absent}] /\ sname' \in [Sid -> SName \cup {Absent}]
         /\ current' \in [Sid -> Nat] /\ versions' \in [Sid -> SUBSET Nat]
<1> DEFINE S == DOMAIN file.owners
           T == {t[s] : s \in S}
           source == [u \in T |-> CHOOSE i \in S : t[i] = u]
<1>1. /\ owner' = [s \in Sid |-> IF s \in T THEN q[file.owners[source[s]]]
                                 ELSE IF s \in gone THEN Absent ELSE owner[s]]
      /\ sname' = [s \in Sid |-> IF s \in T THEN file.labels[source[s]]
                                 ELSE IF s \in gone THEN Absent ELSE sname[s]]
      /\ current' = [s \in Sid |-> IF s \in T THEN file.lasts[source[s]]
                                   ELSE IF s \in gone THEN 0 ELSE current[s]]
      /\ versions' = [s \in Sid |-> IF s \in T THEN 1 .. file.lasts[source[s]]
                                    ELSE IF s \in gone THEN {} ELSE versions[s]]
  BY DEF Brings
<1> HIDE DEF T, source
<1>2. owner' \in [Sid -> Pid \cup {Absent}]
  BY <1>1
<1>3. sname' \in [Sid -> SName \cup {Absent}]
  BY <1>1
<1>4. current' \in [Sid -> Nat]
  BY <1>1
<1>5. versions' \in [Sid -> SUBSET Nat]
  BY <1>1
<1> QED
  BY <1>2, <1>3, <1>4, <1>5

\* A profile package: where its one profile and its secrets go, and what they replace.
Source == CHOOSE p \in DOMAIN file.names : TRUE
Target(a) == IF Named(Destination(a)) = {} THEN Remap(file.id, Destination(a), Source)
             ELSE CHOOSE p \in Named(Destination(a)) : TRUE
Renumbered(a) == [s \in DOMAIN file.owners |-> Remap(file.id, Destination(a), s)]
Replaced(a) == IF Named(Destination(a)) = {} THEN {} ELSE {s \in Secrets : owner[s] = Target(a)}

\* Destination, target and ids of a profile package, and the secrets it replaces.
LEMMA ProfilePackage ==
  ASSUME VaultInv, Packaged(file), file.kind = "profile", NEW a \in Requests
  PROVE  /\ Destination(a) \in PName
         /\ DOMAIN file.names = {Source} /\ Source \in Pid /\ file.descs[Source] \in Desc
         /\ Target(a) \in Pid
         /\ Named(Destination(a)) # {} => Named(Destination(a)) = {Target(a)}
         /\ Renumbered(a) \in [DOMAIN file.owners -> Sid]
         /\ Replaced(a) \subseteq Secrets
<1> USE PackageAssumption
<1>1. /\ DOMAIN file.names \subseteq Pid /\ DOMAIN file.names # {}
      /\ \A p \in DOMAIN file.names : file.names[p] \in PName /\ file.descs[p] \in Desc
      /\ \A p, q \in DOMAIN file.names : p = q
      /\ DOMAIN file.owners \subseteq Sid /\ file.id \in 0 .. MaxPackages
  BY DEF Packaged
<1>2. Source \in DOMAIN file.names
  BY <1>1 DEF Source
<1>3. DOMAIN file.names = {Source}
  BY <1>1, <1>2
<1>4. Destination(a) \in PName
  <2>1. a.rename \in PName \cup {Absent}
    BY ImportAssumption
  <2>2. Range(file.names) # {} /\ Range(file.names) \subseteq PName
    BY <1>1 DEF Range
  <2>3. (CHOOSE n \in Range(file.names) : TRUE) \in PName
    BY <2>2
  <2> QED
    BY <2>1, <2>3 DEF Destination
<1>5. Named(Destination(a)) # {} => Named(Destination(a)) = {Target(a)}
  <2>1. ASSUME Named(Destination(a)) # {}
        PROVE  Target(a) \in Named(Destination(a))
    BY <2>1 DEF Target
  <2> QED
    BY <2>1, OneName
<1>6. Target(a) \in Pid
  <2>1. CASE Named(Destination(a)) = {}
    BY <1>1, <1>2, <1>4, <2>1 DEF Target
  <2>2. CASE Named(Destination(a)) # {}
    BY <1>5, <2>2, OneName
  <2> QED
    BY <2>1, <2>2
<1>7. Renumbered(a) \in [DOMAIN file.owners -> Sid]
  BY <1>1, <1>4 DEF Renumbered
<1>8. Replaced(a) \subseteq Secrets
  BY DEF Replaced
<1> QED
  BY <1>1, <1>2, <1>3, <1>4, <1>5, <1>6, <1>7, <1>8

\* Its commit changes nothing, or puts the package in place of the profile.
LEMMA ProfileCommit ==
  ASSUME NEW a, CommitProfile(a)
  PROVE  \/ ProfileAction(a) = "skip" /\ Ends("ok")
         \/ Ends("corrupt")
         \/ /\ ProfileAction(a) # "skip"
            /\ Named(Destination(a)) = {} => Target(a) \notin Profiles
            /\ Range(Renumbered(a)) \cap (Secrets \ Replaced(a)) = {}
            /\ Replaced(a) \cap rules = {}
            /\ pname' = [pname EXCEPT ![Target(a)] = Destination(a)]
            /\ desc' = [desc EXCEPT ![Target(a)] = file.descs[Source]]
            /\ drawn' = drawn \cup {Target(a)}
            /\ Brings(Replaced(a), Renumbered(a), [p \in {Source} |-> Target(a)])
            /\ result' = "ok"
            /\ UNCHANGED <<session, loaded, auto, rules, groups>>
BY DEF CommitProfile, Source, Target, Renumbered, Replaced, DeletionRefused, Answer

\* A profile import.
LEMMA ProfileKeeps ==
  ASSUME VaultInv, Packaged(file), file.kind = "profile", NEW a \in Requests, CommitProfile(a)
  PROVE  VaultInv'
<1> USE VaultAssumption
<1>1. CASE Ends("ok") \/ Ends("corrupt")
  BY <1>1, EndsInv DEF Success, Failure
<1>2. ASSUME Named(Destination(a)) = {} => Target(a) \notin Profiles,
             Range(Renumbered(a)) \cap (Secrets \ Replaced(a)) = {},
             Replaced(a) \cap rules = {},
             pname' = [pname EXCEPT ![Target(a)] = Destination(a)],
             desc' = [desc EXCEPT ![Target(a)] = file.descs[Source]],
             drawn' = drawn \cup {Target(a)},
             Brings(Replaced(a), Renumbered(a), [p \in {Source} |-> Target(a)]),
             result' = "ok",
             UNCHANGED <<session, loaded, auto, rules, groups>>
      PROVE  VaultInv'
  <2> DEFINE n == Destination(a)
             p == Target(a)
             T == Range(Renumbered(a))
             gone == Replaced(a)
             S == DOMAIN file.owners
             q == [r \in {Source} |-> p]
  <2>1. ProfilesSound /\ SecretsSound /\ GroupsSound
    BY Halves
  <2>2. /\ n \in PName /\ p \in Pid /\ gone \subseteq Secrets
        /\ Named(n) # {} => Named(n) = {p}
        /\ file.descs[Source] \in Desc /\ DOMAIN file.names = {Source}
    BY ProfilePackage
  <2>3. Profiles' = Profiles \cup {p}
    BY <1>2, <2>1, <2>2 DEF Profiles, ProfilesSound
  <2>4. p \in Profiles => Named(n) = {p}
    BY <1>2, <2>2
  <2>5. \A r \in Profiles : r # p => pname[r] # n
    BY <2>2 DEF Named
  <2>6. ProfilesSound'
    <3>1. pname' \in [Pid -> PName \cup {Absent}] /\ desc' \in [Pid -> Desc] /\ drawn' \subseteq Pid
      BY <1>2, <2>1, <2>2 DEF ProfilesSound
    <3>2. \A r \in Pid : pname'[r] = IF r = p THEN n ELSE pname[r]
      BY <1>2, <2>1 DEF ProfilesSound
    <3>3. \A r, s \in Profiles' : pname'[r] = pname'[s] => r = s
      BY <2>1, <2>3, <2>5, <3>2 DEF ProfilesSound, Profiles
    <3> QED
      BY <1>2, <2>1, <2>3, <3>1, <3>3 DEF ProfilesSound, BaseUnderlay
  <2>7. GroupsSound'
    BY <1>2, <2>1, <2>3 DEF GroupsSound, groups
  <2>8. SecretsSound'
    <3>0. Brings(gone, Renumbered(a), q) /\ Swapped(gone, Renumbered(a), q)
      BY <1>2, Brought, ProfilePackage
    <3>1. /\ \A u \in T : \E s \in S :
                /\ Renumbered(a)[s] = u
                /\ owner'[u] = q[file.owners[s]] /\ sname'[u] = file.labels[s]
                /\ current'[u] = file.lasts[s] /\ versions'[u] = 1 .. file.lasts[s]
          /\ \A u \in Sid \ T : u \in gone =>
                owner'[u] = Absent /\ sname'[u] = Absent /\ current'[u] = 0 /\ versions'[u] = {}
          /\ \A u \in Sid \ T : u \notin gone =>
                /\ owner'[u] = owner[u] /\ sname'[u] = sname[u]
                /\ current'[u] = current[u] /\ versions'[u] = versions[u]
          /\ drawnSecrets' = drawnSecrets \cup T /\ T \subseteq Sid
      BY <3>0 DEF Swapped
    <3>2. /\ \A s \in S : /\ file.owners[s] = Source /\ file.labels[s] \in SName
                          /\ file.lasts[s] \in Nat
          /\ \A s, t \in S : file.labels[s] = file.labels[t] => s = t
      BY <2>2 DEF Packaged
    <3> HIDE DEF T, S, gone
    <3>3. \A u \in T : /\ owner'[u] = p /\ sname'[u] \in SName /\ current'[u] \in Nat
                       /\ versions'[u] = 1 .. current'[u]
      BY <3>1, <3>2
    <3>4. \A u, v \in T : sname'[u] = sname'[v] => u = v
      BY <3>1, <3>2
    <3> HIDE DEF p, n, q
    <3>5. \A u \in Sid : owner'[u] \in Pid \cup {Absent} /\ sname'[u] \in SName \cup {Absent}
                         /\ current'[u] \in Nat /\ versions'[u] \in SUBSET Nat
                         /\ versions'[u] = 1 .. current'[u]
      <4>1. ASSUME NEW u \in T
            PROVE  /\ owner'[u] \in Pid \cup {Absent} /\ sname'[u] \in SName \cup {Absent}
                   /\ current'[u] \in Nat /\ versions'[u] \in SUBSET Nat
                   /\ versions'[u] = 1 .. current'[u]
        BY <2>2, <3>3
      <4>2. ASSUME NEW u \in Sid \ T
            PROVE  /\ owner'[u] \in Pid \cup {Absent} /\ sname'[u] \in SName \cup {Absent}
                   /\ current'[u] \in Nat /\ versions'[u] \in SUBSET Nat
                   /\ versions'[u] = 1 .. current'[u]
        <5>1. /\ owner[u] \in Pid \cup {Absent} /\ sname[u] \in SName \cup {Absent}
              /\ current[u] \in Nat /\ versions[u] \in SUBSET Nat
              /\ versions[u] = 1 .. current[u]
          BY <2>1 DEF SecretsSound, VersionsContiguous
        <5>2. CASE u \in gone
          <6>1. owner'[u] = Absent /\ sname'[u] = Absent /\ current'[u] = 0 /\ versions'[u] = {}
            BY <3>1, <4>2, <5>2
          <6>2. 1 .. 0 = {} /\ 0 \in Nat
            OBVIOUS
          <6> QED
            BY <6>1, <6>2
        <5>3. CASE u \notin gone
          BY <3>1, <5>1, <5>3
        <5> QED
          BY <5>2, <5>3
      <4> QED
        BY <4>1, <4>2
    <3>11. /\ owner' \in [Sid -> Pid \cup {Absent}] /\ sname' \in [Sid -> SName \cup {Absent}]
           /\ current' \in [Sid -> Nat] /\ versions' \in [Sid -> SUBSET Nat]
      BY <3>0, <3>5, BroughtTyped
    <3>6. Secrets' = (Secrets \ gone) \cup T
      BY <2>2, <3>1, <3>3 DEF Secrets
    <3>7. \A u \in Secrets \ gone : u \notin T /\ owner[u] # p
      BY <1>2, <2>1, <2>2, <2>4 DEF SecretsSound, Replaced, T, gone, p, n
    <3>8. \A u, v \in Secrets' : owner'[u] = owner'[v] /\ sname'[u] = sname'[v] => u = v
      BY <2>1, <3>1, <3>3, <3>4, <3>6, <3>7 DEF SecretsSound, Secrets
    <3>9. \A u \in Secrets' : owner'[u] \in Profiles'
      BY <2>1, <2>3, <3>1, <3>3, <3>6, <3>7 DEF SecretsSound, Secrets
    <3>10. rules' \subseteq Secrets'
      BY <1>2, <2>1, <3>6 DEF SecretsSound, gone
    <3> QED
      BY <2>1, <3>1, <3>5, <3>6, <3>8, <3>9, <3>10, <3>11 DEF SecretsSound, VersionsContiguous
  <2> QED
    BY <1>2, <2>6, <2>7, <2>8, Whole DEF Success
<1> QED
  BY <1>1, <1>2, ProfileCommit

\* A workspace package: where its profiles go; its secrets keep their ids.
Rebased == [p \in DOMAIN file.names |-> IF p = file.base THEN Base ELSE p]
SameIds == [s \in DOMAIN file.owners |-> s]

\* Two profiles of a workspace package never meet, for only its base profile gets another id.
LEMMA WorkspacePackage ==
  ASSUME Packaged(file), file.kind = "workspace"
  PROVE  /\ Rebased \in [DOMAIN file.names -> Pid] /\ IsInjective(Rebased)
         /\ file.base \in DOMAIN file.names /\ Rebased[file.base] = Base
         /\ SameIds \in [DOMAIN file.owners -> Sid]
         /\ Range(SameIds) = DOMAIN file.owners
<1> USE VaultAssumption
<1>1. /\ DOMAIN file.names \subseteq Pid /\ file.base \in DOMAIN file.names
      /\ Base \in DOMAIN file.names => file.base = Base
      /\ DOMAIN file.owners \subseteq Sid
  BY DEF Packaged
<1>2. \A p \in DOMAIN file.names : Rebased[p] = IF p = file.base THEN Base ELSE p
  BY DEF Rebased
<1>3. Rebased \in [DOMAIN file.names -> Pid]
  BY <1>1 DEF Rebased
<1>4. IsInjective(Rebased)
  <2>1. ASSUME NEW p \in DOMAIN file.names, NEW r \in DOMAIN file.names, Rebased[p] = Rebased[r]
        PROVE  p = r
    BY <1>1, <1>2, <2>1
  <2>2. DOMAIN Rebased = DOMAIN file.names
    BY <1>3
  <2> QED
    BY <2>1, <2>2 DEF IsInjective
<1>5. SameIds \in [DOMAIN file.owners -> Sid] /\ Range(SameIds) = DOMAIN file.owners
  BY <1>1 DEF SameIds, Range
<1> QED
  BY <1>1, <1>2, <1>3, <1>4, <1>5

\* Its commit replaces every table.
LEMMA WorkspaceCommit ==
  ASSUME Packaged(file), file.kind = "workspace", CommitWorkspace
  PROVE  /\ \A i \in DOMAIN file.names : /\ pname'[Rebased[i]] = file.names[i]
                                         /\ desc'[Rebased[i]] = file.descs[i]
         /\ \A p \in Pid \ Range(Rebased) : pname'[p] = Absent
         /\ pname' \in [Pid -> PName \cup {Absent}] /\ desc' \in [Pid -> Desc]
         /\ auto' = {Rebased[p] : p \in file.auto}
         /\ drawn' = drawn \cup Range(Rebased)
         /\ Brings(Secrets, SameIds, Rebased)
         /\ rules' = {}
         /\ workspaces' = file.groups
         /\ members' = {<<m[1], Rebased[m[2]]>> : m \in file.members}
         /\ result' = "ok"
         /\ UNCHANGED <<session, loaded>>
<1> USE VaultAssumption
<1> DEFINE source(p) == CHOOSE i \in DOMAIN file.names : Rebased[i] = p
<1>1. /\ pname' = [p \in Pid |-> IF p \in Range(Rebased) THEN file.names[source(p)] ELSE Absent]
      /\ desc' = [p \in Pid |-> IF p \in Range(Rebased) THEN file.descs[source(p)] ELSE NoDesc]
      /\ auto' = {Rebased[p] : p \in file.auto}
      /\ drawn' = drawn \cup Range(Rebased)
      /\ Brings(Secrets, SameIds, Rebased)
      /\ rules' = {}
      /\ workspaces' = file.groups
      /\ members' = {<<m[1], Rebased[m[2]]>> : m \in file.members}
      /\ result' = "ok"
      /\ UNCHANGED <<session, loaded>>
  BY DEF CommitWorkspace, Rebased, SameIds, RulesAfterReset, ImportedMembers, Answer
<1>2. /\ Rebased \in [DOMAIN file.names -> Pid] /\ IsInjective(Rebased)
      /\ \A i \in DOMAIN file.names : file.names[i] \in PName /\ file.descs[i] \in Desc
  BY WorkspacePackage DEF Packaged
<1>3. \A p \in Range(Rebased) : source(p) \in DOMAIN file.names /\ Rebased[source(p)] = p
  BY <1>2 DEF Range
<1>4. \A i \in DOMAIN file.names : /\ Rebased[i] \in Range(Rebased) /\ Rebased[i] \in Pid
                                   /\ source(Rebased[i]) = i
  BY <1>2 DEF Range, IsInjective
<1> HIDE DEF source
<1>5. pname' \in [Pid -> PName \cup {Absent}] /\ desc' \in [Pid -> Desc]
  BY <1>1, <1>2, <1>3
<1> QED
  BY <1>1, <1>4, <1>5

\* A workspace import.
LEMMA WorkspaceKeeps ==
  ASSUME VaultInv, Packaged(file), file.kind = "workspace", CommitWorkspace
  PROVE  VaultInv'
<1> USE VaultAssumption
<1> DEFINE P == DOMAIN file.names
           S == DOMAIN file.owners
           q == Rebased
<1>1. ProfilesSound /\ SecretsSound /\ GroupsSound
  BY Halves
<1>2. /\ q \in [P -> Pid] /\ IsInjective(q)
      /\ file.base \in P /\ q[file.base] = Base
      /\ SameIds \in [S -> Sid] /\ Range(SameIds) = S
  BY WorkspacePackage
<1>3. /\ P \subseteq Pid /\ S \subseteq Sid
      /\ \A i \in P : file.names[i] \in PName
      /\ \A i, j \in P : file.names[i] = file.names[j] => i = j
      /\ \A s \in S : file.owners[s] \in P /\ file.labels[s] \in SName /\ file.lasts[s] \in Nat
      /\ \A s, t \in S : file.owners[s] = file.owners[t] /\ file.labels[s] = file.labels[t] => s = t
      /\ file.base \in file.auto /\ file.auto \subseteq P
      /\ file.groups \subseteq WName /\ file.members \subseteq file.groups \X P
  BY DEF Packaged, IsInjective
<1>4. /\ \A i \in P : pname'[q[i]] = file.names[i]
      /\ \A p \in Pid \ Range(q) : pname'[p] = Absent
      /\ pname' \in [Pid -> PName \cup {Absent}] /\ desc' \in [Pid -> Desc]
      /\ auto' = {q[p] : p \in file.auto}
      /\ drawn' = drawn \cup Range(q)
      /\ Brings(Secrets, SameIds, q)
      /\ rules' = {}
      /\ workspaces' = file.groups
      /\ members' = {<<m[1], q[m[2]]>> : m \in file.members}
      /\ result' = "ok"
      /\ UNCHANGED <<session, loaded>>
  BY WorkspaceCommit
<1> HIDE DEF q
<1>5. Range(q) \subseteq Pid /\ (\A p \in Range(q) : \E i \in P : p = q[i])
      /\ \A i \in P : q[i] \in Range(q)
  BY <1>2 DEF Range
<1>6. \A i, j \in P : q[i] = q[j] => i = j
  BY <1>2 DEF IsInjective
<1>7. Profiles' = Range(q)
  BY <1>3, <1>4, <1>5 DEF Profiles
<1>8. ProfilesSound'
  <2>1. \A p, r \in Profiles' : pname'[p] = pname'[r] => p = r
    BY <1>3, <1>4, <1>5, <1>7
  <2>2. Base \in Profiles' /\ Base \in auto' /\ auto' \subseteq Profiles'
    BY <1>2, <1>3, <1>4, <1>5, <1>7
  <2>3. drawn' \subseteq Pid /\ Profiles' \cup loaded' \subseteq drawn'
    BY <1>1, <1>4, <1>5, <1>7 DEF ProfilesSound
  <2> QED
    BY <1>1, <1>4, <2>1, <2>2, <2>3 DEF ProfilesSound, BaseUnderlay
<1>9. GroupsSound'
  BY <1>3, <1>4, <1>5, <1>7 DEF GroupsSound
<1>10. SecretsSound'
  <2>1. Swapped(Secrets, SameIds, q)
    BY <1>2, <1>4, Brought
  <2>2. /\ \A u \in S : owner'[u] = q[file.owners[u]] /\ sname'[u] = file.labels[u]
                        /\ current'[u] = file.lasts[u] /\ versions'[u] = 1 .. file.lasts[u]
        /\ \A u \in Sid \ S : u \in Secrets =>
              owner'[u] = Absent /\ sname'[u] = Absent /\ current'[u] = 0 /\ versions'[u] = {}
        /\ \A u \in Sid \ S : u \notin Secrets =>
              /\ owner'[u] = owner[u] /\ sname'[u] = sname[u]
              /\ current'[u] = current[u] /\ versions'[u] = versions[u]
        /\ drawnSecrets' = drawnSecrets \cup S
    BY <1>2, <2>1 DEF Swapped, SameIds
  <2>3. \A u \in S : /\ owner'[u] \in Range(q) /\ owner'[u] \in Pid /\ sname'[u] \in SName
                     /\ current'[u] \in Nat /\ versions'[u] = 1 .. current'[u]
    BY <1>3, <1>5, <2>2
  <2>4. \A u \in Sid \ S : /\ owner'[u] = Absent /\ sname'[u] \in SName \cup {Absent}
                           /\ current'[u] \in Nat /\ versions'[u] \in SUBSET Nat
                           /\ versions'[u] = 1 .. current'[u]
    <3> TAKE u \in Sid \ S
    <3>1. /\ owner[u] \in Pid \cup {Absent} /\ sname[u] \in SName \cup {Absent}
          /\ current[u] \in Nat /\ versions[u] \in SUBSET Nat
          /\ versions[u] = 1 .. current[u]
      BY <1>1 DEF SecretsSound, VersionsContiguous
    <3>2. CASE u \in Secrets
      <4>1. owner'[u] = Absent /\ sname'[u] = Absent /\ current'[u] = 0 /\ versions'[u] = {}
        BY <2>2, <3>2
      <4>2. 1 .. 0 = {} /\ 0 \in Nat
        OBVIOUS
      <4> QED
        BY <4>1, <4>2
    <3>3. CASE u \notin Secrets
      BY <2>2, <3>1, <3>3 DEF Secrets
    <3> QED
      BY <3>2, <3>3
  <2>5. \A u \in Sid : /\ owner'[u] \in Pid \cup {Absent} /\ sname'[u] \in SName \cup {Absent}
                       /\ current'[u] \in Nat /\ versions'[u] \in SUBSET Nat
                       /\ versions'[u] = 1 .. current'[u]
    <3> TAKE u \in Sid
    <3>1. CASE u \in S
      BY <2>3, <3>1
    <3>2. CASE u \notin S
      BY <2>4, <3>2
    <3> QED
      BY <3>1, <3>2
  <2>6. /\ owner' \in [Sid -> Pid \cup {Absent}] /\ sname' \in [Sid -> SName \cup {Absent}]
        /\ current' \in [Sid -> Nat] /\ versions' \in [Sid -> SUBSET Nat]
    BY <1>4, <2>5, BroughtTyped
  <2>7. Secrets' = S
    BY <1>3, <2>3, <2>4 DEF Secrets
  <2>8. \A u, v \in S : owner'[u] = owner'[v] /\ sname'[u] = sname'[v] => u = v
    BY <1>3, <1>6, <2>2
  <2> QED
    BY <1>1, <1>3, <1>4, <1>7, <2>2, <2>3, <2>5, <2>6, <2>7, <2>8 DEF SecretsSound, VersionsContiguous
<1> QED
  BY <1>4, <1>8, <1>9, <1>10, Whole DEF Success

-----------------------------------------------------------------------------
(* Every secret keeps a name, or gets one.                                  *)

\* Work on the vault.
LEMMA LocalNames ==
  ASSUME VaultInv, NamedSecrets, LocalStep
  PROVE  NamedSecrets'
<1> USE VaultAssumption DEF NamedSecrets, Secrets
<1>1. CASE UNCHANGED <<owner, sname>>
  BY <1>1
<1>2. ASSUME NEW n \in PName, NEW x \in SName, NEW p, NEW last, InsertSecret(p, x, last)
      PROVE  NamedSecrets'
  BY <1>2 DEF InsertSecret, VaultInv, TypeOK
<1>3. ASSUME NEW s, Erase({s})
      PROVE  NamedSecrets'
  BY <1>3 DEF Erase
<1>4. ASSUME NEW n \in PName, \/ \E w \in WName \cup {Absent} : CreateProfile(n, w)
                              \/ \E d \in Desc, flag \in {"keep", "on", "off"} :
                                    UpdateProfile(n, d, flag)
                              \/ \E m \in PName : RenameProfile(n, m)
                              \/ DeleteProfile(n)
      PROVE  NamedSecrets'
  BY <1>1, <1>4 DEF CreateProfile, UpdateProfile, RenameProfile, DeleteProfile, Ends, secrets
<1>5. ASSUME NEW w \in WName, \/ CreateWorkspace(w)
                              \/ \E n \in PName : BindProfile(w, n) \/ UnbindProfile(w, n)
                              \/ DeleteWorkspace(w)
      PROVE  NamedSecrets'
  BY <1>1, <1>5 DEF CreateWorkspace, BindProfile, UnbindProfile, DeleteWorkspace, Ends, secrets
<1>6. ASSUME NEW n \in PName, NEW x \in SName,
             \/ SetSecretValue(n, x) \/ SetHttpAccess(n, x) \/ RemoveHttpAccess(n, x)
      PROVE  NamedSecrets'
  BY <1>1, <1>6 DEF SetSecretValue, SetHttpAccess, RemoveHttpAccess, RefFails, Ends, secrets
<1>7. ASSUME NEW n \in PName, NEW x \in SName,
             CreateSecret(n, x) \/ DeleteSecret(n, x) \/ TombstoneSecret(n, x)
      PROVE  NamedSecrets'
  BY <1>1, <1>2, <1>3, <1>7 DEF CreateSecret, DeleteSecret, TombstoneSecret, Ends, secrets
<1>8. ASSUME NEW n \in PName, NEW x \in SName, NEW y \in SName, RenameSecret(n, x, y)
      PROVE  NamedSecrets'
  <2>1. ASSUME NEW s, sname' = [sname EXCEPT ![s] = y], owner' = owner
        PROVE  NamedSecrets'
    BY <2>1 DEF VaultInv, TypeOK
  <2> QED
    BY <1>1, <1>8, <2>1 DEF RenameSecret, RefFails, Ends, secrets
<1> HIDE DEF NamedSecrets, Secrets
<1> QED
  BY <1>4, <1>5, <1>6, <1>7, <1>8 DEF LocalStep

\* A batch.
LEMMA AddedNames ==
  ASSUME VaultInv, NamedSecrets, NEW K, NEW f, NEW A, Addition(K, f, A)
  PROVE  NamedSecrets'
<1>1. /\ \A k \in K : sname'[f[k]] = k[2]
      /\ \A s \in Secrets : sname'[s] = sname[s]
      /\ Secrets' = Secrets \cup {f[k] : k \in K}
  BY RowsAdded
<1>2. \A k \in K : k[2] \in SName
  BY DEF Addition
<1> QED
  BY <1>1, <1>2 DEF NamedSecrets

\* A package.
LEMMA BroughtNames ==
  ASSUME Packaged(file), NamedSecrets, NEW gone, NEW t \in [DOMAIN file.owners -> Sid], NEW q,
         Brings(gone, t, q)
  PROVE  NamedSecrets'
<1>1. \A s \in DOMAIN file.owners : file.labels[s] \in SName
  BY DEF Packaged
<1>2. Swapped(gone, t, q)
  BY Brought
<1>3. ASSUME NEW u \in Secrets'
      PROVE  sname'[u] \in SName
  <2>1. u \in Sid /\ owner'[u] # Absent
    BY <1>3 DEF Secrets
  <2>2. CASE u \in Range(t)
    BY <1>1, <1>2, <2>2 DEF Swapped
  <2>3. CASE u \notin Range(t)
    <3>1. u \notin gone
      BY <1>2, <2>1, <2>3 DEF Swapped
    <3>2. owner'[u] = owner[u] /\ sname'[u] = sname[u]
      BY <1>2, <2>1, <2>3, <3>1 DEF Swapped
    <3> QED
      BY <2>1, <3>2 DEF NamedSecrets, Secrets
  <2> QED
    BY <2>2, <2>3
<1> QED
  BY <1>3 DEF NamedSecrets

-----------------------------------------------------------------------------
(* The inductive invariant.                                                 *)

\* A step that leaves the tables alone keeps the vault sound.
LEMMA FileSteps ==
  ASSUME VaultInv, NEW r \in Success \cup Failure, result' = r,
         UNCHANGED <<session, loaded, profiles, secrets, groups>>
  PROVE  VaultInv'
BY EndsInv DEF Ends, Answer

\* Nothing but the client's knowledge of the plan changes.
LEMMA PlanKept ==
  ASSUME ImportInv, VaultInv', NamedSecrets', UNCHANGED <<file, packages>>,
         \/ plan' = NoPlan
         \/ plan # NoPlan /\ \E u \in BOOLEAN :
               /\ plan' = [plan EXCEPT !.used = u]
               /\ u => /\ plan.args.kind # "workspace"
                       /\ plan.known = Known' => \A v \in plan.shown : v[4] = "skip"
  PROVE  ImportInv'
<1>1. PlanFits' /\ NothingLeft'
  <2>1. CASE plan' = NoPlan
    BY <2>1 DEF PlanFits, NothingLeft
  <2>2. ASSUME plan # NoPlan, NEW u \in BOOLEAN, plan' = [plan EXCEPT !.used = u],
               u => /\ plan.args.kind # "workspace"
                    /\ plan.known = Known' => \A v \in plan.shown : v[4] = "skip"
        PROVE  PlanFits' /\ NothingLeft'
    <3>1. plan \in [args : Requests, known : {plan.known}, shown : {plan.shown}, used : BOOLEAN]
      BY <2>2 DEF ImportInv, PlanFits
    <3>2. /\ plan'.args = plan.args /\ plan'.known = plan.known /\ plan'.shown = plan.shown
          /\ plan'.used = u
          /\ plan' \in [args : Requests, known : {plan.known}, shown : {plan.shown}, used : BOOLEAN]
      BY <2>2, <3>1
    <3> QED
      BY <2>2, <3>2 DEF ImportInv, PlanFits, NothingLeft
  <2> QED
    BY <2>1, <2>2
<1> QED
  BY <1>1 DEF ImportInv

\* A call that is refused.
LEMMA RefusedKeeps ==
  ASSUME ImportInv, NEW r \in Success \cup Failure, Refuses(r)
  PROVE  ImportInv'
<1>1. VaultInv'
  BY EndsInv DEF ImportInv, Refuses
<1>2. Known' = Known /\ (NamedSecrets => NamedSecrets')
  BY DEF Refuses, Ends, Known, NamedSecrets, Profiles, Secrets, profiles, secrets, groups
<1> QED
  BY <1>1, <1>2 DEF ImportInv, Refuses, PlanFits, NothingLeft

\* A file comes where there was none.
LEMMA NewFile ==
  ASSUME ImportInv, VaultInv', NamedSecrets', file = NoFile, Readable(file'),
         packages' \in 0 .. MaxPackages, plan' = plan
  PROVE  ImportInv'
<1>1. plan' = NoPlan
  BY DEF ImportInv, PlanFits
<1> QED
  BY <1>1 DEF ImportInv, PlanFits, NothingLeft

\* Work on the vault, while a client may hold a plan.
LEMMA LocalKeeps ==
  ASSUME ImportInv, LocalStep
  PROVE  ImportInv'
<1>1. VaultInv' /\ NamedSecrets'
  BY LocalIsNext, InvStep, LocalNames DEF ImportInv
<1>2. plan # NoPlan => /\ plan \in [args : Requests, known : {plan.known},
                                    shown : {plan.shown}, used : BOOLEAN]
                       /\ plan.used => /\ plan.args.kind # "workspace"
                                       /\ plan.known = Known => \A v \in plan.shown : v[4] = "skip"
  BY DEF ImportInv, PlanFits, NothingLeft
<1>3. UNCHANGED <<file, packages>> /\ Aged
  BY DEF LocalStep
<1>4. CASE plan' # NoPlan
  <2> DEFINE u == plan.used /\ Known' = Known
  <2>1. plan # NoPlan /\ plan' = [plan EXCEPT !.used = u] /\ u \in BOOLEAN
    BY <1>2, <1>3, <1>4 DEF Aged
  <2>2. u => /\ plan.args.kind # "workspace"
             /\ plan.known = Known' => \A v \in plan.shown : v[4] = "skip"
    BY <1>2, <2>1
  <2> HIDE DEF u
  <2> QED
    BY <1>1, <1>3, <2>1, <2>2, PlanKept
<1> QED
  BY <1>1, <1>3, <1>4, PlanKept

\* What this vault exports is a package.
LEMMA SelectedPackage ==
  ASSUME VaultInv, NamedSecrets, packages \in 0 .. MaxPackages, packages < MaxPackages,
         NEW kind \in {"profile", "workspace"}, NEW P,
         kind = "profile" => \E n : P = Named(n) /\ Named(n) # {},
         kind = "workspace" => P = Profiles
  PROVE  Packaged(Selected(kind, P))
<1> USE PackageAssumption, VaultAssumption
<1> DEFINE S == {s \in Secrets : owner[s] \in P}
           f == Selected(kind, P)
<1>1. ProfilesSound /\ SecretsSound /\ GroupsSound
  BY Halves
<1>2. P \subseteq Profiles /\ P # {} /\ (kind = "profile" => \A p, q \in P : p = q)
  <2>1. CASE kind = "profile"
    BY <2>1, OneName
  <2>2. CASE kind = "workspace"
    BY <1>1, <2>2 DEF ProfilesSound, BaseUnderlay
  <2> QED
    BY <2>1, <2>2
<1>3. Base \in auto /\ Base \in Profiles /\ auto \subseteq Profiles /\ P \subseteq Pid /\ S \subseteq Sid
  BY <1>1, <1>2 DEF ProfilesSound, BaseUnderlay, Profiles, Secrets
<1>4. /\ f.kind = kind /\ f.id = packages + 1 /\ f.base = Base /\ f.auto = auto \cap P
      /\ f.names = [p \in P |-> pname[p]] /\ f.descs = [p \in P |-> desc[p]]
      /\ f.owners = [s \in S |-> owner[s]] /\ f.labels = [s \in S |-> sname[s]]
      /\ f.lasts = [s \in S |-> current[s]]
      /\ kind = "workspace" => f.groups = workspaces /\ f.members = members
  BY DEF Selected, Restrict
<1>5. /\ \A p \in P : pname[p] \in PName /\ desc[p] \in Desc
      /\ \A s \in S : sname[s] \in SName \cup {Absent} /\ owner[s] \in P /\ current[s] \in Nat
  BY <1>1, <1>2, <1>3 DEF ProfilesSound, SecretsSound, Profiles
<1>6. \A s \in S : sname[s] \in SName
  BY DEF NamedSecrets
<1>7. IsInjective(f.names)
  BY <1>1, <1>2, <1>4 DEF IsInjective, ProfilesSound
<1>8. \A s, t \in S : owner[s] = owner[t] /\ sname[s] = sname[t] => s = t
  BY <1>1 DEF SecretsSound
<1>9. f.id \in 0 .. MaxPackages
  BY <1>4
<1> HIDE DEF f, S
<1>10. /\ DOMAIN f.names = P /\ DOMAIN f.owners = S
       /\ f.names \in [P -> PName] /\ f.descs \in [P -> Desc]
       /\ f.owners \in [S -> P] /\ f.labels \in [S -> SName] /\ f.lasts \in [S -> Nat]
  BY <1>4, <1>5, <1>6
<1>11. \A s, t \in S : f.owners[s] = f.owners[t] /\ f.labels[s] = f.labels[t] => s = t
  BY <1>4, <1>8
<1>12. f.kind = "workspace" =>
         /\ f.base \in f.auto /\ f.auto \subseteq P
         /\ Base \in P => f.base = Base
         /\ f.groups \subseteq WName /\ f.members \subseteq f.groups \X P
  BY <1>1, <1>3, <1>4 DEF GroupsSound
<1>13. Packaged(f)
  BY <1>2, <1>3, <1>4, <1>7, <1>9, <1>10, <1>11, <1>12 DEF Packaged
<1> QED
  BY <1>13 DEF f

\* A run sees names of secrets.
LEMMA SeenNames ==
  ASSUME NamedSecrets, NEW p
  PROVE  VisibleNames(p) \subseteq SName
BY DEF VisibleNames, Visible, NamedSecrets

\* A config export can be read again.
LEMMA DocumentReadable ==
  ASSUME VaultInv, NamedSecrets, NEW P, NEW W, P \subseteq Profiles, W \subseteq WName,
         \A w \in W : Members(w) \subseteq P
  PROVE  Readable(ConfigDocument(P, W))
<1> USE VaultAssumption
<1> DEFINE N == {pname[p] : p \in P}
           At(n) == CHOOSE p \in P : pname[p] = n
           f == ConfigDocument(P, W)
<1>1. /\ f.kind = "config"
      /\ f.descs = [n \in N |-> desc[At(n)]]
      /\ f.contents = [n \in N |-> VisibleNames(At(n))]
      /\ f.groups = [w \in W |-> {pname[p] : p \in Members(w)}]
  BY DEF ConfigDocument
<1>2. \A n \in N : At(n) \in P
  OBVIOUS
<1>3. \A p \in P : p \in Pid /\ pname[p] \in PName /\ desc[p] \in Desc
  BY Halves DEF ProfilesSound, Profiles
<1>4. N \subseteq PName
  BY <1>3
<1>5. \A n \in N : VisibleNames(At(n)) \subseteq SName /\ desc[At(n)] \in Desc
  BY <1>2, <1>3, SeenNames
<1>6. \A w \in W : {pname[p] : p \in Members(w)} \subseteq N
  OBVIOUS
<1> HIDE DEF f, N, At
<1>7. /\ DOMAIN f.contents = N /\ DOMAIN f.groups = W
      /\ \A n \in N : f.contents[n] \subseteq SName /\ f.descs[n] \in Desc
      /\ \A w \in W : f.groups[w] \subseteq N
  BY <1>1, <1>5, <1>6
<1>8. Readable(f)
  BY <1>1, <1>4, <1>7 DEF Readable
<1> QED
  BY <1>8 DEF f

\* An export that succeeds, whatever it writes.
LEMMA ExportKeeps ==
  ASSUME ImportInv, file = NoFile, Readable(file'), packages' \in 0 .. MaxPackages, result' = "ok",
         UNCHANGED <<session, loaded, profiles, secrets, groups, plan>>
  PROVE  ImportInv'
<1>1. VaultInv'
  BY FileSteps DEF ImportInv, Success
<1>2. NamedSecrets'
  BY DEF ImportInv, NamedSecrets, Secrets, secrets
<1> QED
  BY <1>1, <1>2, NewFile

\* The export of a package.
LEMMA PackageExportKeeps ==
  ASSUME ImportInv, NEW kind \in {"profile", "workspace"}, NEW n \in PName, ExportPackage(kind, n)
  PROVE  ImportInv'
<1>1. CASE \E r \in Failure : Refuses(r)
  BY <1>1, RefusedKeeps
<1>2. ASSUME file = NoFile, kind = "profile" => Named(n) # {}, packages < MaxPackages,
             file' = Selected(kind, IF kind = "profile" THEN Named(n) ELSE Profiles),
             packages' = packages + 1, result' = "ok",
             UNCHANGED <<session, loaded, profiles, secrets, groups, plan>>
      PROVE  ImportInv'
  <2> DEFINE P == IF kind = "profile" THEN Named(n) ELSE Profiles
  <2>1. Packaged(Selected(kind, P))
    <3>1. /\ kind = "profile" => \E m : P = Named(m) /\ Named(m) # {}
          /\ kind = "workspace" => P = Profiles
      BY <1>2
    <3> HIDE DEF P
    <3>2. VaultInv /\ NamedSecrets /\ packages \in 0 .. MaxPackages
      BY DEF ImportInv
    <3> QED
      BY <1>2, <3>1, <3>2, SelectedPackage
  <2>2. Readable(file')
    BY <1>2, <2>1 DEF Readable
  <2>3. packages' \in 0 .. MaxPackages
    BY <1>2, PackageAssumption DEF ImportInv
  <2> QED
    BY <1>2, <2>2, <2>3, ExportKeeps
<1> QED
  BY <1>1, <1>2 DEF ExportPackage, Failure, Answer

\* The export of an env file.
LEMMA EnvExportKeeps ==
  ASSUME ImportInv, NEW n, ExportPlaintextEnv(n)
  PROVE  ImportInv'
<1>1. CASE \E r \in Failure : Refuses(r)
  BY <1>1, RefusedKeeps
<1>2. ASSUME NEW p, file = NoFile,
             NEW entries \in [1 .. Cardinality(VisibleNames(p)) -> VisibleNames(p)],
             file' = [kind |-> "env", entries |-> entries], result' = "ok",
             UNCHANGED <<session, loaded, profiles, secrets, groups, packages, plan>>
      PROVE  ImportInv'
  <2>1. Range(entries) \subseteq SName
    BY SeenNames DEF ImportInv, Range
  <2>2. Readable(file')
    BY <1>2, <2>1 DEF Readable
  <2> QED
    BY <1>2, <2>2, ExportKeeps DEF ImportInv
<1> QED
  BY <1>1, <1>2 DEF ExportPlaintextEnv, Failure, Answer

\* The export of a config document.
LEMMA ConfigExportKeeps ==
  ASSUME ImportInv, NEW which, NEW n, NEW w,
         \/ which = "vault"
         \/ which = "profile" /\ n \in PName
         \/ which = "workspace" /\ w \in WName,
         ExportConfig(which, n, w)
  PROVE  ImportInv'
<1> DEFINE chosen == ConfigSelection(which, n, w)
<1>1. CASE \E r \in Failure : Refuses(r)
  BY <1>1, RefusedKeeps
<1>2. ASSUME file = NoFile, file' = ConfigDocument(chosen.profiles, chosen.groups), result' = "ok",
             UNCHANGED <<session, loaded, profiles, secrets, groups, packages, plan>>
      PROVE  ImportInv'
  <2>1. GroupsSound
    BY Halves DEF ImportInv
  <2>2. \A v : Members(v) \subseteq Profiles
    BY <2>1 DEF GroupsSound, Members
  <2>3. /\ chosen.profiles \subseteq Profiles /\ chosen.groups \subseteq WName
        /\ \A v \in chosen.groups : Members(v) \subseteq chosen.profiles
    BY <2>1, <2>2 DEF ConfigSelection, GroupsSound, Named
  <2> HIDE DEF chosen
  <2>4. Readable(file')
    BY <1>2, <2>3, DocumentReadable DEF ImportInv
  <2> QED
    BY <1>2, <2>4, ExportKeeps DEF ImportInv
<1> QED
  BY <1>1, <1>2 DEF ExportConfig, Failure, Answer

\* Whatever becomes of the file.
LEMMA FileKeeps ==
  ASSUME ImportInv, FileStep
  PROVE  ImportInv'
<1>1. CASE \E kind \in {"profile", "workspace"}, n \in PName : ExportPackage(kind, n)
  BY <1>1, PackageExportKeeps
<1>2. CASE \E n \in PName : ExportPlaintextEnv(n)
  BY <1>2, EnvExportKeeps
<1>3. CASE \/ ExportConfig("vault", Absent, Absent)
           \/ \E n \in PName : ExportConfig("profile", n, Absent)
           \/ \E w \in WName : ExportConfig("workspace", Absent, w)
  BY <1>3, ConfigExportKeeps
<1>4. ASSUME VaultInv', NamedSecrets'
      PROVE  (\E f \in Foreign \cup HandWritten : ReceiveFile(f)) \/ RemoveFile => ImportInv'
  <2>1. ASSUME NEW f \in Foreign \cup HandWritten, ReceiveFile(f)
        PROVE  ImportInv'
    <3>1. Readable(f)
      BY PackageAssumption DEF Readable, HandWritten, Range
    <3> QED
      BY <1>4, <2>1, <3>1, NewFile DEF ReceiveFile, ImportInv
  <2>2. ASSUME RemoveFile
        PROVE  ImportInv'
    BY <1>4, <2>2 DEF RemoveFile, ImportInv, PlanFits, NothingLeft
  <2> QED
    BY <2>1, <2>2
<1>5. CASE (\E f \in Foreign \cup HandWritten : ReceiveFile(f)) \/ RemoveFile
  <2>1. UNCHANGED vars
    BY <1>5 DEF ReceiveFile, RemoveFile
  <2>2. VaultInv'
    BY <2>1, InvStep DEF ImportInv
  <2>3. NamedSecrets'
    BY <2>1 DEF ImportInv, NamedSecrets, Secrets, vars, secrets
  <2> QED
    BY <1>4, <1>5, <2>2, <2>3
<1> QED
  BY <1>1, <1>2, <1>3, <1>5 DEF FileStep

\* Planning succeeds only with a file of the kind that was asked for.
LEMMA Planning ==
  ASSUME NEW a \in Requests
  PROVE  /\ PlanError(a) \in Failure \cup {"none"}
         /\ PlanError(a) = "none" => /\ file # NoFile /\ file.kind = a.kind
                                     /\ a.kind = "env" => Named(a.target) # {}
         /\ a.kind \in Kind
<1>1. a.kind \in Kind
  BY ImportAssumption
<1>2. PlanError(a) = "none" => /\ file # NoFile /\ file.kind = a.kind
                               /\ a.kind = "env" => Named(a.target) # {}
  BY DEF PlanError
<1>3. PlanError(a) \in Failure \cup {"none"}
  BY DEF PlanError, Failure
<1> QED
  BY <1>1, <1>2, <1>3

\* A file is of one kind.
LEMMA ReadAs ==
  ASSUME ImportInv, file # NoFile
  PROVE  /\ file.kind = "env" => Range(file.entries) \subseteq SName
         /\ file.kind = "config" => ConfigFile
         /\ file.kind \in {"profile", "workspace"} => Packaged(file)
<1>1. Readable(file)
  BY DEF ImportInv
<1> QED
  BY <1>1 DEF Readable, ConfigFile, Packaged

\* A preview.
LEMMA PreviewKeeps ==
  ASSUME ImportInv, NEW a \in Requests, Preview(a)
  PROVE  ImportInv'
<1>1. CASE \E r \in Failure : Refuses(r)
  BY <1>1, RefusedKeeps
<1>2. ASSUME PlanError(a) = "none",
             plan' = [args |-> a, known |-> Known, shown |-> View(a), used |-> FALSE],
             result' = "ok",
             UNCHANGED <<session, loaded, profiles, secrets, groups, file, packages>>
      PROVE  ImportInv'
  <2>1. VaultInv'
    BY <1>2, FileSteps DEF ImportInv, Success
  <2>2. NamedSecrets'
    BY <1>2 DEF ImportInv, NamedSecrets, Secrets, secrets
  <2>3. plan'.args = a /\ plan'.shown = View(a) /\ plan'.used = FALSE
        /\ plan' \in [args : Requests, known : {plan'.known}, shown : {plan'.shown}, used : BOOLEAN]
    BY <1>2
  <2>4. a.kind = "env" =>
          \E act \in [Range(file.entries) -> EntryActions] :
              View(a) = {<<"secret", a.target, x, act[x]>> : x \in Range(file.entries)}
    <3> DEFINE act == [x \in Range(file.entries) |-> EntryAction(Named(a.target), x, a.strategy)]
    <3>1. act \in [Range(file.entries) -> EntryActions]
      BY ActionOf
    <3>2. a.kind = "env" => View(a) = {<<"secret", a.target, x, act[x]>> : x \in Range(file.entries)}
      BY DEF View
    <3> QED
      BY <3>1, <3>2
  <2>5. file # NoFile /\ file.kind = a.kind
    BY <1>2, Planning
  <2> QED
    BY <1>2, <2>1, <2>2, <2>3, <2>4, <2>5 DEF ImportInv, PlanFits, NothingLeft
<1> QED
  BY <1>1, <1>2, Planning DEF Preview, Failure, Answer

\* An env preview, and its hash: the action of every entry that meets a secret.
EnvShown(t, R, act) == {<<"secret", t, x, act[x]>> : x \in R}

LEMMA EnvHash ==
  ASSUME NEW a, a.kind = "env", NEW t, NEW R, NEW act, NEW x \in R, NEW y
  PROVE  <<x, y>> \in Hashed(a, EnvShown(t, R, act)) <=> act[x] = y /\ y # "create"
<1> DEFINE V == EnvShown(t, R, act)
<1>1. \A v : v \in V <=> \E z \in R : v = <<"secret", t, z, act[z]>>
  BY DEF EnvShown
<1> HIDE DEF V
<1>2. Hashed(a, V) = {<<v[3], v[4]>> : v \in {u \in V : u[4] # "create"}}
  BY DEF Hashed
<1>3. ASSUME <<x, y>> \in Hashed(a, V)
      PROVE  act[x] = y /\ y # "create"
  <2>1. PICK v \in V : v[4] # "create" /\ <<x, y>> = <<v[3], v[4]>>
    BY <1>2, <1>3
  <2>2. PICK z \in R : v = <<"secret", t, z, act[z]>>
    BY <1>1, <2>1
  <2> QED
    BY <2>1, <2>2
<1>4. ASSUME act[x] = y, y # "create"
      PROVE  <<x, y>> \in Hashed(a, V)
  <2>1. <<"secret", t, x, y>> \in V
    BY <1>1, <1>4
  <2>2. <<"secret", t, x, y>>[3] = x /\ <<"secret", t, x, y>>[4] = y
    OBVIOUS
  <2> QED
    BY <1>2, <1>4, <2>1, <2>2
<1> QED
  BY <1>3, <1>4 DEF V

\* A plan that is still valid shows what a preview would show now.
LEMMA StillShown ==
  ASSUME ImportInv, NEW a \in Requests, PlanError(a) = "none", Matches(a)
  PROVE  plan.shown = View(a)
<1>1. plan # NoPlan /\ plan.args = a /\ Hashed(a, plan.shown) = Hashed(a, View(a))
  BY DEF Matches
<1>2. CASE a.kind # "env"
  BY <1>1, <1>2 DEF Hashed
<1>3. CASE a.kind = "env"
  <2> DEFINE R == Range(file.entries)
             now == [x \in R |-> EntryAction(Named(a.target), x, a.strategy)]
  <2>1. PICK act \in [R -> EntryActions] : plan.shown = EnvShown(a.target, R, act)
    BY <1>1, <1>3 DEF ImportInv, PlanFits, EnvShown
  <2>2. View(a) = EnvShown(a.target, R, now)
    BY <1>3 DEF View, EnvShown
  <2> HIDE DEF now
  <2>3. \A x \in R : act[x] = now[x]
    <3> TAKE x \in R
    <3>1. act[x] # "create" => <<x, act[x]>> \in Hashed(a, plan.shown)
      BY <1>3, <2>1, EnvHash
    <3>2. <<x, act[x]>> \in Hashed(a, View(a)) => now[x] = act[x]
      BY <1>3, <2>2, EnvHash
    <3>3. now[x] # "create" => <<x, now[x]>> \in Hashed(a, View(a))
      BY <1>3, <2>2, EnvHash
    <3>4. <<x, now[x]>> \in Hashed(a, plan.shown) => act[x] = now[x]
      BY <1>3, <2>1, EnvHash
    <3> QED
      BY <1>1, <3>1, <3>2, <3>3, <3>4
  <2> QED
    BY <2>1, <2>2, <2>3 DEF EnvShown
<1> QED
  BY <1>2, <1>3

\* An import that was not refused keeps the vault sound.
LEMMA ApplyKeeps ==
  ASSUME ImportInv, NEW a \in Requests, PlanError(a) = "none", Apply(a)
  PROVE  VaultInv' /\ NamedSecrets'
<1>0. file # NoFile /\ file.kind = a.kind
  BY Planning
<1>1. VaultInv /\ NamedSecrets
  BY DEF ImportInv
<1>2. CASE a.kind = "env" /\ CommitEnv(a)
  <2>1. Range(file.entries) \subseteq SName
    BY <1>0, <1>2, ReadAs
  <2>2. VaultInv'
    BY <1>0, <1>1, <1>2, <2>1, EnvKeeps
  <2>3. CASE Ends("corrupt")
    BY <1>1, <2>2, <2>3 DEF Ends, NamedSecrets, Secrets, secrets
  <2>4. CASE \E p \in Named(a.target) :
               \E f \in [EnvKeys(a, p) -> Sid \ (drawnSecrets \cup PackageIds)] :
                  /\ Addition(EnvKeys(a, p), f, EnvAppends(a, p))
                  /\ UNCHANGED <<session, loaded, profiles, groups>> /\ result' = "ok"
    BY <1>1, <2>2, <2>4, AddedNames
  <2> QED
    BY <1>0, <1>1, <1>2, <2>1, <2>3, <2>4, EnvCommit
<1>3. CASE a.kind = "config" /\ CommitConfig(a)
  <2>1. ConfigFile
    BY <1>0, <1>3, ReadAs
  <2>2. VaultInv'
    BY <1>1, <1>3, <2>1, ConfigKeeps
  <2>3. \E g, f : Addition(ConfigKeys(a, g), f, ConfigAppends(a))
    BY <1>1, <1>3, <2>1, ConfigCommit
  <2> QED
    BY <1>1, <2>2, <2>3, AddedNames
<1>4. CASE a.kind = "profile" /\ CommitProfile(a)
  <2>1. Packaged(file) /\ file.kind = "profile"
    BY <1>0, <1>4, ReadAs
  <2>2. VaultInv'
    BY <1>1, <1>4, <2>1, ProfileKeeps
  <2>3. CASE Ends("ok") \/ Ends("corrupt")
    BY <1>1, <2>2, <2>3 DEF Ends, NamedSecrets, Secrets, secrets
  <2>4. CASE Brings(Replaced(a), Renumbered(a), [p \in {Source} |-> Target(a)])
    <3>1. Renumbered(a) \in [DOMAIN file.owners -> Sid]
      BY <1>1, <2>1, ProfilePackage
    <3> QED
      BY <1>1, <2>1, <2>2, <2>4, <3>1, BroughtNames
  <2> QED
    BY <1>4, <2>3, <2>4, ProfileCommit
<1>5. CASE a.kind = "workspace" /\ CommitWorkspace
  <2>1. Packaged(file) /\ file.kind = "workspace"
    BY <1>0, <1>5, ReadAs
  <2>2. VaultInv'
    BY <1>1, <1>5, <2>1, WorkspaceKeeps
  <2>3. Brings(Secrets, SameIds, Rebased) /\ SameIds \in [DOMAIN file.owners -> Sid]
    BY <1>5, <2>1, WorkspaceCommit, WorkspacePackage
  <2> QED
    BY <1>1, <2>1, <2>2, <2>3, BroughtNames
<1> QED
  BY <1>2, <1>3, <1>4, <1>5 DEF Apply

\* A batch that left the tables as they were was empty.
LEMMA EmptyBatch ==
  ASSUME VaultInv, NEW K, NEW f, NEW A, Addition(K, f, A), Secrets' = Secrets,
         \A s \in Secrets : current'[s] = current[s]
  PROVE  K = {} /\ A = {}
<1>1. \A k \in K : f[k] \in Sid \ drawnSecrets
  BY RowsAdded
<1>2. Secrets' = Secrets \cup {f[k] : k \in K}
  BY RowsAdded
<1>3. \A s \in Secrets : current'[s] = IF s \in A THEN current[s] + 1 ELSE current[s]
  BY RowsAdded
<1>4. Secrets \subseteq drawnSecrets /\ current \in [Sid -> Nat]
  BY Halves DEF SecretsSound
<1>5. A \subseteq Secrets /\ Secrets \subseteq Sid
  BY DEF Addition, Secrets
<1> QED
  BY <1>1, <1>2, <1>3, <1>4, <1>5

\* A commit that succeeded and left what its plan was made from as it was had
\* nothing to do.
LEMMA NothingDone ==
  ASSUME ImportInv, NEW a \in Requests, PlanError(a) = "none", ~Rejected(a), Apply(a),
         result' = "ok", Known' = Known, \A s \in Secrets : current'[s] = current[s],
         a.kind # "workspace", a.kind = "profile" => ProfileAction(a) # "replace",
         NEW v \in View(a)
  PROVE  v[4] = "skip"
<1>0. file # NoFile /\ file.kind = a.kind /\ VaultInv /\ v[4] # "reject"
  BY Planning DEF ImportInv, Rejected
<1>1. Profiles' = Profiles /\ Secrets' = Secrets /\ workspaces' = workspaces /\ members' = members
  BY DEF Known
<1>2. CASE a.kind = "env" /\ CommitEnv(a)
  <2>1. Range(file.entries) \subseteq SName
    BY <1>0, <1>2, ReadAs
  <2>2. PICK p \in Named(a.target) :
           \E f \in [EnvKeys(a, p) -> Sid \ (drawnSecrets \cup PackageIds)] :
                  Addition(EnvKeys(a, p), f, EnvAppends(a, p))
    BY <1>0, <1>2, <2>1, EnvCommit DEF Ends, Answer
  <2>3. EnvKeys(a, p) = {} /\ EnvAppends(a, p) = {}
    BY <1>0, <1>1, <2>2, EmptyBatch
  <2>4. PICK x \in Range(file.entries) :
            v = <<"secret", a.target, x, EntryAction(Named(a.target), x, a.strategy)>>
    BY <1>2 DEF View
  <2>5. PICK i \in DOMAIN file.entries : file.entries[i] = x
    BY DEF Range
  <2>6. v[4] # "create"
    BY <2>3, <2>4, <2>5 DEF EnvKeys, Creates
  <2>7. v[4] # "append"
    <3>1. SUFFICES ASSUME v[4] = "append" PROVE FALSE
      OBVIOUS
    <3>2. SecretsAt(Named(a.target), x) # {} /\ Named(a.target) = {p}
      BY <1>0, <2>4, <3>1, ActionOf, OneName
    <3>3. PICK s \in SecretsAt({p}, x) : TRUE
      BY <3>2
    <3>4. s \in Secrets /\ owner[s] = p /\ sname[s] = x
      BY DEF SecretsAt
    <3>5. <<"secret", a.target, sname[s], "append">> \in View(a)
      BY <2>4, <3>1, <3>4
    <3> QED
      BY <2>3, <3>4, <3>5 DEF EnvAppends
  <2>8. v[4] \in EntryActions
    BY <2>4, ActionOf
  <2> QED
    BY <1>0, <2>6, <2>7, <2>8 DEF EntryActions
<1>3. CASE a.kind = "config" /\ CommitConfig(a)
  <2>1. ConfigFile
    BY <1>0, <1>3, ReadAs
  <2>2. PICK g, f :
          /\ NewProfiles(g)
          /\ Addition(ConfigKeys(a, g), f, ConfigAppends(a))
          /\ workspaces' = workspaces \cup DOMAIN file.groups
          /\ members' = members \cup
                 UNION {{w} \X {Place(g, n) : n \in file.groups[w]} : w \in DOMAIN file.groups}
    BY <1>0, <1>3, <2>1, ConfigCommit
  <2>3. ConfigKeys(a, g) = {} /\ ConfigAppends(a) = {}
    BY <1>0, <1>1, <2>2, EmptyBatch
  <2>4. Missing = {}
    <3>1. \A n \in Missing : g[n] \in Profiles' /\ g[n] \notin Profiles
      BY <1>0, <2>2, Halves DEF NewProfiles, ProfilesSound, Range
    <3> QED
      BY <1>1, <3>1
  <2>5. ASSUME NEW n \in DOMAIN file.contents, NEW x \in file.contents[n], v = EntryView(a, n, x)
        PROVE  v[4] = "skip"
    <3>1. v[1] = "secret" /\ v[2] = n /\ v[3] = x /\ v[4] = EntryAction(Named(n), x, a.strategy)
      BY <2>5 DEF EntryView
    <3>2. v[4] # "create"
      BY <2>3, <3>1 DEF ConfigKeys, Planned
    <3>3. v[4] # "append"
      <4>1. v[4] = "append" => SecretsAt(Named(n), x) # {}
        <5>1. EntryAction(Named(n), x, a.strategy) = "create" <=> SecretsAt(Named(n), x) = {}
          BY ActionOf
        <5> QED
          BY <3>1, <5>1
      <4>2. v[4] = "append" => SecretsAt(Named(v[2]), v[3]) \subseteq ConfigAppends(a)
        BY <3>1 DEF ConfigAppends, Planned
      <4> QED
        BY <2>3, <3>1, <4>1, <4>2
    <3> QED
      BY <1>0, <3>1, <3>2, <3>3, ActionOf DEF EntryActions
  <2>6. ASSUME NEW n \in DOMAIN file.contents, v = ProfileView(n)
        PROVE  v[4] = "skip"
    BY <2>4, <2>6 DEF ProfileView, Added, Missing
  <2>7. ASSUME NEW w \in DOMAIN file.groups, v = GroupView(w)
        PROVE  v[4] = "skip"
    BY <1>1, <2>2, <2>7 DEF GroupView, Added
  <2>8. ASSUME NEW w \in DOMAIN file.groups, NEW n \in file.groups[w], v = MemberView(w, n)
        PROVE  v[4] = "skip"
    <3>1. n \in DOMAIN file.contents
      BY <2>1 DEF ConfigFile
    <3>2. Place(g, n) \in Named(n)
      BY <1>0, <2>2, <2>4, <3>1, Placed
    <3>3. <<w, Place(g, n)>> \in members'
      BY <2>2
    <3> QED
      BY <1>1, <2>8, <3>2, <3>3 DEF MemberView, Added
  <2> QED
    BY <1>3, <2>5, <2>6, <2>7, <2>8, ConfigView
<1>4. CASE a.kind = "profile" /\ CommitProfile(a)
  <2>1. Packaged(file) /\ file.kind = "profile"
    BY <1>0, <1>4, ReadAs
  <2>2. v[4] = ProfileAction(a)
    BY <1>4 DEF View
  <2>3. ASSUME Named(Destination(a)) = {}, ProfileAction(a) # "skip"
        PROVE  FALSE
    <3>1. Target(a) \notin Profiles /\ pname' = [pname EXCEPT ![Target(a)] = Destination(a)]
      BY <1>4, <2>3, ProfileCommit DEF Ends, Answer
    <3>2. Target(a) \in Pid /\ Destination(a) \in PName
      BY <1>0, <2>1, ProfilePackage
    <3>3. Target(a) \in Profiles'
      BY <1>0, <3>1, <3>2, VaultAssumption, Halves DEF Profiles, ProfilesSound
    <3> QED
      BY <1>1, <3>1, <3>3
  <2>4. Named(Destination(a)) # {} => v[4] \in {"skip", "replace", "reject"}
    BY <2>2 DEF ProfileAction
  <2> QED
    BY <1>0, <1>4, <2>2, <2>3, <2>4
<1> QED
  BY <1>2, <1>3, <1>4 DEF Apply

\* A commit, which leaves a plan that no longer matches or has nothing left to do.
LEMMA CommitKeeps ==
  ASSUME ImportInv, NEW a \in Requests, CommitImport(a)
  PROVE  ImportInv'
<1>1. CASE \E r \in Failure : Refuses(r)
  BY <1>1, RefusedKeeps
<1>2. ASSUME PlanError(a) = "none", Matches(a), ~Rejected(a), Apply(a), Spent(a),
             UNCHANGED <<file, packages>>
      PROVE  ImportInv'
  <2>1. VaultInv' /\ NamedSecrets'
    BY <1>2, ApplyKeeps
  <2>2. CASE plan' = NoPlan
    BY <1>2, <2>1, <2>2, PlanKept
  <2>3. CASE plan' # NoPlan
    <3> DEFINE u == plan.used \/ result' = "ok"
    <3>1. /\ plan # NoPlan /\ plan.args = a /\ plan.known = Known
          /\ plan.used \in BOOLEAN
          /\ plan.used => /\ plan.args.kind # "workspace"
                          /\ plan.known = Known => \A v \in plan.shown : v[4] = "skip"
      BY <1>2 DEF Matches, ImportInv, PlanFits, NothingLeft
    <3>2. /\ plan' = [plan EXCEPT !.used = u] /\ u \in BOOLEAN
          /\ ~Written(plan.known)
          /\ result' = "ok" => /\ a.kind # "workspace"
                               /\ a.kind = "profile" => ProfileAction(a) # "replace"
      BY <1>2, <2>3, <3>1 DEF Spent
    <3>3. \A s \in Secrets : current'[s] = current[s]
      BY <3>1, <3>2 DEF Written, Known, SecretRow
    <3>4. ASSUME u
          PROVE  /\ plan.args.kind # "workspace"
                 /\ plan.known = Known' => \A v \in plan.shown : v[4] = "skip"
      <4>1. CASE plan.used
        BY <3>1, <4>1
      <4>2. CASE result' = "ok"
        <5>1. ASSUME Known' = Known, NEW v \in View(a)
              PROVE  v[4] = "skip"
          BY <1>2, <3>2, <3>3, <4>2, <5>1, NothingDone
        <5>2. plan.shown = View(a)
          BY <1>2, StillShown
        <5> QED
          BY <3>1, <3>2, <4>2, <5>1, <5>2
      <4> QED
        BY <3>4, <4>1, <4>2
    <3> HIDE DEF u
    <3> QED
      BY <1>2, <2>1, <3>1, <3>2, <3>4, PlanKept
  <2> QED
    BY <2>2, <2>3
<1> QED
  BY <1>1, <1>2, Planning DEF CommitImport, Failure

\* The invariant holds when the vault is new.
LEMMA ImportInitInv == ImportInit => ImportInv
<1> SUFFICES ASSUME ImportInit PROVE ImportInv
  OBVIOUS
<1>1. VaultInv
  BY InitInv DEF ImportInit
<1>2. NamedSecrets
  BY DEF ImportInit, Init, NamedSecrets, Secrets
<1> QED
  BY <1>1, <1>2, PackageAssumption DEF ImportInit, ImportInv, PlanFits, NothingLeft

\* No step leads out of it.
LEMMA ImportStepInv == ImportInv /\ [ImportNext]_importVars => ImportInv'
<1> SUFFICES ASSUME ImportInv, [ImportNext]_importVars PROVE ImportInv'
  OBVIOUS
<1>1. CASE LocalStep
  BY <1>1, LocalKeeps
<1>2. CASE FileStep
  BY <1>2, FileKeeps
<1>3. CASE ImportStep
  BY <1>3, PreviewKeeps, CommitKeeps DEF ImportStep
<1>4. CASE UNCHANGED importVars
  <2>1. VaultInv'
    BY <1>4, InvStep DEF ImportInv, importVars
  <2>2. NamedSecrets' /\ Known' = Known
    BY <1>4 DEF ImportInv, importVars, vars, secrets, profiles, groups, NamedSecrets, Secrets, Known,
       Profiles
  <2> QED
    BY <1>4, <2>1, <2>2 DEF ImportInv, importVars, PlanFits, NothingLeft
<1> QED
  BY <1>1, <1>2, <1>3, <1>4 DEF ImportNext

\* Whatever is exported, received and imported, in whatever order and between whatever
\* operations, the vault passes its integrity check and keeps its base profile.
THEOREM ImportInvariance == ImportSpec => []ImportInv
<1> QED
  BY ImportInitInv, ImportStepInv, PTL DEF ImportSpec

-----------------------------------------------------------------------------
(* Rules.                                                                   *)

\* Only a commit whose plan stands writes a secret.
LEMMA StepOfImport ==
  ASSUME NEW a, Preview(a) \/ CommitImport(a)
  PROVE  UNCHANGED secrets \/ (PlanError(a) = "none" /\ Apply(a))
<1>1. CASE Preview(a)
  BY <1>1 DEF Preview, Refuses, Ends
<1>2. CASE CommitImport(a)
  BY <1>2 DEF CommitImport, Refuses, Ends
<1> QED
  BY <1>1, <1>2

\* A rule that outlasts a step belongs to the versions it was set for.
LEMMA RulesStep ==
  ASSUME ImportInv, [ImportNext]_importVars, NEW s \in rules \cap rules'
  PROVE  Tombstone(s)' \/ (owner'[s] = owner[s] /\ versions[s] \subseteq versions'[s])
<1>0. VaultInv /\ s \in Secrets
  BY Halves DEF ImportInv, SecretsSound
<1>1. CASE UNCHANGED secrets
  BY <1>1 DEF secrets
<1>2. CASE LocalStep
  <2>1. Immutable
    BY <1>0, <1>2, LocalIsNext, OneSecretStep
  <2>2. /\ owner'[s] = owner[s] \/ owner'[s] = Absent
        /\ owner'[s] # Absent /\ current'[s] # 0 => versions[s] \subseteq versions'[s]
        /\ owner'[s] = Absent => s \notin rules'
    BY <1>0, <2>1 DEF Immutable
  <2>3. owner'[s] = owner[s]
    BY <2>2
  <2>4. CASE current'[s] = 0
    BY <2>4 DEF Tombstone
  <2>5. CASE current'[s] # 0
    <3>1. owner'[s] # Absent
      BY <2>2
    <3>2. versions[s] \subseteq versions'[s]
      BY <2>2, <2>5, <3>1
    <3> QED
      BY <2>3, <3>2
  <2> QED
    BY <2>4, <2>5
<1>3. ASSUME NEW K, NEW f, NEW A, Addition(K, f, A)
      PROVE  owner'[s] = owner[s] /\ versions[s] \subseteq versions'[s]
  BY <1>0, <1>3, RowsAdded
<1>4. ASSUME NEW a \in Requests, PlanError(a) = "none", Apply(a)
      PROVE  Tombstone(s)' \/ (owner'[s] = owner[s] /\ versions[s] \subseteq versions'[s])
  <2>0. file # NoFile /\ file.kind = a.kind
    BY <1>4, Planning
  <2>1. CASE a.kind = "env" /\ CommitEnv(a)
    <3>1. Range(file.entries) \subseteq SName
      BY <2>0, <2>1, ReadAs
    <3>2. Ends("corrupt") \/ \E K, f, A : Addition(K, f, A)
      BY <1>0, <2>0, <2>1, <3>1, EnvCommit
    <3> QED
      BY <1>1, <1>3, <3>2 DEF Ends
  <2>2. CASE a.kind = "config" /\ CommitConfig(a)
    <3>1. \E K, f, A : Addition(K, f, A)
      BY <1>0, <2>0, <2>2, ConfigCommit, ReadAs
    <3> QED
      BY <1>3, <3>1
  <2>3. CASE a.kind = "profile" /\ CommitProfile(a)
    <3>1. Packaged(file) /\ file.kind = "profile"
      BY <2>0, <2>3, ReadAs
    <3>2. CASE Ends("ok") \/ Ends("corrupt")
      BY <1>1, <3>2 DEF Ends
    <3>3. ASSUME Range(Renumbered(a)) \cap (Secrets \ Replaced(a)) = {},
                 Replaced(a) \cap rules = {},
                 Brings(Replaced(a), Renumbered(a), [p \in {Source} |-> Target(a)])
          PROVE  owner'[s] = owner[s] /\ versions[s] \subseteq versions'[s]
      <4>1. s \notin Replaced(a) /\ s \notin Range(Renumbered(a)) /\ s \in Sid
        BY <1>0, <3>3 DEF Secrets
      <4>2. Swapped(Replaced(a), Renumbered(a), [p \in {Source} |-> Target(a)])
        BY <1>0, <3>1, <3>3, ProfilePackage, Brought
      <4> QED
        BY <4>1, <4>2 DEF Swapped
    <3> QED
      BY <2>3, <3>2, <3>3, ProfileCommit
  <2>4. CASE a.kind = "workspace" /\ CommitWorkspace
    <3>1. rules' = {}
      BY <2>4 DEF CommitWorkspace, RulesAfterReset
    <3> QED
      BY <3>1
  <2> QED
    BY <1>4, <2>1, <2>2, <2>3, <2>4 DEF Apply
<1>5. CASE FileStep
  <2>1. UNCHANGED secrets
    BY <1>5 DEF FileStep, ExportPackage, ExportPlaintextEnv, ExportConfig, ReceiveFile, RemoveFile,
       Refuses, Ends, vars
  <2> QED
    BY <1>1, <2>1
<1>7. CASE ImportStep
  BY <1>1, <1>4, <1>7, StepOfImport DEF ImportStep
<1>8. CASE UNCHANGED importVars
  BY <1>1, <1>8 DEF importVars, vars
<1> QED
  BY <1>2, <1>5, <1>7, <1>8 DEF ImportNext

\* A rule on a secret is never left to other values: whatever is imported, it goes with
\* its secret or keeps the owner and the versions it was set for, unless the owner made the
\* secret a tombstone.
THEOREM RulesSafety == ImportSpec => RulesStayWithValues
<1>1. ImportInv /\ [ImportNext]_importVars =>
        [\A s \in rules \cap rules' :
            \/ Tombstone(s)'
            \/ owner'[s] = owner[s] /\ versions[s] \subseteq versions'[s]]_importVars
  BY RulesStep
<1> QED
  BY <1>1, ImportInvariance, PTL DEF ImportSpec, RulesStayWithValues

-----------------------------------------------------------------------------
(* A plan that was committed.                                               *)

\* An empty batch.
LEMMA NothingAdded ==
  ASSUME VaultInv, NEW f, Adds({}, f, {})
  PROVE  UNCHANGED <<owner, sname, current, versions>>
<1>1. \A s \in Sid : s \notin {f[k] : k \in {}}
  OBVIOUS
<1>2. /\ owner \in [Sid -> Pid \cup {Absent}] /\ sname \in [Sid -> SName \cup {Absent}]
      /\ current \in [Sid -> Nat] /\ versions \in [Sid -> SUBSET Nat]
  BY Halves DEF SecretsSound
<1> QED
  BY <1>1, <1>2 DEF Adds

\* A commit that skips every entry changes no row.
LEMMA SkippedImport ==
  ASSUME ImportInv, NEW a \in Requests, PlanError(a) = "none", Apply(a), a.kind # "workspace",
         \A v \in View(a) : v[4] = "skip"
  PROVE  Rows' = Rows
<1>0. file # NoFile /\ file.kind = a.kind /\ VaultInv
  BY Planning DEF ImportInv
<1>1. CASE \E r : Ends(r)
  BY <1>1 DEF Ends, Rows, profiles, secrets, groups
<1>2. CASE a.kind = "env" /\ CommitEnv(a)
  <2>1. Range(file.entries) \subseteq SName
    BY <1>0, <1>2, ReadAs
  <2>2. ASSUME NEW p \in Named(a.target), NEW f, Addition(EnvKeys(a, p), f, EnvAppends(a, p)),
               UNCHANGED <<session, loaded, profiles, groups>>
        PROVE  Rows' = Rows
    <3>1. \A i \in DOMAIN file.entries : ~Creates(a, i)
      <4> TAKE i \in DOMAIN file.entries
      <4>1. <<"secret", a.target, file.entries[i],
              EntryAction(Named(a.target), file.entries[i], a.strategy)>> \in View(a)
        BY <1>2 DEF View, Range
      <4> QED
        BY <4>1 DEF Creates
    <3>2. EnvKeys(a, p) = {}
      BY <3>1 DEF EnvKeys
    <3>3. EnvAppends(a, p) = {}
      BY DEF EnvAppends
    <3>4. Adds({}, f, {})
      BY <2>2, <3>2, <3>3 DEF Addition
    <3> QED
      BY <1>0, <2>2, <3>4, NothingAdded DEF Rows, profiles
  <2> QED
    BY <1>0, <1>1, <1>2, <2>1, <2>2, EnvCommit
<1>3. CASE a.kind = "config" /\ CommitConfig(a)
  <2>1. ConfigFile
    BY <1>0, <1>3, ReadAs
  <2>2. PICK g, f :
          /\ NewProfiles(g)
          /\ Addition(ConfigKeys(a, g), f, ConfigAppends(a))
          /\ workspaces' = workspaces \cup DOMAIN file.groups
          /\ members' = members \cup
                 UNION {{w} \X {Place(g, n) : n \in file.groups[w]} : w \in DOMAIN file.groups}
    BY <1>0, <1>3, <2>1, ConfigCommit
  <2>3. Planned(a, "create") = {} /\ Planned(a, "append") = {}
    BY DEF Planned
  <2>4. ConfigKeys(a, g) = {} /\ ConfigAppends(a) = {}
    BY <2>3 DEF ConfigKeys, ConfigAppends
  <2>5. UNCHANGED <<owner, sname, current, versions>>
    <3>1. Adds({}, f, {})
      BY <2>2, <2>4 DEF Addition
    <3> QED
      BY <1>0, <3>1, NothingAdded
  <2>6. Missing = {}
    <3>1. \A n \in DOMAIN file.contents : ProfileView(n) \in View(a)
      BY <1>3, ConfigView
    <3> QED
      BY <3>1 DEF ProfileView, Added, Missing
  <2>7. UNCHANGED <<pname, desc, auto>>
    <3>1. Range(g) = {}
      BY <2>2, <2>6 DEF NewProfiles, Range
    <3>2. pname \in [Pid -> PName \cup {Absent}] /\ desc \in [Pid -> Desc]
      BY <1>0, Halves DEF ProfilesSound
    <3>3. \A p \in Pid : pname'[p] = pname[p] /\ desc'[p] = desc[p]
      BY <2>2, <3>1 DEF NewProfiles
    <3>4. pname' \in [Pid -> PName \cup {Absent}] /\ desc' \in [Pid -> Desc] /\ auto' = auto
      BY <2>2 DEF NewProfiles
    <3>5. pname' = pname
      BY <3>2, <3>3, <3>4
    <3>6. desc' = desc
      BY <3>2, <3>3, <3>4
    <3> QED
      BY <3>4, <3>5, <3>6
  <2>8. workspaces' = workspaces
    <3>1. \A w \in DOMAIN file.groups : GroupView(w) \in View(a)
      BY <1>3, ConfigView
    <3>2. \A w \in DOMAIN file.groups : w \in workspaces
      BY <3>1 DEF GroupView, Added
    <3> QED
      BY <2>2, <3>2
  <2>9. members' = members
    <3>1. ASSUME NEW w \in DOMAIN file.groups, NEW n \in file.groups[w]
          PROVE  <<w, Place(g, n)>> \in members
      <4>1. MemberView(w, n) \in View(a)
        BY <1>3, ConfigView
      <4>2. \E p \in Named(n) : <<w, p>> \in members
        BY <4>1 DEF MemberView, Added
      <4>3. n \in DOMAIN file.contents
        BY <2>1 DEF ConfigFile
      <4>4. Named(n) = {Place(g, n)}
        BY <1>0, <2>2, <2>6, <4>3, Placed
      <4> QED
        BY <4>2, <4>4
    <3> QED
      BY <2>2, <3>1
  <2> QED
    BY <2>5, <2>7, <2>8, <2>9 DEF Rows, groups
<1>4. CASE a.kind = "profile" /\ CommitProfile(a)
  <2>1. ProfileAction(a) = "skip"
    BY <1>4 DEF View
  <2> QED
    BY <1>1, <1>4, <2>1, ProfileCommit
<1> QED
  BY <1>2, <1>3, <1>4 DEF Apply

\* A commit that is sent twice changes the vault at most once.
THEOREM CommitOnce == ImportSpec => NoBlindRepeat
<1>1. ASSUME ImportInv, plan # NoPlan, plan.used, Rows' # Rows, NEW a \in Requests, CommitImport(a)
      PROVE  FALSE
  <2>1. CASE \E r : Refuses(r)
    BY <1>1, <2>1 DEF Refuses, Ends, Rows, profiles, secrets, groups
  <2>2. CASE PlanError(a) = "none" /\ Matches(a) /\ Apply(a)
    <3>1. plan.known = Known /\ plan.args = a /\ plan.shown = View(a)
      BY <1>1, <2>2, StillShown DEF Matches
    <3>2. a.kind # "workspace" /\ \A v \in View(a) : v[4] = "skip"
      BY <1>1, <3>1 DEF ImportInv, NothingLeft
    <3> QED
      BY <1>1, <2>2, <3>2, SkippedImport
  <2> QED
    BY <1>1, <2>1, <2>2 DEF CommitImport
<1>2. ImportInv /\ [ImportNext]_importVars =>
        [plan # NoPlan /\ plan.used /\ Rows' # Rows => \A a \in Requests : ~CommitImport(a)]_importVars
  BY <1>1
<1> QED
  BY <1>2, ImportInvariance, PTL DEF ImportSpec, NoBlindRepeat

-----------------------------------------------------------------------------
(* A commit does what its preview showed.                                   *)

CreatedView(s) == <<"secret", pname'[owner'[s]], sname'[s], "create">>
AppendView(s) == <<"secret", pname[owner[s]], sname[s], "append">>

\* What Changes says, one change at a time.
LEMMA ChangeSeen ==
  ASSUME NEW v
  PROVE  v \in Changes <=>
            \/ \E s \in Secrets' \ Secrets : v = CreatedView(s)
            \/ \E s \in {t \in Secrets : current'[t] = current[t] + 1} : v = AppendView(s)
            \/ \E p \in Profiles' \ Profiles : v = <<"profile", pname'[p], pname'[p], "create">>
            \/ \E w \in workspaces' \ workspaces : v = <<"workspace", w, w, "create">>
            \/ \E m \in members' \ members : v = <<"membership", m[1], pname'[m[2]], "create">>
BY DEF Changes, CreatedView, AppendView

\* The changes of a batch are its keys and the secrets that get a version.
LEMMA BatchSeen ==
  ASSUME VaultInv, NEW K, NEW f, NEW A, Addition(K, f, A), NEW v
  PROVE  /\ (\E s \in Secrets' \ Secrets : v = CreatedView(s))
               <=> \E k \in K : v = <<"secret", pname'[k[1]], k[2], "create">>
         /\ (\E s \in {t \in Secrets : current'[t] = current[t] + 1} : v = AppendView(s))
               <=> \E s \in A : v = AppendView(s)
<1>1. /\ \A k \in K : /\ f[k] \in Sid \ drawnSecrets
                      /\ owner'[f[k]] = k[1] /\ sname'[f[k]] = k[2]
      /\ \A s \in Secrets : current'[s] = IF s \in A THEN current[s] + 1 ELSE current[s]
      /\ Secrets' = Secrets \cup {f[k] : k \in K}
  BY RowsAdded
<1>2. Secrets \subseteq drawnSecrets /\ current \in [Sid -> Nat] /\ Secrets \subseteq Sid
  BY Halves DEF SecretsSound, Secrets
<1>3. A \subseteq Secrets
  BY DEF Addition
<1>4. Secrets' \ Secrets = {f[k] : k \in K}
  BY <1>1, <1>2
<1>5. \A k \in K : CreatedView(f[k]) = <<"secret", pname'[k[1]], k[2], "create">>
  BY <1>1 DEF CreatedView
<1>6. {t \in Secrets : current'[t] = current[t] + 1} = A
  BY <1>1, <1>2, <1>3
<1> QED
  BY <1>4, <1>5, <1>6

\* No row that was there is touched by a batch.
LEMMA BatchAdds ==
  ASSUME VaultInv, NEW K, NEW f, NEW A, Addition(K, f, A),
         \A p \in Profiles : pname'[p] = pname[p] /\ desc'[p] = desc[p], auto' = auto,
         workspaces \subseteq workspaces', members \subseteq members'
  PROVE  OnlyAdds
<1>1. \A s \in Secrets : owner'[s] = owner[s] /\ sname'[s] = sname[s]
                         /\ versions[s] \subseteq versions'[s]
  BY RowsAdded
<1>2. \A p \in Profiles : ProfileRow(p)' = ProfileRow(p)
  BY DEF ProfileRow
<1> QED
  BY <1>1, <1>2 DEF OnlyAdds

\* An env import makes the changes its view shows.
LEMMA EnvBinds ==
  ASSUME ImportInv, NEW a, a.kind = "env", file.kind = "env", Range(file.entries) \subseteq SName,
         CommitEnv(a), ~Ends("corrupt")
  PROVE  /\ Changes = {v \in View(a) : v[4] \in {"create", "append"}}
         /\ OnlyAdds
<1>0. VaultInv
  BY DEF ImportInv
<1>1. PICK p \in Named(a.target) :
         \E f \in [EnvKeys(a, p) -> Sid \ (drawnSecrets \cup PackageIds)] :
            /\ Addition(EnvKeys(a, p), f, EnvAppends(a, p))
            /\ UNCHANGED <<session, loaded, profiles, groups>>
  BY <1>0, EnvCommit
<1>2. PICK f : /\ Addition(EnvKeys(a, p), f, EnvAppends(a, p))
               /\ UNCHANGED <<session, loaded, profiles, groups>>
  BY <1>1
<1>3. /\ UNCHANGED <<pname, desc, auto, workspaces, members>> /\ Profiles' = Profiles
      /\ Named(a.target) = {p} /\ pname[p] = a.target
  BY <1>0, <1>2, OneName DEF profiles, groups, Profiles
<1>4. OnlyAdds
  BY <1>0, <1>2, <1>3, BatchAdds
<1> DEFINE Entry(x) == <<"secret", a.target, x, EntryAction(Named(a.target), x, a.strategy)>>
<1>5. \A v : v \in View(a) <=> \E x \in Range(file.entries) : v = Entry(x)
  BY DEF View
<1>6. ASSUME NEW v
      PROVE  (\E k \in EnvKeys(a, p) : v = <<"secret", pname'[k[1]], k[2], "create">>)
                <=> v \in View(a) /\ v[4] = "create"
  <2>1. \A k : k \in EnvKeys(a, p) <=>
                 \E x \in Range(file.entries) :
                    k = <<p, x>> /\ EntryAction(Named(a.target), x, a.strategy) = "create"
    BY DEF EnvKeys, Creates, Range
  <2>2. pname'[p] = a.target
    BY <1>3
  <2>3. ASSUME NEW k \in EnvKeys(a, p), v = <<"secret", pname'[k[1]], k[2], "create">>
        PROVE  v \in View(a) /\ v[4] = "create"
    BY <1>5, <2>1, <2>2, <2>3
  <2>4. ASSUME v \in View(a), v[4] = "create"
        PROVE  \E k \in EnvKeys(a, p) : v = <<"secret", pname'[k[1]], k[2], "create">>
    <3>1. PICK x \in Range(file.entries) : v = Entry(x)
      BY <1>5, <2>4
    <3>2. EntryAction(Named(a.target), x, a.strategy) = "create"
      BY <2>4, <3>1
    <3>3. <<p, x>> \in EnvKeys(a, p)
      BY <2>1, <3>2
    <3>4. v = <<"secret", pname'[<<p, x>>[1]], <<p, x>>[2], "create">>
      BY <2>2, <3>1, <3>2
    <3> QED
      BY <3>3, <3>4
  <2> QED
    BY <2>3, <2>4
<1>7. ASSUME NEW v
      PROVE  (\E s \in EnvAppends(a, p) : v = AppendView(s)) <=> v \in View(a) /\ v[4] = "append"
  <2>1. ASSUME NEW s \in EnvAppends(a, p), v = AppendView(s)
        PROVE  v \in View(a) /\ v[4] = "append"
    BY <1>3, <2>1 DEF EnvAppends, AppendView
  <2>2. ASSUME v \in View(a), v[4] = "append"
        PROVE  \E s \in EnvAppends(a, p) : v = AppendView(s)
    <3>1. PICK x \in Range(file.entries) : v = Entry(x)
      BY <1>5, <2>2
    <3>2. EntryAction(Named(a.target), x, a.strategy) = "append"
      BY <2>2, <3>1
    <3>3. SecretsAt({p}, x) # {}
      <4>1. EntryAction(Named(a.target), x, a.strategy) = "create"
               <=> SecretsAt(Named(a.target), x) = {}
        BY ActionOf
      <4> QED
        BY <1>3, <3>2, <4>1
    <3>4. PICK s \in SecretsAt({p}, x) : TRUE
      BY <3>3
    <3>5. s \in Secrets /\ owner[s] = p /\ sname[s] = x
      BY DEF SecretsAt
    <3>6. AppendView(s) = v
      BY <1>3, <3>1, <3>2, <3>5 DEF AppendView
    <3>7. s \in EnvAppends(a, p)
      BY <1>3, <2>2, <3>5, <3>6 DEF EnvAppends, AppendView
    <3> QED
      BY <3>6, <3>7
  <2> QED
    BY <2>1, <2>2
<1>8. ASSUME NEW v
      PROVE  v \in Changes <=> v \in View(a) /\ v[4] \in {"create", "append"}
  <2>1. v \in Changes <=> \/ \E k \in EnvKeys(a, p) : v = <<"secret", pname'[k[1]], k[2], "create">>
                          \/ \E s \in EnvAppends(a, p) : v = AppendView(s)
    BY <1>0, <1>2, <1>3, ChangeSeen, BatchSeen
  <2> QED
    BY <1>6, <1>7, <2>1
<1> QED
  BY <1>4, <1>8

\* So does a config import.
LEMMA ConfigBinds ==
  ASSUME ImportInv, NEW a, a.kind = "config", ConfigFile, CommitConfig(a)
  PROVE  /\ Changes = {v \in View(a) : v[4] \in {"create", "append"}}
         /\ OnlyAdds
<1>0. VaultInv
  BY DEF ImportInv
<1>1. PICK g, f :
         /\ NewProfiles(g)
         /\ Addition(ConfigKeys(a, g), f, ConfigAppends(a))
         /\ workspaces' = workspaces \cup DOMAIN file.groups
         /\ members' = members \cup
                UNION {{w} \X {Place(g, n) : n \in file.groups[w]} : w \in DOMAIN file.groups}
  BY <1>0, ConfigCommit
<1>2. OnlyAdds
  BY <1>0, <1>1, BatchAdds DEF NewProfiles
<1>3. /\ \A n \in DOMAIN file.contents :
            /\ pname'[Place(g, n)] = n
            /\ n \in Missing => Place(g, n) = g[n] /\ Place(g, n) \notin drawn
            /\ n \notin Missing => Named(n) = {Place(g, n)}
      /\ \A n \in Missing : n \in DOMAIN file.contents /\ Named(n) = {}
      /\ \A w \in DOMAIN file.groups : file.groups[w] \subseteq DOMAIN file.contents
  BY <1>0, <1>1, Placed DEF Place, Missing, ConfigFile
<1>4. /\ \A n \in DOMAIN file.contents : \A x \in file.contents[n] :
            /\ EntryView(a, n, x) \in View(a)
            /\ EntryView(a, n, x)[1] = "secret" /\ EntryView(a, n, x)[2] = n
            /\ EntryView(a, n, x)[3] = x
      /\ \A v \in View(a) : v[1] = "secret" =>
            \E n \in DOMAIN file.contents : \E x \in file.contents[n] : v = EntryView(a, n, x)
  BY ConfigEntries DEF EntryView
<1>5. ASSUME NEW v
      PROVE  (\E k \in ConfigKeys(a, g) : v = <<"secret", pname'[k[1]], k[2], "create">>)
                <=> v \in Planned(a, "create")
  <2>1. ASSUME NEW u \in Planned(a, "create")
        PROVE  u = <<"secret", pname'[Place(g, u[2])], u[3], "create">>
    <3>1. PICK n \in DOMAIN file.contents : \E x \in file.contents[n] : u = EntryView(a, n, x)
      BY <1>4 DEF Planned
    <3>2. PICK x \in file.contents[n] : u = EntryView(a, n, x)
      BY <3>1
    <3>3. u[4] = "create"
      BY DEF Planned
    <3> QED
      BY <1>3, <3>2, <3>3 DEF EntryView
  <2>2. \A k \in ConfigKeys(a, g) : \E u \in Planned(a, "create") : k = <<Place(g, u[2]), u[3]>>
    BY DEF ConfigKeys
  <2>3. \A u \in Planned(a, "create") : <<Place(g, u[2]), u[3]>> \in ConfigKeys(a, g)
    BY DEF ConfigKeys
  <2>4. ASSUME NEW k \in ConfigKeys(a, g), v = <<"secret", pname'[k[1]], k[2], "create">>
        PROVE  v \in Planned(a, "create")
    BY <2>1, <2>2, <2>4
  <2>5. ASSUME v \in Planned(a, "create")
        PROVE  \E k \in ConfigKeys(a, g) : v = <<"secret", pname'[k[1]], k[2], "create">>
    <3>1. v = <<"secret", pname'[<<Place(g, v[2]), v[3]>>[1]], <<Place(g, v[2]), v[3]>>[2], "create">>
      BY <2>1, <2>5
    <3> QED
      BY <2>3, <2>5, <3>1
  <2> QED
    BY <2>4, <2>5
<1>6. ASSUME NEW v
      PROVE  (\E s \in ConfigAppends(a) : v = AppendView(s)) <=> v \in Planned(a, "append")
  <2>1. ASSUME NEW u \in Planned(a, "append")
        PROVE  /\ SecretsAt(Named(u[2]), u[3]) # {}
               /\ \A s \in SecretsAt(Named(u[2]), u[3]) : AppendView(s) = u
    <3>1. PICK n \in DOMAIN file.contents : \E x \in file.contents[n] : u = EntryView(a, n, x)
      BY <1>4 DEF Planned
    <3>2. PICK x \in file.contents[n] : u = EntryView(a, n, x)
      BY <3>1
    <3>3. u[4] = "append"
      BY DEF Planned
    <3>4. u = <<"secret", n, x, "append">> /\ EntryAction(Named(n), x, a.strategy) = "append"
      BY <3>2, <3>3 DEF EntryView
    <3>5. EntryAction(Named(n), x, a.strategy) = "create" <=> SecretsAt(Named(n), x) = {}
      BY ActionOf
    <3>6. ASSUME NEW s \in SecretsAt(Named(n), x)
          PROVE  AppendView(s) = <<"secret", n, x, "append">>
      BY DEF AppendView, SecretsAt, Named
    <3> QED
      BY <3>4, <3>5, <3>6
  <2>2. \A s : s \in ConfigAppends(a) <=>
                 \E u \in Planned(a, "append") : s \in SecretsAt(Named(u[2]), u[3])
    BY DEF ConfigAppends
  <2> QED
    BY <2>1, <2>2
<1>7. ASSUME NEW v
      PROVE  (\E p \in Profiles' \ Profiles : v = <<"profile", pname'[p], pname'[p], "create">>)
                <=> \E n \in DOMAIN file.contents : v = ProfileView(n) /\ v[4] = "create"
  <2>1. Profiles' \ Profiles = {g[n] : n \in Missing}
    <3>1. Profiles \subseteq drawn
      BY <1>0, Halves DEF ProfilesSound
    <3> QED
      BY <1>1, <1>3, <3>1 DEF NewProfiles, Range
  <2>2. \A n \in Missing : pname'[g[n]] = n /\ n \in DOMAIN file.contents
    BY <1>1, <1>3 DEF NewProfiles
  <2>3. \A n \in DOMAIN file.contents :
           /\ n \in Missing => ProfileView(n) = <<"profile", n, n, "create">>
           /\ n \notin Missing => ProfileView(n)[4] # "create"
    BY DEF Missing, ProfileView, Added
  <2>4. \A n \in DOMAIN file.contents : n \notin Missing \/ ProfileView(n)[4] = "create"
    BY <2>3
  <2> QED
    BY <2>1, <2>2, <2>3, <2>4
<1>8. ASSUME NEW v
      PROVE  (\E w \in workspaces' \ workspaces : v = <<"workspace", w, w, "create">>)
                <=> \E w \in DOMAIN file.groups : v = GroupView(w) /\ v[4] = "create"
  <2>1. \A w : w \in workspaces' \ workspaces <=> w \in DOMAIN file.groups /\ w \notin workspaces
    BY <1>1
  <2>2. \A w : /\ w \notin workspaces => GroupView(w) = <<"workspace", w, w, "create">>
               /\ w \in workspaces => GroupView(w)[4] # "create"
    BY DEF GroupView, Added
  <2>3. \A w : w \notin workspaces => GroupView(w)[4] = "create"
    BY <2>2
  <2> QED
    BY <2>1, <2>2, <2>3
<1>9. ASSUME NEW v
      PROVE  (\E m \in members' \ members : v = <<"membership", m[1], pname'[m[2]], "create">>)
                <=> \E w \in DOMAIN file.groups : \E n \in file.groups[w] :
                       v = MemberView(w, n) /\ v[4] = "create"
  <2>1. \A m : m \in members' \ members <=>
                 \E w \in DOMAIN file.groups : \E n \in file.groups[w] :
                    m = <<w, Place(g, n)>> /\ <<w, Place(g, n)>> \notin members
    <3> DEFINE Pairs(w) == {w} \X {Place(g, n) : n \in file.groups[w]}
               U == UNION {Pairs(w) : w \in DOMAIN file.groups}
    <3>1. \A m : m \in U <=> \E w \in DOMAIN file.groups : m \in Pairs(w)
      <4> HIDE DEF Pairs
      <4> QED
        OBVIOUS
    <3>2. \A m, w : m \in Pairs(w) <=> \E n \in file.groups[w] : m = <<w, Place(g, n)>>
      OBVIOUS
    <3>3. members' = members \cup U
      BY <1>1
    <3> HIDE DEF U, Pairs
    <3>4. \A m : m \in U <=>
                   \E w \in DOMAIN file.groups : \E n \in file.groups[w] : m = <<w, Place(g, n)>>
      BY <3>1, <3>2
    <3>5. \A m : m \in members' \ members <=> m \in U /\ m \notin members
      BY <3>3
    <3>6. ASSUME NEW m
          PROVE  m \in U /\ m \notin members <=>
                   \E w \in DOMAIN file.groups : \E n \in file.groups[w] :
                      m = <<w, Place(g, n)>> /\ <<w, Place(g, n)>> \notin members
      <4>1. m \in U <=> \E w \in DOMAIN file.groups : \E n \in file.groups[w] : m = <<w, Place(g, n)>>
        BY <3>4
      <4> QED
        BY <4>1, Zenon
    <3> QED
      BY <3>5, <3>6
  <2>2. ASSUME NEW w \in DOMAIN file.groups, NEW n \in file.groups[w]
        PROVE  /\ <<w, Place(g, n)>> \notin members => MemberView(w, n) = <<"membership", w, n, "create">>
               /\ <<w, Place(g, n)>> \in members => MemberView(w, n)[4] # "create"
               /\ pname'[Place(g, n)] = n
    <3>1. n \in DOMAIN file.contents
      BY <1>3
    <3>2. <<w, Place(g, n)>> \in members <=> \E p \in Named(n) : <<w, p>> \in members
      <4>1. CASE n \in Missing
        <5>1. members \subseteq workspaces \X Profiles /\ Profiles \subseteq drawn
          BY <1>0, Halves DEF GroupsSound, ProfilesSound
        <5> QED
          BY <1>3, <3>1, <4>1, <5>1
      <4>2. CASE n \notin Missing
        <5>1. Named(n) = {Place(g, n)}
          BY <1>3, <3>1, <4>2
        <5> QED
          BY <5>1
      <4> QED
        BY <4>1, <4>2
    <3> QED
      BY <1>3, <3>1, <3>2 DEF MemberView, Added
  <2>3. \A w \in DOMAIN file.groups : \A n \in file.groups[w] :
           /\ <<w, Place(g, n)>> \notin members => MemberView(w, n) = <<"membership", w, n, "create">>
                                                   /\ MemberView(w, n)[4] = "create"
           /\ <<w, Place(g, n)>> \in members => MemberView(w, n)[4] # "create"
           /\ <<w, Place(g, n)>>[1] = w /\ <<w, Place(g, n)>>[2] = Place(g, n)
           /\ pname'[Place(g, n)] = n
    BY <2>2
  <2>4. ASSUME NEW m \in members' \ members, v = <<"membership", m[1], pname'[m[2]], "create">>
        PROVE  \E w \in DOMAIN file.groups : \E n \in file.groups[w] :
                  v = MemberView(w, n) /\ v[4] = "create"
    <3>1. PICK w \in DOMAIN file.groups :
             \E n \in file.groups[w] : m = <<w, Place(g, n)>> /\ <<w, Place(g, n)>> \notin members
      BY <2>1, <2>4
    <3>2. PICK n \in file.groups[w] : m = <<w, Place(g, n)>> /\ <<w, Place(g, n)>> \notin members
      BY <3>1
    <3> QED
      BY <2>3, <2>4, <3>2
  <2>5. ASSUME NEW w \in DOMAIN file.groups, NEW n \in file.groups[w], v = MemberView(w, n),
               v[4] = "create"
        PROVE  \E m \in members' \ members : v = <<"membership", m[1], pname'[m[2]], "create">>
    <3>1. <<w, Place(g, n)>> \notin members /\ v = <<"membership", w, n, "create">>
      BY <2>3, <2>5
    <3>2. <<w, Place(g, n)>> \in members' \ members
      BY <2>1, <3>1
    <3>3. v = <<"membership", <<w, Place(g, n)>>[1], pname'[<<w, Place(g, n)>>[2]], "create">>
      BY <2>3, <3>1
    <3> QED
      BY <3>2, <3>3
  <2> QED
    BY <2>4, <2>5
<1>10. ASSUME NEW v
       PROVE  v \in Changes <=> v \in View(a) /\ v[4] \in {"create", "append"}
  <2>1. v \in Changes <=>
          \/ v \in Planned(a, "create")
          \/ v \in Planned(a, "append")
          \/ \E n \in DOMAIN file.contents : v = ProfileView(n) /\ v[4] = "create"
          \/ \E w \in DOMAIN file.groups : v = GroupView(w) /\ v[4] = "create"
          \/ \E w \in DOMAIN file.groups : \E n \in file.groups[w] :
                v = MemberView(w, n) /\ v[4] = "create"
    <3>1. /\ (\E s \in Secrets' \ Secrets : v = CreatedView(s)) <=> v \in Planned(a, "create")
          /\ (\E s \in {t \in Secrets : current'[t] = current[t] + 1} : v = AppendView(s))
                <=> v \in Planned(a, "append")
      BY <1>0, <1>1, <1>5, <1>6, BatchSeen
    <3> QED
      BY <1>7, <1>8, <1>9, <3>1, ChangeSeen
  <2>2. \A n, w : /\ ProfileView(n)[1] # "secret" /\ ProfileView(n)[4] # "append"
                  /\ GroupView(n)[1] # "secret" /\ GroupView(n)[4] # "append"
                  /\ MemberView(w, n)[1] # "secret" /\ MemberView(w, n)[4] # "append"
    BY DEF ProfileView, GroupView, MemberView, Added
  <2>3. \A act : v \in Planned(a, act) <=> v \in View(a) /\ v[1] = "secret" /\ v[4] = act
    BY DEF Planned
  <2>4. v \in View(a) <=>
            \/ v \in View(a) /\ v[1] = "secret"
            \/ \E n \in DOMAIN file.contents : v = ProfileView(n)
            \/ \E w \in DOMAIN file.groups : v = GroupView(w)
            \/ \E w \in DOMAIN file.groups : \E n \in file.groups[w] : v = MemberView(w, n)
    BY <1>4, ConfigView
  <2> QED
    BY <2>1, <2>2, <2>3, <2>4
<1> QED
  BY <1>2, <1>10

\* A profile import touches the profile it names.
LEMMA ProfileBinds ==
  ASSUME ImportInv, NEW a \in Requests, file.kind = "profile", Packaged(file), CommitProfile(a),
         Rows' # Rows
  PROVE  OnlyInside(Destination(a))
<1> USE VaultAssumption
<1> DEFINE n == Destination(a)
           p == Target(a)
           T == Range(Renumbered(a))
           gone == Replaced(a)
<1>0. VaultInv /\ ProfilesSound /\ SecretsSound
  BY Halves DEF ImportInv
<1>1. /\ T \cap (Secrets \ gone) = {}
      /\ pname' = [pname EXCEPT ![p] = n]
      /\ desc' = [desc EXCEPT ![p] = file.descs[Source]]
      /\ Brings(gone, Renumbered(a), [r \in {Source} |-> p])
      /\ UNCHANGED <<auto, groups>>
  <2>1. ~Ends("ok") /\ ~Ends("corrupt")
    BY DEF Ends, Rows, profiles, secrets
  <2> QED
    BY <2>1, ProfileCommit
<1>2. /\ n \in PName /\ p \in Pid
      /\ Named(n) # {} => Named(n) = {p}
      /\ Renumbered(a) \in [DOMAIN file.owners -> Sid]
      /\ DOMAIN file.names = {Source}
  BY <1>0, ProfilePackage
<1>3. /\ \A r \in Pid \ {p} : pname'[r] = pname[r] /\ desc'[r] = desc[r]
      /\ pname'[p] = n /\ auto' = auto
  BY <1>0, <1>1, <1>2 DEF ProfilesSound
<1>4. /\ \A u \in T : owner'[u] = p
      /\ \A u \in Sid \ T : u \in gone => owner'[u] = Absent
      /\ \A u \in Sid \ T : u \notin gone =>
            owner'[u] = owner[u] /\ sname'[u] = sname[u] /\ current'[u] = current[u]
  <2>1. Swapped(gone, Renumbered(a), [r \in {Source} |-> p])
    BY <1>1, <1>2, Brought
  <2>2. \A s \in DOMAIN file.owners : file.owners[s] = Source
    BY <1>2 DEF Packaged
  <2> HIDE DEF p, gone
  <2> QED
    BY <2>1, <2>2 DEF Swapped
<1>5. \A s \in gone : pname[owner[s]] = n
  BY <1>2 DEF Replaced, Named
<1> HIDE DEF n, p, T, gone
<1>6. ASSUME NEW r \in Profiles \cup Profiles', pname[r] # n, pname'[r] # n
      PROVE  ProfileRow(r)' = ProfileRow(r)
  <2>1. r \in Pid /\ r # p
    BY <1>3, <1>6 DEF Profiles
  <2> QED
    BY <1>3, <2>1 DEF ProfileRow
<1>7. ASSUME NEW s \in Secrets \cup Secrets'
      PROVE  /\ SecretRow(s)' = SecretRow(s) \/ (s \in Secrets => pname[owner[s]] = n)
             /\ s \in Secrets' /\ SecretRow(s)' # SecretRow(s) => pname'[owner'[s]] = n
  <2>1. s \in Sid
    BY DEF Secrets
  <2>2. CASE s \in T
    BY <1>1, <1>3, <1>4, <1>5, <2>2
  <2>3. CASE s \notin T /\ s \in gone
    BY <1>4, <1>5, <2>1, <2>3 DEF Secrets
  <2>4. CASE s \notin T /\ s \notin gone
    BY <1>4, <2>1, <2>4 DEF SecretRow
  <2> QED
    BY <2>2, <2>3, <2>4
<1>8. OnlyInside(n)
  BY <1>1, <1>6, <1>7 DEF OnlyInside
<1> QED
  BY <1>8 DEF n

\* A commit makes the changes its preview showed: an env or config import creates and
\* appends exactly those entries and loses nothing, a profile import stays inside the
\* profile it named.
THEOREM CommitAsShown == ImportSpec => PreviewBinds
<1>1. ASSUME ImportInv, Rows' # Rows, NEW a \in Requests, CommitImport(a)
      PROVE  /\ a.kind \in {"env", "config"} =>
                   /\ Changes = {v \in plan.shown : v[4] \in {"create", "append"}}
                   /\ OnlyAdds
             /\ a.kind = "profile" => \A v \in plan.shown : OnlyInside(v[2])
  <2>1. ~(\E r : Ends(r))
    BY <1>1 DEF Ends, Rows, profiles, secrets, groups
  <2>2. PlanError(a) = "none" /\ Matches(a) /\ Apply(a)
    BY <1>1, <2>1 DEF CommitImport, Refuses
  <2>3. plan.shown = View(a)
    BY <1>1, <2>2, StillShown
  <2>4. file # NoFile /\ file.kind = a.kind
    BY <2>2, Planning
  <2>5. ASSUME a.kind = "env"
        PROVE  Changes = {v \in View(a) : v[4] \in {"create", "append"}} /\ OnlyAdds
    BY <1>1, <2>1, <2>2, <2>4, <2>5, EnvBinds, ReadAs DEF Apply
  <2>6. ASSUME a.kind = "config"
        PROVE  Changes = {v \in View(a) : v[4] \in {"create", "append"}} /\ OnlyAdds
    BY <1>1, <2>2, <2>4, <2>6, ConfigBinds, ReadAs DEF Apply
  <2>7. ASSUME a.kind = "profile", NEW v \in View(a)
        PROVE  OnlyInside(v[2])
    <3>1. v[2] = Destination(a)
      BY <2>7 DEF View
    <3>2. CommitProfile(a) /\ Packaged(file) /\ file.kind = "profile"
      BY <1>1, <2>2, <2>4, <2>7, ReadAs DEF Apply
    <3> QED
      BY <1>1, <3>1, <3>2, ProfileBinds
  <2> QED
    BY <2>3, <2>5, <2>6, <2>7
<1>2. ImportInv /\ [ImportNext]_importVars =>
        [Rows' # Rows => \A a \in Requests : CommitImport(a) =>
            /\ a.kind \in {"env", "config"} =>
                  /\ Changes = {v \in plan.shown : v[4] \in {"create", "append"}}
                  /\ OnlyAdds
            /\ a.kind = "profile" => \A v \in plan.shown : OnlyInside(v[2])]_importVars
  BY <1>1
<1> QED
  BY <1>2, ImportInvariance, PTL DEF ImportSpec, PreviewBinds

-----------------------------------------------------------------------------
(* A workspace package restores what was exported.                          *)

\* The content of the vault after a workspace import is that of the package.
LEMMA Restored ==
  ASSUME ImportInv, Packaged(file), file.kind = "workspace", CommitWorkspace
  PROVE  Content(Restrict(pname', Profiles'), desc', auto', Restrict(owner', Secrets'), sname',
                 current', workspaces', members')
         = Content(file.names, file.descs, file.auto, file.owners, file.labels, file.lasts,
                   file.groups, file.members)
<1> DEFINE P == DOMAIN file.names
           S == DOMAIN file.owners
           q == Rebased
<1>1. /\ q \in [P -> Pid] /\ IsInjective(q)
      /\ SameIds \in [S -> Sid] /\ Range(SameIds) = S
  BY WorkspacePackage
<1>2. /\ P \subseteq Pid /\ S \subseteq Sid
      /\ \A i \in P : file.names[i] \in PName
      /\ \A s \in S : file.owners[s] \in P
      /\ file.auto \subseteq P
      /\ file.members \subseteq file.groups \X P
  BY DEF Packaged
<1>3. /\ \A i \in P : pname'[q[i]] = file.names[i] /\ desc'[q[i]] = file.descs[i]
      /\ \A p \in Pid \ Range(q) : pname'[p] = Absent
      /\ auto' = {q[p] : p \in file.auto}
      /\ Brings(Secrets, SameIds, q)
      /\ workspaces' = file.groups
      /\ members' = {<<m[1], q[m[2]]>> : m \in file.members}
  BY WorkspaceCommit
<1>4. /\ \A u \in S : owner'[u] = q[file.owners[u]] /\ sname'[u] = file.labels[u]
                      /\ current'[u] = file.lasts[u]
      /\ \A u \in Sid \ S : owner'[u] = Absent
  <2>1. Swapped(Secrets, SameIds, q)
    BY <1>1, <1>3, Brought
  <2> HIDE DEF q
  <2> QED
    BY <1>1, <2>1 DEF Swapped, SameIds, Secrets
<1> HIDE DEF q
<1>5. /\ \A i \in P : q[i] \in Range(q) /\ q[i] \in Pid
      /\ \A p \in Range(q) : \E i \in P : p = q[i]
      /\ \A i, j \in P : q[i] = q[j] => i = j
  BY <1>1 DEF Range, IsInjective
<1>6. Profiles' = Range(q)
  BY <1>2, <1>3, <1>5, VaultAssumption DEF Profiles
<1>7. Secrets' = S
  BY <1>2, <1>4, <1>5, VaultAssumption DEF Secrets
<1> DEFINE names == Restrict(pname', Profiles')
           owners == Restrict(owner', Secrets')
<1>8. /\ DOMAIN names = Range(q) /\ DOMAIN owners = S
      /\ \A i \in P : names[q[i]] = file.names[i]
      /\ \A s \in S : owners[s] = q[file.owners[s]]
  BY <1>3, <1>4, <1>5, <1>6, <1>7 DEF Restrict
<1> HIDE DEF names, owners, P, S
<1>9. {<<names[p], desc'[p], p \in auto'>> : p \in DOMAIN names}
      = {<<file.names[p], file.descs[p], p \in file.auto>> : p \in P}
  <2>1. \A i \in P : q[i] \in auto' <=> i \in file.auto
    BY <1>2, <1>3, <1>5
  <2>2. \A i \in P : (q[i] \in auto') = (i \in file.auto)
    BY <2>1
  <2>3. \A i \in P : <<names[q[i]], desc'[q[i]], q[i] \in auto'>>
                     = <<file.names[i], file.descs[i], i \in file.auto>>
    BY <1>3, <1>8, <2>2
  <2> QED
    BY <1>5, <1>8, <2>3
<1>10. {<<names[owners[s]], sname'[s], current'[s]>> : s \in DOMAIN owners}
       = {<<file.names[file.owners[s]], file.labels[s], file.lasts[s]>> : s \in S}
  BY <1>2, <1>4, <1>8
<1>11. {<<m[1], names[m[2]]>> : m \in {k \in members' : k[2] \in DOMAIN names}}
       = {<<m[1], file.names[m[2]]>> : m \in {k \in file.members : k[2] \in P}}
  <2>1. \A m \in file.members : m[2] \in P /\ names[q[m[2]]] = file.names[m[2]]
    BY <1>2, <1>8
  <2>2. {k \in file.members : k[2] \in P} = file.members
    BY <2>1
  <2>3. {k \in members' : k[2] \in DOMAIN names} = members'
    BY <1>3, <1>5, <1>8, <2>1
  <2>4. \A m \in file.members : <<m[1], q[m[2]]>>[1] = m[1] /\ <<m[1], q[m[2]]>>[2] = q[m[2]]
    OBVIOUS
  <2>5. \A k \in members' : \E m \in file.members : k[1] = m[1] /\ k[2] = q[m[2]]
    BY <1>3, <2>4
  <2>6. \A m \in file.members : \E k \in members' : k[1] = m[1] /\ k[2] = q[m[2]]
    BY <1>3, <2>4
  <2>7. {<<m[1], names[m[2]]>> : m \in members'} = {<<m[1], file.names[m[2]]>> : m \in file.members}
    BY <2>1, <2>5, <2>6
  <2> QED
    BY <2>2, <2>3, <2>7
<1> QED
  BY <1>3, <1>9, <1>10, <1>11 DEF Content, names, owners, P, S

\* A workspace package that is imported brings back the profiles, secrets, histories,
\* tombstones and groups it was exported with.
THEOREM Restoration == ImportSpec => Restores
<1>1. ASSUME ImportInv, NEW a \in Requests, Rows' # Rows, a.kind = "workspace", CommitImport(a)
      PROVE  Content(Restrict(pname', Profiles'), desc', auto', Restrict(owner', Secrets'), sname',
                     current', workspaces', members')
             = Content(file.names, file.descs, file.auto, file.owners, file.labels, file.lasts,
                       file.groups, file.members)
  <2>1. ~(\E r : Ends(r))
    BY <1>1 DEF Ends, Rows, profiles, secrets, groups
  <2>2. PlanError(a) = "none" /\ Apply(a)
    BY <1>1, <2>1 DEF CommitImport, Refuses
  <2>3. file # NoFile /\ file.kind = "workspace"
    BY <1>1, <2>2, Planning
  <2>4. CommitWorkspace
    BY <1>1, <2>2 DEF Apply
  <2> QED
    BY <1>1, <2>3, <2>4, ReadAs, Restored
<1>2. ImportInv /\ [ImportNext]_importVars =>
        [\A a \in Requests : Rows' # Rows /\ a.kind = "workspace" /\ CommitImport(a) =>
            Content(Restrict(pname', Profiles'), desc', auto', Restrict(owner', Secrets'), sname',
                    current', workspaces', members')
            = Content(file.names, file.descs, file.auto, file.owners, file.labels, file.lasts,
                      file.groups, file.members)]_importVars
  BY <1>1
<1> QED
  BY <1>2, ImportInvariance, PTL DEF ImportSpec, Restores
=============================================================================
