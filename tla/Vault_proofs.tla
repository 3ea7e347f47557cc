---------------------------- MODULE Vault_proofs ----------------------------
(***************************************************************************)
(* Proofs about Vault for every set of ids, names and workspaces and every *)
(* bound on versions: the inductive invariant VaultInv, and from it the    *)
(* integrity of the vault, the base underlay, what a profile that comes    *)
(* into being may be loaded with, what failures and histories keep and who *)
(* sees a change.  One lemma per operation that changes a row or the       *)
(* session shows that it keeps VaultInv; in each, only the parts the       *)
(* operation disturbs are argued from its definition.                      *)
(***************************************************************************)
EXTENDS Vault, TLAPS

-----------------------------------------------------------------------------
(* Operations that end without effect, and the shared pieces of the others. *)

\* A lookup by profile and name fails with one of two errors.
LEMMA RefErrors ==
  ASSUME NEW n, NEW x, NEW b
  PROVE  RefError(n, x, b) \in {"none", "not_found", "not_loaded"}
BY DEF RefError

\* An operation that only answers keeps the invariant.
LEMMA EndsInv ==
  ASSUME VaultInv, NEW r \in Success \cup Failure, Ends(r)
  PROVE  VaultInv'
<1> USE DEF VaultInv, Ends, Answer, profiles, secrets, groups
<1>1. TypeOK'
  BY DEF TypeOK
<1>2. IntegrityHolds'
  BY DEF IntegrityHolds, UniqueNames, ReferencesHold, VersionsContiguous, Profiles,
     Secrets
<1>3. BaseUnderlay' /\ DrawnOnce'
  BY DEF BaseUnderlay, DrawnOnce, Profiles, Secrets
<1> QED
  BY <1>1, <1>2, <1>3

\* So does one whose reference to a secret fails.
LEMMA RefFailsInv ==
  ASSUME VaultInv, NEW n, NEW x, NEW b, RefFails(n, x, b)
  PROVE  VaultInv'
<1>1. RefError(n, x, b) \in Success \cup Failure
  BY RefErrors DEF RefFails, Success, Failure
<1> QED
  BY <1>1, EndsInv DEF RefFails

\* A fresh secret or tombstone under a name free in its scope.
LEMMA InsertSecretInv ==
  ASSUME VaultInv, NEW p \in Profiles, NEW x \in SName, NEW last \in Nat,
         SecretsAt({p}, x) = {}, InsertSecret(p, x, last)
  PROVE  VaultInv'
<1> USE VaultAssumption DEF VaultInv, IntegrityHolds
<1> PICK s \in Sid \ drawnSecrets :
        /\ owner' = [owner EXCEPT ![s] = p]
        /\ sname' = [sname EXCEPT ![s] = x]
        /\ current' = [current EXCEPT ![s] = last]
        /\ versions' = [versions EXCEPT ![s] = 1 .. last]
        /\ drawnSecrets' = drawnSecrets \cup {s}
        /\ result' = "ok"
        /\ UNCHANGED <<session, loaded, profiles, rules, groups>>
  BY DEF InsertSecret, Answer
<1>1. TypeOK'
  BY DEF TypeOK, Success, Profiles, profiles, groups
<1>2. UniqueNames'
  <2>1. s \notin Secrets /\ Secrets' = Secrets \cup {s}
    BY DEF DrawnOnce, Secrets, Profiles, TypeOK
  <2>2. \A t \in Secrets : ~(owner[t] = p /\ sname[t] = x)
    BY DEF SecretsAt
  <2> QED
    BY <2>1, <2>2 DEF UniqueNames, TypeOK, Profiles, Secrets, profiles
<1>3. ReferencesHold'
  BY DEF ReferencesHold, DrawnOnce, TypeOK, Profiles, Secrets, profiles, groups
<1>4. VersionsContiguous'
  <2>1. versions'[s] = 1 .. current'[s]
    BY DEF TypeOK
  <2>2. \A t \in Sid \ {s} : versions'[t] = 1 .. current'[t]
    BY DEF TypeOK, VersionsContiguous
  <2> QED
    BY <2>1, <2>2 DEF VersionsContiguous
<1>5. BaseUnderlay' /\ DrawnOnce'
  BY DEF BaseUnderlay, DrawnOnce, TypeOK, Profiles, Secrets, profiles
<1> QED
  BY <1>1, <1>2, <1>3, <1>4, <1>5

\* A secret goes with its versions and its HTTP rule.
LEMMA EraseInv ==
  ASSUME VaultInv, NEW s \in Sid, Erase({s}), rules' = rules \ {s}
  PROVE  VaultInv'
<1> USE VaultAssumption DEF VaultInv, IntegrityHolds, Erase, Answer
<1>1. TypeOK'
  BY DEF TypeOK, Success, profiles, groups
<1>2. Secrets' = Secrets \ {s}
  BY DEF TypeOK, Secrets
<1>3. \A t \in Secrets' : owner'[t] = owner[t] /\ sname'[t] = sname[t]
  BY <1>2 DEF Secrets
<1>4. UniqueNames'
  BY <1>2, <1>3 DEF UniqueNames, Profiles, profiles
<1>5. ReferencesHold'
  BY <1>2, <1>3 DEF ReferencesHold, Profiles, profiles, groups
<1>6. VersionsContiguous'
  BY DEF VersionsContiguous, TypeOK
<1>7. BaseUnderlay' /\ DrawnOnce'
  BY <1>2 DEF BaseUnderlay, DrawnOnce, Profiles, profiles
<1> QED
  BY <1>1, <1>4, <1>5, <1>6, <1>7

-----------------------------------------------------------------------------
(* One lemma per operation.                                                 *)

LEMMA CreateProfileInv ==
  ASSUME VaultInv, NEW n \in PName, NEW w \in WName \cup {Absent},
         CreateProfile(n, w)
  PROVE  VaultInv'
<1> USE VaultAssumption DEF VaultInv, IntegrityHolds
<1>1. TypeOK'
  BY DEF TypeOK, Session, Success, Failure, Profiles, Secrets, CreateProfile, Named,
     Ends, Answer, profiles, secrets, groups
<1>2. UniqueNames'
  BY DEF UniqueNames, DrawnOnce, TypeOK, Profiles, Secrets, CreateProfile, Named,
     Ends, Answer, profiles, secrets, groups
<1>3. ReferencesHold'
  BY DEF ReferencesHold, DrawnOnce, TypeOK, Profiles, Secrets, CreateProfile, Named,
     Ends, Answer, profiles, secrets, groups
<1>4. BaseUnderlay'
  BY DEF BaseUnderlay, TypeOK, Profiles, Secrets, Session, CreateProfile, Named,
     Ends, Answer, profiles, secrets, groups
<1>5. DrawnOnce'
  BY DEF DrawnOnce, TypeOK, Profiles, Secrets, CreateProfile, Named, Ends, Answer,
     profiles, secrets, groups
<1>6. UNCHANGED <<current, versions>>
  BY DEF CreateProfile, Named, Ends, Answer, profiles, secrets, groups
<1>7. VersionsContiguous'
  BY <1>6 DEF VersionsContiguous, Profiles, Secrets
<1> QED
  BY <1>1, <1>2, <1>3, <1>4, <1>5, <1>6, <1>7

LEMMA UpdateProfileInv ==
  ASSUME VaultInv, NEW n \in PName, NEW d \in Desc, NEW flag \in {"keep", "on", "off"},
         UpdateProfile(n, d, flag)
  PROVE  VaultInv'
<1> USE VaultAssumption DEF VaultInv, IntegrityHolds
<1>1. TypeOK'
  BY DEF TypeOK, Session, Success, Failure, Profiles, Secrets, UpdateProfile, Named,
     Ends, Answer, profiles, secrets, groups
<1>2. BaseUnderlay'
  BY DEF BaseUnderlay, TypeOK, Profiles, Secrets, Session, UpdateProfile, Named,
     Ends, Answer, profiles, secrets, groups
<1>3. DrawnOnce'
  BY DEF DrawnOnce, TypeOK, Profiles, Secrets, UpdateProfile, Named, Ends, Answer,
     profiles, secrets, groups
<1>4. UNCHANGED <<pname, owner, sname, current, versions, rules, workspaces, members>>
  BY DEF UpdateProfile, Named, Ends, Answer, profiles, secrets, groups
<1>5. UniqueNames' /\ ReferencesHold' /\ VersionsContiguous'
  BY <1>4 DEF UniqueNames, ReferencesHold, VersionsContiguous, Profiles, Secrets
<1> QED
  BY <1>1, <1>2, <1>3, <1>4, <1>5

LEMMA RenameProfileInv ==
  ASSUME VaultInv, NEW n \in PName, NEW m \in PName,
         RenameProfile(n, m)
  PROVE  VaultInv'
<1> USE VaultAssumption DEF VaultInv, IntegrityHolds
<1>1. TypeOK'
  BY DEF TypeOK, Session, Success, Failure, Profiles, Secrets, RenameProfile, Named,
     Ends, Answer, profiles, secrets, groups
<1>2. UniqueNames'
  BY DEF UniqueNames, DrawnOnce, TypeOK, Profiles, Secrets, RenameProfile, Named,
     Ends, Answer, profiles, secrets, groups
<1>3. ReferencesHold'
  BY DEF ReferencesHold, DrawnOnce, TypeOK, Profiles, Secrets, RenameProfile, Named,
     Ends, Answer, profiles, secrets, groups
<1>4. BaseUnderlay'
  BY DEF BaseUnderlay, TypeOK, Profiles, Secrets, Session, RenameProfile, Named,
     Ends, Answer, profiles, secrets, groups
<1>5. DrawnOnce'
  BY DEF DrawnOnce, TypeOK, Profiles, Secrets, RenameProfile, Named, Ends, Answer,
     profiles, secrets, groups
<1>6. UNCHANGED <<current, versions>>
  BY DEF RenameProfile, Named, Ends, Answer, profiles, secrets, groups
<1>7. VersionsContiguous'
  BY <1>6 DEF VersionsContiguous, Profiles, Secrets
<1> QED
  BY <1>1, <1>2, <1>3, <1>4, <1>5, <1>6, <1>7

LEMMA DeleteProfileInv ==
  ASSUME VaultInv, NEW n \in PName,
         DeleteProfile(n)
  PROVE  VaultInv'
<1> USE VaultAssumption DEF VaultInv, IntegrityHolds
<1>1. TypeOK'
  BY DEF TypeOK, Session, Success, Failure, Profiles, Secrets, DeleteProfile,
     Referenced, Named, Ends, Answer, profiles, secrets, groups
<1>2. UniqueNames'
  BY DEF UniqueNames, DrawnOnce, TypeOK, Profiles, Secrets, DeleteProfile,
     Referenced, Named, Ends, Answer, profiles, secrets, groups
<1>3. ReferencesHold'
  BY DEF ReferencesHold, DrawnOnce, TypeOK, Profiles, Secrets, DeleteProfile,
     Referenced, Named, Ends, Answer, profiles, secrets, groups
<1>4. BaseUnderlay'
  BY DEF BaseUnderlay, TypeOK, Profiles, Secrets, Session, DeleteProfile,
     Referenced, Named, Ends, Answer, profiles, secrets, groups
<1>5. DrawnOnce'
  BY DEF DrawnOnce, BaseUnderlay, TypeOK, Profiles, Secrets, DeleteProfile,
     Referenced, Named, Ends, Answer, profiles, secrets, groups
<1>6. UNCHANGED <<current, versions>>
  BY DEF DeleteProfile, Referenced, Named, Ends, Answer, profiles, secrets, groups
<1>7. VersionsContiguous'
  BY <1>6 DEF VersionsContiguous, Profiles, Secrets
<1> QED
  BY <1>1, <1>2, <1>3, <1>4, <1>5, <1>6, <1>7

LEMMA LoadProfileInv ==
  ASSUME VaultInv, NEW n \in PName,
         LoadProfile(n)
  PROVE  VaultInv'
<1> USE VaultAssumption DEF VaultInv, IntegrityHolds
<1>1. TypeOK'
  BY DEF TypeOK, Session, Success, Failure, Profiles, Secrets, LoadProfile, Load,
     Named, Ends, Answer, profiles, secrets, groups
<1>2. BaseUnderlay'
  BY DEF BaseUnderlay, TypeOK, Profiles, Secrets, Session, LoadProfile, Load, Named,
     Ends, Answer, profiles, secrets, groups
<1>3. DrawnOnce'
  BY DEF DrawnOnce, TypeOK, Profiles, Secrets, LoadProfile, Load, Named, Ends,
     Answer, profiles, secrets, groups
<1>4. UNCHANGED <<pname, owner, sname, current, versions, rules, workspaces, members>>
  BY DEF LoadProfile, Load, Named, Ends, Answer, profiles, secrets, groups
<1>5. UniqueNames' /\ ReferencesHold' /\ VersionsContiguous'
  BY <1>4 DEF UniqueNames, ReferencesHold, VersionsContiguous, Profiles, Secrets
<1> QED
  BY <1>1, <1>2, <1>3, <1>4, <1>5

LEMMA UnloadProfileInv ==
  ASSUME VaultInv, NEW n \in PName,
         UnloadProfile(n)
  PROVE  VaultInv'
<1> USE VaultAssumption DEF VaultInv, IntegrityHolds
<1>1. TypeOK'
  BY DEF TypeOK, Session, Success, Failure, Profiles, Secrets, UnloadProfile, Named,
     Ends, Answer, profiles, secrets, groups
<1>2. BaseUnderlay'
  BY DEF BaseUnderlay, TypeOK, Profiles, Secrets, Session, UnloadProfile, Named,
     Ends, Answer, profiles, secrets, groups
<1>3. DrawnOnce'
  BY DEF DrawnOnce, TypeOK, Profiles, Secrets, UnloadProfile, Named, Ends, Answer,
     profiles, secrets, groups
<1>4. UNCHANGED <<pname, owner, sname, current, versions, rules, workspaces, members>>
  BY DEF UnloadProfile, Named, Ends, Answer, profiles, secrets, groups
<1>5. UniqueNames' /\ ReferencesHold' /\ VersionsContiguous'
  BY <1>4 DEF UniqueNames, ReferencesHold, VersionsContiguous, Profiles, Secrets
<1> QED
  BY <1>1, <1>2, <1>3, <1>4, <1>5

LEMMA CreateWorkspaceInv ==
  ASSUME VaultInv, NEW w \in WName,
         CreateWorkspace(w)
  PROVE  VaultInv'
<1> USE VaultAssumption DEF VaultInv, IntegrityHolds
<1>1. TypeOK'
  BY DEF TypeOK, Session, Success, Failure, Profiles, Secrets, CreateWorkspace,
     Ends, Answer, profiles, secrets, groups
<1>2. ReferencesHold'
  BY DEF ReferencesHold, DrawnOnce, TypeOK, Profiles, Secrets, CreateWorkspace,
     Ends, Answer, profiles, secrets, groups
<1>3. UNCHANGED <<session, loaded, pname, auto, drawn, owner, sname, current, versions, drawnSecrets>>
  BY DEF CreateWorkspace, Ends, Answer, profiles, secrets, groups
<1>4. UniqueNames' /\ VersionsContiguous' /\ BaseUnderlay' /\ DrawnOnce'
  BY <1>3 DEF UniqueNames, VersionsContiguous, BaseUnderlay, DrawnOnce, Profiles,
     Secrets
<1> QED
  BY <1>1, <1>2, <1>3, <1>4

LEMMA LoadWorkspaceInv ==
  ASSUME VaultInv, NEW w \in WName, LoadWorkspace(w)
  PROVE  VaultInv'
<1>1. CASE Ends("not_found")
  BY <1>1, EndsInv DEF Failure
<1>2. CASE Load(Members(w))
  <2> USE <1>2 DEF VaultInv, IntegrityHolds, Load, Answer
  <2>1. Members(w) \subseteq Profiles
    BY DEF Members, ReferencesHold
  <2>2. TypeOK'
    BY <2>1 DEF TypeOK, Success, Profiles, profiles, secrets, groups
  <2>3. BaseUnderlay' /\ DrawnOnce'
    BY <2>1 DEF BaseUnderlay, DrawnOnce, Profiles, Secrets, profiles, secrets
  <2>4. IntegrityHolds'
    BY DEF UniqueNames, ReferencesHold, VersionsContiguous, Profiles, Secrets,
       profiles, secrets, groups
  <2> QED
    BY <2>2, <2>3, <2>4
<1> QED
  BY <1>1, <1>2 DEF LoadWorkspace

LEMMA BindProfileInv ==
  ASSUME VaultInv, NEW w \in WName, NEW n \in PName, BindProfile(w, n)
  PROVE  VaultInv'
<1>1. CASE Ends("not_found") \/ Ends("corrupt")
  BY <1>1, EndsInv DEF Failure
<1>2. ASSUME NEW p \in Profiles, w \in workspaces,
             members' = members \cup {<<w, p>>},
             result' = "ok",
             UNCHANGED <<session, loaded, profiles, secrets, workspaces>>
      PROVE  VaultInv'
  <2> USE <1>2 DEF VaultInv, IntegrityHolds
  <2>1. members' \in SUBSET (WName \X Pid)
    BY DEF TypeOK, Profiles
  <2>2. TypeOK'
    BY <2>1 DEF TypeOK, Success, profiles, secrets
  <2>3. ReferencesHold'
    BY DEF ReferencesHold, Profiles, Secrets, profiles, secrets
  <2>4. UniqueNames' /\ VersionsContiguous' /\ BaseUnderlay' /\ DrawnOnce'
    BY DEF UniqueNames, VersionsContiguous, BaseUnderlay, DrawnOnce, Profiles, Secrets,
       profiles, secrets
  <2> QED
    BY <2>2, <2>3, <2>4
<1> QED
  BY <1>1, <1>2 DEF BindProfile, Named, Answer

LEMMA UnbindProfileInv ==
  ASSUME VaultInv, NEW w \in WName, NEW n \in PName,
         UnbindProfile(w, n)
  PROVE  VaultInv'
<1> USE VaultAssumption DEF VaultInv, IntegrityHolds
<1>1. TypeOK'
  BY DEF TypeOK, Session, Success, Failure, Profiles, Secrets, UnbindProfile, Named,
     Ends, Answer, profiles, secrets, groups
<1>2. ReferencesHold'
  BY DEF ReferencesHold, DrawnOnce, TypeOK, Profiles, Secrets, UnbindProfile, Named,
     Ends, Answer, profiles, secrets, groups
<1>3. UNCHANGED <<session, loaded, pname, auto, drawn, owner, sname, current, versions, drawnSecrets>>
  BY DEF UnbindProfile, Named, Ends, Answer, profiles, secrets, groups
<1>4. UniqueNames' /\ VersionsContiguous' /\ BaseUnderlay' /\ DrawnOnce'
  BY <1>3 DEF UniqueNames, VersionsContiguous, BaseUnderlay, DrawnOnce, Profiles,
     Secrets
<1> QED
  BY <1>1, <1>2, <1>3, <1>4

LEMMA DeleteWorkspaceInv ==
  ASSUME VaultInv, NEW w \in WName,
         DeleteWorkspace(w)
  PROVE  VaultInv'
<1> USE VaultAssumption DEF VaultInv, IntegrityHolds
<1>1. TypeOK'
  BY DEF TypeOK, Session, Success, Failure, Profiles, Secrets, DeleteWorkspace,
     Members, Ends, Answer, profiles, secrets, groups
<1>2. ReferencesHold'
  BY DEF ReferencesHold, DrawnOnce, TypeOK, Profiles, Secrets, DeleteWorkspace,
     Members, Ends, Answer, profiles, secrets, groups
<1>3. UNCHANGED <<session, loaded, pname, auto, drawn, owner, sname, current, versions, drawnSecrets>>
  BY DEF DeleteWorkspace, Members, Ends, Answer, profiles, secrets, groups
<1>4. UniqueNames' /\ VersionsContiguous' /\ BaseUnderlay' /\ DrawnOnce'
  BY <1>3 DEF UniqueNames, VersionsContiguous, BaseUnderlay, DrawnOnce, Profiles,
     Secrets
<1> QED
  BY <1>1, <1>2, <1>3, <1>4

LEMMA CreateSecretInv ==
  ASSUME VaultInv, NEW n \in PName, NEW x \in SName, CreateSecret(n, x)
  PROVE  VaultInv'
<1>1. CASE Ends("not_found") \/ Ends("conflict")
  BY <1>1, EndsInv DEF Failure
<1>2. CASE \E p \in Named(n) : SecretsAt({p}, x) = {} /\ InsertSecret(p, x, 1)
  BY <1>2, InsertSecretInv DEF Named
<1> QED
  BY <1>1, <1>2 DEF CreateSecret

LEMMA RenameSecretInv ==
  ASSUME VaultInv, NEW n \in PName, NEW x \in SName, NEW y \in SName,
         RenameSecret(n, x, y)
  PROVE  VaultInv'
<1>1. CASE RefFails(n, x, FALSE) \/ Ends("conflict")
  BY <1>1, RefFailsInv, EndsInv DEF Failure
<1>2. ASSUME NEW s \in Secrets,
             SecretsAt({owner[s]}, y) \subseteq {s},
             sname' = [sname EXCEPT ![s] = y],
             result' = "ok",
             UNCHANGED <<session, loaded, profiles, owner, current, versions,
                         rules, drawnSecrets, groups>>
      PROVE  VaultInv'
  <2> USE <1>2 DEF VaultInv, IntegrityHolds
  <2>1. TypeOK'
    BY DEF TypeOK, Success, Secrets, profiles, groups
  <2>2. \A t \in Secrets : owner[t] = owner[s] /\ sname[t] = y => t = s
    BY DEF SecretsAt
  <2>3. UniqueNames'
    BY <2>2 DEF UniqueNames, TypeOK, Profiles, Secrets, profiles
  <2>4. ReferencesHold' /\ VersionsContiguous'
    BY DEF ReferencesHold, VersionsContiguous, Profiles, Secrets, profiles, groups
  <2>5. BaseUnderlay' /\ DrawnOnce'
    BY DEF BaseUnderlay, DrawnOnce, Profiles, Secrets, profiles
  <2> QED
    BY <2>1, <2>3, <2>4, <2>5
<1> QED
  BY <1>1, <1>2 DEF RenameSecret, SecretsAt, Answer

LEMMA SetSecretValueInv ==
  ASSUME VaultInv, NEW n \in PName, NEW x \in SName, SetSecretValue(n, x)
  PROVE  VaultInv'
<1>1. CASE RefFails(n, x, FALSE) \/ Ends("conflict")
  BY <1>1, RefFailsInv, EndsInv DEF Failure
<1>2. ASSUME NEW s \in Sid,
             current' = [current EXCEPT ![s] = @ + 1],
             versions' = [versions EXCEPT ![s] = @ \cup {current[s] + 1}],
             result' = "ok",
             UNCHANGED <<session, loaded, profiles, owner, sname, rules,
                         drawnSecrets, groups>>
      PROVE  VaultInv'
  <2> USE <1>2 DEF VaultInv, IntegrityHolds
  <2>1. TypeOK'
    BY DEF TypeOK, Success, profiles, groups
  <2>2. UniqueNames' /\ ReferencesHold'
    BY DEF UniqueNames, ReferencesHold, Profiles, Secrets, profiles, groups
  <2>3. VersionsContiguous'
    <3>1. current[s] \in Nat /\ versions[s] = 1 .. current[s]
      BY DEF TypeOK, VersionsContiguous
    <3>2. (1 .. current[s]) \cup {current[s] + 1} = 1 .. (current[s] + 1)
      BY <3>1
    <3>3. versions'[s] = 1 .. current'[s]
      BY <3>1, <3>2 DEF TypeOK
    <3>4. \A t \in Sid \ {s} : versions'[t] = 1 .. current'[t]
      BY DEF TypeOK, VersionsContiguous
    <3> QED
      BY <3>3, <3>4 DEF VersionsContiguous
  <2>4. BaseUnderlay' /\ DrawnOnce'
    BY DEF BaseUnderlay, DrawnOnce, Profiles, Secrets, profiles
  <2> QED
    BY <2>1, <2>2, <2>3, <2>4
<1> QED
  BY <1>1, <1>2 DEF SetSecretValue, SecretsAt, Secrets, Answer

LEMMA DeleteSecretInv ==
  ASSUME VaultInv, NEW n \in PName, NEW x \in SName, DeleteSecret(n, x)
  PROVE  VaultInv'
<1>1. CASE Ends("noop")
  BY <1>1, EndsInv DEF Success
<1>2. CASE \E s \in SecretsAt(Named(n), x) : Erase({s}) /\ rules' = rules \ {s}
  BY <1>2, EraseInv DEF SecretsAt, Secrets
<1> QED
  BY <1>1, <1>2 DEF DeleteSecret

LEMMA TombstoneSecretInv ==
  ASSUME VaultInv, NEW n \in PName, NEW x \in SName, TombstoneSecret(n, x)
  PROVE  VaultInv'
<1>1. CASE Ends("not_found")
  BY <1>1, EndsInv DEF Failure
<1>2. CASE \E p \in Named(n) : SecretsAt({p}, x) = {} /\ InsertSecret(p, x, 0)
  BY <1>2, InsertSecretInv DEF Named
<1>3. ASSUME NEW s \in Sid,
             current' = [current EXCEPT ![s] = 0],
             versions' = [versions EXCEPT ![s] = {}],
             result' = "ok",
             UNCHANGED <<session, loaded, profiles, owner, sname, rules,
                         drawnSecrets, groups>>
      PROVE  VaultInv'
  <2> USE <1>3 DEF VaultInv, IntegrityHolds
  <2>1. TypeOK'
    BY DEF TypeOK, Success, profiles, groups
  <2>2. UniqueNames' /\ ReferencesHold'
    BY DEF UniqueNames, ReferencesHold, Profiles, Secrets, profiles, groups
  <2>3. VersionsContiguous'
    BY DEF VersionsContiguous, TypeOK
  <2>4. BaseUnderlay' /\ DrawnOnce'
    BY DEF BaseUnderlay, DrawnOnce, Profiles, Secrets, profiles
  <2> QED
    BY <2>1, <2>2, <2>3, <2>4
<1> QED
  BY <1>1, <1>2, <1>3 DEF TombstoneSecret, SecretsAt, Secrets, Answer

LEMMA SetHttpAccessInv ==
  ASSUME VaultInv, NEW n \in PName, NEW x \in SName,
         SetHttpAccess(n, x)
  PROVE  VaultInv'
<1> USE VaultAssumption DEF VaultInv, IntegrityHolds
<1>1. TypeOK'
  BY DEF TypeOK, Session, Success, Failure, Profiles, Secrets, SetHttpAccess, Named,
     SecretsAt, Ends, Answer, profiles, secrets, groups
<1>2. ReferencesHold'
  BY DEF ReferencesHold, DrawnOnce, TypeOK, Profiles, Secrets, SetHttpAccess, Named,
     SecretsAt, Ends, Answer, profiles, secrets, groups
<1>3. BaseUnderlay'
  BY DEF BaseUnderlay, TypeOK, Profiles, Secrets, Session, SetHttpAccess, Named,
     SecretsAt, Ends, Answer, profiles, secrets, groups
<1>4. DrawnOnce'
  BY DEF DrawnOnce, TypeOK, Profiles, Secrets, SetHttpAccess, Named, SecretsAt,
     Ends, Answer, profiles, secrets, groups
<1>5. UNCHANGED <<pname, owner, sname, current, versions>>
  BY DEF SetHttpAccess, Named, SecretsAt, Ends, Answer, profiles, secrets, groups
<1>6. UniqueNames' /\ VersionsContiguous'
  BY <1>5 DEF UniqueNames, VersionsContiguous, Profiles, Secrets
<1> QED
  BY <1>1, <1>2, <1>3, <1>4, <1>5, <1>6

LEMMA RemoveHttpAccessInv ==
  ASSUME VaultInv, NEW n \in PName, NEW x \in SName,
         RemoveHttpAccess(n, x)
  PROVE  VaultInv'
<1> USE VaultAssumption DEF VaultInv, IntegrityHolds
<1>1. TypeOK'
  BY RefErrors DEF TypeOK, Session, Success, Failure, Profiles, Secrets,
     RemoveHttpAccess, Named, SecretsAt, RefFails, Ends, Answer, profiles, secrets,
     groups
<1>2. ReferencesHold'
  BY RefErrors DEF ReferencesHold, DrawnOnce, TypeOK, Profiles, Secrets,
     RemoveHttpAccess, Named, SecretsAt, RefFails, Ends, Answer, profiles, secrets,
     groups
<1>3. UNCHANGED <<session, loaded, pname, auto, drawn, owner, sname, current, versions, drawnSecrets>>
  BY RefErrors DEF RemoveHttpAccess, Named, SecretsAt, RefFails, Ends, Answer,
     profiles, secrets, groups
<1>4. UniqueNames' /\ VersionsContiguous' /\ BaseUnderlay' /\ DrawnOnce'
  BY <1>3 DEF UniqueNames, VersionsContiguous, BaseUnderlay, DrawnOnce, Profiles,
     Secrets
<1> QED
  BY <1>1, <1>2, <1>3, <1>4

LEMMA LockInv ==
  ASSUME VaultInv,
         Lock
  PROVE  VaultInv'
<1> USE VaultAssumption DEF VaultInv, IntegrityHolds
<1>1. TypeOK'
  BY DEF TypeOK, Session, Success, Failure, Profiles, Secrets, Lock, Ends, Answer,
     profiles, secrets, groups
<1>2. BaseUnderlay'
  BY DEF BaseUnderlay, TypeOK, Profiles, Secrets, Session, Lock, Ends, Answer,
     profiles, secrets, groups
<1>3. DrawnOnce'
  BY DEF DrawnOnce, TypeOK, Profiles, Secrets, Lock, Ends, Answer, profiles,
     secrets, groups
<1>4. UNCHANGED <<pname, owner, sname, current, versions, rules, workspaces, members>>
  BY DEF Lock, Ends, Answer, profiles, secrets, groups
<1>5. UniqueNames' /\ ReferencesHold' /\ VersionsContiguous'
  BY <1>4 DEF UniqueNames, ReferencesHold, VersionsContiguous, Profiles, Secrets
<1> QED
  BY <1>1, <1>2, <1>3, <1>4, <1>5

LEMMA UnlockInv ==
  ASSUME VaultInv,
         Unlock
  PROVE  VaultInv'
<1> USE VaultAssumption DEF VaultInv, IntegrityHolds
<1>1. TypeOK'
  BY DEF TypeOK, Session, Success, Failure, Profiles, Secrets, Unlock, Ends, Answer,
     profiles, secrets, groups
<1>2. BaseUnderlay'
  BY DEF BaseUnderlay, TypeOK, Profiles, Secrets, Session, Unlock, Ends, Answer,
     profiles, secrets, groups
<1>3. DrawnOnce'
  BY DEF DrawnOnce, TypeOK, Profiles, Secrets, Unlock, Ends, Answer, profiles,
     secrets, groups
<1>4. UNCHANGED <<pname, owner, sname, current, versions, rules, workspaces, members>>
  BY DEF Unlock, Ends, Answer, profiles, secrets, groups
<1>5. UniqueNames' /\ ReferencesHold' /\ VersionsContiguous'
  BY <1>4 DEF UniqueNames, ReferencesHold, VersionsContiguous, Profiles, Secrets
<1> QED
  BY <1>1, <1>2, <1>3, <1>4, <1>5

-----------------------------------------------------------------------------
(* The step, and the theorems.                                              *)

LEMMA InitInv == Init => VaultInv
<1> SUFFICES ASSUME Init PROVE VaultInv
  OBVIOUS
<1> USE VaultAssumption DEF Init
<1>1. TypeOK
  BY DEF TypeOK, Session, Success
<1>2. Profiles = {Base} /\ Secrets = {}
  BY DEF Profiles, Secrets
<1>3. IntegrityHolds
  <2>1. \A s \in Sid : versions[s] = 1 .. current[s]
    BY 1 .. 0 = {}
  <2> QED
    BY <1>2, <2>1 DEF IntegrityHolds, UniqueNames, ReferencesHold, VersionsContiguous
<1>4. BaseUnderlay /\ DrawnOnce
  BY <1>2 DEF BaseUnderlay, DrawnOnce
<1> QED
  BY <1>1, <1>3, <1>4 DEF VaultInv

LEMMA ProfileInv ==
  ASSUME VaultInv, ProfileStep
  PROVE  VaultInv'
BY CreateProfileInv, UpdateProfileInv, RenameProfileInv, DeleteProfileInv,
   LoadProfileInv, UnloadProfileInv DEF ProfileStep

LEMMA WorkspaceInv ==
  ASSUME VaultInv, WorkspaceStep
  PROVE  VaultInv'
BY CreateWorkspaceInv, LoadWorkspaceInv, BindProfileInv, UnbindProfileInv,
   DeleteWorkspaceInv DEF WorkspaceStep

\* Operations that read a secret, or change a text that is not modelled.
LEMMA ReadInv ==
  ASSUME VaultInv, NEW n \in PName, NEW x \in SName,
         UpdateSecret(n, x) \/ ReadSecretValue(n, x) \/ PrepareHttpRequest(n, x)
  PROVE  VaultInv'
<1>1. (\E b \in BOOLEAN : RefFails(n, x, b)) \/ (\E r \in Success \cup Failure : Ends(r))
  BY DEF UpdateSecret, ReadSecretValue, PrepareHttpRequest, Success, Failure
<1> QED
  BY <1>1, RefFailsInv, EndsInv

LEMMA SecretInv ==
  ASSUME VaultInv, SecretStep
  PROVE  VaultInv'
<1> PICK n \in PName, x \in SName :
        \/ UpdateSecret(n, x) \/ ReadSecretValue(n, x) \/ PrepareHttpRequest(n, x)
        \/ CreateSecret(n, x)
        \/ \E y \in SName : RenameSecret(n, x, y)
        \/ SetSecretValue(n, x)
        \/ DeleteSecret(n, x)
        \/ TombstoneSecret(n, x)
        \/ SetHttpAccess(n, x)
        \/ RemoveHttpAccess(n, x)
  BY DEF SecretStep
<1> QED
  BY ReadInv, CreateSecretInv, RenameSecretInv, SetSecretValueInv, DeleteSecretInv,
     TombstoneSecretInv, SetHttpAccessInv, RemoveHttpAccessInv

LEMMA MergeInv ==
  ASSUME VaultInv, NEW ns, ResolveRunEnv(ns)
  PROVE  VaultInv'
<1>1. \A i : RunErrors(ns, i) \subseteq {"none", "not_found", "not_loaded", "duplicate"}
  BY DEF RunErrors
<1>2. \E r \in Success \cup Failure : Ends(r)
  BY <1>1 DEF ResolveRunEnv, Success, Failure
<1> QED
  BY <1>2, EndsInv

LEMMA InvStep == VaultInv /\ [Next]_vars => VaultInv'
<1> SUFFICES ASSUME VaultInv, [Next]_vars PROVE VaultInv'
  OBVIOUS
<1>1. CASE ProfileStep
  BY <1>1, ProfileInv
<1>2. CASE WorkspaceStep
  BY <1>2, WorkspaceInv
<1>3. CASE SecretStep
  BY <1>3, SecretInv
<1>4. CASE \E n, m \in PName : ResolveRunEnv(<<n>>) \/ ResolveRunEnv(<<n, m>>)
  BY <1>4, MergeInv
<1>5. CASE Lock \/ Unlock
  BY <1>5, LockInv, UnlockInv
<1>6. CASE UNCHANGED vars
  <2>1. Ends(result)
    BY <1>6 DEF Ends, Answer, vars
  <2>2. result \in Success \cup Failure
    BY DEF VaultInv, TypeOK
  <2> QED
    BY <2>1, <2>2, EndsInv
<1> QED
  BY <1>1, <1>2, <1>3, <1>4, <1>5, <1>6 DEF Next

\* VaultInv holds in every reachable state of the vault.
THEOREM Invariance == Spec => []VaultInv
<1> QED
  BY InitInv, InvStep, PTL DEF Spec

\* Every variable keeps its type.
THEOREM TypeCorrect == Spec => []TypeOK
<1>1. VaultInv => TypeOK
  BY DEF VaultInv
<1> QED
  BY <1>1, Invariance, PTL

\* Whatever operations succeed or fail, the vault passes integrity_check: unique
\* names, no dangling reference, versions 1 to current_version.
THEOREM IntegritySafety == Spec => []IntegrityHolds
<1>1. VaultInv => IntegrityHolds
  BY DEF VaultInv
<1> QED
  BY <1>1, Invariance, PTL

\* The base profile exists, starts with the vault and is loaded, so the next
\* unlock never finds nothing to start with.
THEOREM BaseSafety == Spec => []BaseUnderlay
<1>1. VaultInv => BaseUnderlay
  BY DEF VaultInv
<1> QED
  BY <1>1, Invariance, PTL

\* A step creates at most a profile with a fresh id, and only CreateProfile does.
LEMMA CreatedStep ==
  ASSUME VaultInv, [Next]_vars
  PROVE  /\ \A p \in Pid : p \notin Profiles /\ pname'[p] # Absent => p \notin loaded'
         /\ \A p \in loaded' \ loaded : p \in Profiles
<1> DEFINE Apart == /\ \A p \in Pid : p \notin Profiles /\ pname'[p] # Absent => p \notin loaded'
                    /\ \A p \in loaded' \ loaded : p \in Profiles
<1> USE DEF VaultInv
<1>1. ASSUME UNCHANGED <<pname, loaded>>
      PROVE  Apart
  BY <1>1 DEF Profiles
<1>2. ASSUME NEW n \in PName, NEW w \in WName \cup {Absent}, CreateProfile(n, w)
      PROVE  Apart
  BY <1>2 DEF CreateProfile, Ends, profiles, Profiles, DrawnOnce, TypeOK
<1>3. ASSUME NEW n \in PName, NEW m \in PName, RenameProfile(n, m)
      PROVE  Apart
  BY <1>3 DEF RenameProfile, Ends, profiles, Named, Profiles, TypeOK
<1>4. ASSUME NEW n \in PName, DeleteProfile(n)
      PROVE  Apart
  BY <1>4 DEF DeleteProfile, Ends, profiles, Named, Profiles, TypeOK
<1>5. ASSUME NEW n \in PName, LoadProfile(n) \/ UnloadProfile(n)
      PROVE  Apart
  BY <1>5 DEF LoadProfile, UnloadProfile, Load, Ends, profiles, Named, Profiles, TypeOK
<1>6. ASSUME NEW w \in WName, LoadWorkspace(w)
      PROVE  Apart
  BY <1>6 DEF LoadWorkspace, Load, Ends, profiles, Members, Profiles, IntegrityHolds,
     ReferencesHold, TypeOK
<1>7. ASSUME NEW n \in PName, NEW x \in SName, SetHttpAccess(n, x)
      PROVE  Apart
  BY <1>7 DEF SetHttpAccess, Ends, profiles, Named, Profiles, TypeOK
<1>8. CASE Lock \/ Unlock
  BY <1>8 DEF Lock, Unlock, Ends, profiles, Profiles, DrawnOnce, TypeOK
<1>9. CASE ProfileStep
  <2>1. ASSUME NEW n \in PName, NEW d \in Desc, NEW flag \in {"keep", "on", "off"},
               UpdateProfile(n, d, flag)
        PROVE  UNCHANGED <<pname, loaded>>
    BY <2>1 DEF UpdateProfile, Ends, profiles
  <2> QED
    BY <1>1, <1>2, <1>3, <1>4, <1>5, <1>9, <2>1 DEF ProfileStep
<1>10. CASE WorkspaceStep
  <2>1. ASSUME NEW w \in WName, NEW n \in PName,
               BindProfile(w, n) \/ UnbindProfile(w, n)
        PROVE  UNCHANGED <<pname, loaded>>
    BY <2>1 DEF BindProfile, UnbindProfile, Ends, profiles
  <2>2. ASSUME NEW w \in WName, CreateWorkspace(w) \/ DeleteWorkspace(w)
        PROVE  UNCHANGED <<pname, loaded>>
    BY <2>2 DEF CreateWorkspace, DeleteWorkspace, Ends, profiles
  <2> QED
    BY <1>1, <1>6, <1>10, <2>1, <2>2 DEF WorkspaceStep
<1>11. CASE SecretStep
  <2>1. ASSUME NEW n \in PName, NEW x \in SName,
               \/ CreateSecret(n, x) \/ TombstoneSecret(n, x)
               \/ SetSecretValue(n, x) \/ DeleteSecret(n, x) \/ RemoveHttpAccess(n, x)
        PROVE  UNCHANGED <<pname, loaded>>
    BY <2>1 DEF CreateSecret, TombstoneSecret, SetSecretValue, DeleteSecret,
       RemoveHttpAccess, InsertSecret, Erase, RefFails, Ends, profiles
  <2>2. ASSUME NEW n \in PName, NEW x \in SName, NEW y \in SName, RenameSecret(n, x, y)
        PROVE  UNCHANGED <<pname, loaded>>
    BY <2>2 DEF RenameSecret, RefFails, Ends, profiles
  <2>3. ASSUME NEW n \in PName, NEW x \in SName,
               UpdateSecret(n, x) \/ ReadSecretValue(n, x) \/ PrepareHttpRequest(n, x)
        PROVE  UNCHANGED <<pname, loaded>>
    BY <2>3 DEF UpdateSecret, ReadSecretValue, PrepareHttpRequest, RefFails, Ends, profiles
  <2> QED
    BY <1>1, <1>7, <1>11, <2>1, <2>2, <2>3 DEF SecretStep
<1>12. CASE \E n, m \in PName : ResolveRunEnv(<<n>>) \/ ResolveRunEnv(<<n, m>>)
  BY <1>1, <1>12 DEF ResolveRunEnv, Ends, profiles
<1>13. CASE UNCHANGED vars
  BY <1>1, <1>13 DEF vars, profiles
<1> QED
  BY <1>8, <1>9, <1>10, <1>11, <1>12, <1>13 DEF Next

\* A profile that comes into being is not loaded, whatever the loaded set still
\* holds of deleted profiles, and only existing profiles get loaded.
THEOREM CreationSafety == Spec => CreatedNotLoaded
<1>1. VaultInv /\ [Next]_vars =>
          [/\ \A p \in Pid : p \notin Profiles /\ pname'[p] # Absent => p \notin loaded'
           /\ \A p \in loaded' \ loaded : p \in Profiles]_vars
  BY CreatedStep
<1> QED
  BY <1>1, Invariance, PTL DEF Spec, CreatedNotLoaded

-----------------------------------------------------------------------------
(* What a failure leaves behind.                                            *)

Untouched == UNCHANGED <<session, loaded, profiles, secrets, groups>>
ChangesOnlyIfOk == result' \in Failure => Untouched

LEMMA RefFailsQuietly ==
  ASSUME NEW n, NEW x, NEW b, RefFails(n, x, b)
  PROVE  Untouched
BY DEF RefFails, Ends, Untouched

\* Every operation but two changes the vault only if it answers ok.
LEMMA ProfileFailsQuietly ==
  ASSUME NEW n \in PName
  PROVE  /\ \A w \in WName \cup {Absent} : CreateProfile(n, w) => ChangesOnlyIfOk
         /\ \A m \in PName : RenameProfile(n, m) => ChangesOnlyIfOk
         /\ DeleteProfile(n) \/ LoadProfile(n) \/ UnloadProfile(n) => ChangesOnlyIfOk
<1> USE DEF ChangesOnlyIfOk, Untouched, Failure, Answer, Ends
<1>1. ASSUME NEW w \in WName \cup {Absent}, CreateProfile(n, w)
      PROVE  ChangesOnlyIfOk
  BY <1>1 DEF CreateProfile
<1>2. ASSUME NEW m \in PName, RenameProfile(n, m)
      PROVE  ChangesOnlyIfOk
  BY <1>2 DEF RenameProfile
<1>3. ASSUME DeleteProfile(n)
      PROVE  ChangesOnlyIfOk
  BY <1>3 DEF DeleteProfile
<1>4. ASSUME LoadProfile(n) \/ UnloadProfile(n)
      PROVE  ChangesOnlyIfOk
  BY <1>4 DEF LoadProfile, UnloadProfile, Load
<1> QED
  BY <1>1, <1>2, <1>3, <1>4

LEMMA WorkspaceFailsQuietly ==
  ASSUME WorkspaceStep
  PROVE  ChangesOnlyIfOk
<1> USE DEF ChangesOnlyIfOk, Untouched, Failure, Answer, Ends
<1>1. ASSUME NEW w \in WName, CreateWorkspace(w) \/ LoadWorkspace(w) \/ DeleteWorkspace(w)
      PROVE  ChangesOnlyIfOk
  BY <1>1 DEF CreateWorkspace, LoadWorkspace, DeleteWorkspace, Load
<1>2. ASSUME NEW w \in WName, NEW n \in PName, BindProfile(w, n) \/ UnbindProfile(w, n)
      PROVE  ChangesOnlyIfOk
  BY <1>2 DEF BindProfile, UnbindProfile
<1> QED
  BY <1>1, <1>2 DEF WorkspaceStep

LEMMA SecretFailsQuietly ==
  ASSUME NEW n \in PName, NEW x \in SName
  PROVE  /\ \A y \in SName : RenameSecret(n, x, y) => ChangesOnlyIfOk
         /\ \/ CreateSecret(n, x) \/ UpdateSecret(n, x) \/ SetSecretValue(n, x)
            \/ DeleteSecret(n, x) \/ TombstoneSecret(n, x) \/ RemoveHttpAccess(n, x)
            \/ ReadSecretValue(n, x) \/ PrepareHttpRequest(n, x)
            => ChangesOnlyIfOk
<1> USE RefFailsQuietly DEF ChangesOnlyIfOk, Failure
<1>1. ASSUME NEW r, Ends(r)
      PROVE  Untouched
  BY <1>1 DEF Ends, Untouched
<1>2. ASSUME NEW p, NEW last, InsertSecret(p, x, last)
      PROVE  ChangesOnlyIfOk
  BY <1>2 DEF InsertSecret, Answer
<1>3. ASSUME NEW y \in SName, RenameSecret(n, x, y)
      PROVE  ChangesOnlyIfOk
  BY <1>1, <1>3 DEF RenameSecret, Answer
<1>4. ASSUME CreateSecret(n, x) \/ UpdateSecret(n, x) \/ SetSecretValue(n, x)
      PROVE  ChangesOnlyIfOk
  BY <1>1, <1>2, <1>4 DEF CreateSecret, UpdateSecret, SetSecretValue, Answer
<1>5. ASSUME DeleteSecret(n, x) \/ TombstoneSecret(n, x) \/ RemoveHttpAccess(n, x)
      PROVE  ChangesOnlyIfOk
  BY <1>1, <1>2, <1>5 DEF DeleteSecret, TombstoneSecret, RemoveHttpAccess, Erase, Answer
<1>6. ASSUME ReadSecretValue(n, x) \/ PrepareHttpRequest(n, x)
      PROVE  ChangesOnlyIfOk
  BY <1>1, <1>6 DEF ReadSecretValue, PrepareHttpRequest
<1> QED
  BY <1>3, <1>4, <1>5, <1>6

\* What a step that fails may have changed.
Kept == /\ UNCHANGED <<session, pname, auto, drawn, secrets, groups>>
        /\ desc' # desc => result' = "conflict"
        /\ loaded' # loaded => result' \in {"not_found", "denied"} /\ loaded \subseteq loaded'

LEMMA FailureStep ==
  ASSUME Next, result' \in Failure
  PROVE  Kept
<1>1. ASSUME Untouched
      PROVE  Kept
  BY <1>1 DEF Untouched, Kept, profiles
<1>2. ASSUME NEW n \in PName, NEW d \in Desc, NEW flag \in {"keep", "on", "off"},
             UpdateProfile(n, d, flag)
      PROVE  Kept
  BY <1>2 DEF UpdateProfile, Ends, Answer, Kept, profiles, Failure
<1>3. ASSUME NEW n \in PName, NEW x \in SName, SetHttpAccess(n, x)
      PROVE  Kept
  BY <1>3 DEF SetHttpAccess, Ends, Answer, Kept, profiles, secrets, Failure
<1>4. CASE ProfileStep
  BY <1>1, <1>2, <1>4, ProfileFailsQuietly DEF ProfileStep, ChangesOnlyIfOk
<1>5. CASE WorkspaceStep
  BY <1>1, <1>5, WorkspaceFailsQuietly DEF ChangesOnlyIfOk
<1>6. CASE SecretStep
  BY <1>1, <1>3, <1>6, SecretFailsQuietly DEF SecretStep, ChangesOnlyIfOk
<1>7. CASE \E n, m \in PName : ResolveRunEnv(<<n>>) \/ ResolveRunEnv(<<n, m>>)
  BY <1>1, <1>7 DEF ResolveRunEnv, Ends, Untouched
<1>8. CASE Lock \/ Unlock
  BY <1>1, <1>8 DEF Lock, Unlock, Ends, Answer, Untouched, Failure
<1> QED
  BY <1>4, <1>5, <1>6, <1>7, <1>8 DEF Next

\* A failed operation leaves every row and the loaded set as they were, but for
\* the description of a refused flag and the profile a rule was asked for.
THEOREM FailureSafety == Spec => FailureKeepsVault
<1>1. [Next]_vars => [result' \in Failure =>
          /\ UNCHANGED <<session, pname, auto, drawn, secrets, groups>>
          /\ desc' # desc => result' = "conflict"
          /\ loaded' # loaded => result' \in {"not_found", "denied"} /\ loaded \subseteq loaded']_vars
  BY FailureStep DEF Kept
<1> QED
  BY <1>1, PTL DEF Spec, FailureKeepsVault

-----------------------------------------------------------------------------
(* What becomes of a secret's history, and who sees a change.               *)

Immutable ==
    \A s \in Secrets :
        /\ owner'[s] \in {owner[s], Absent}
        /\ owner'[s] # Absent /\ current'[s] # 0 => versions[s] \subseteq versions'[s]
        /\ owner'[s] = Absent => s \notin rules'

\* The step touches at most the secret s, which is q's before and after it.
Touches(s, q) ==
    /\ {owner[s], owner'[s]} \subseteq {q, Absent}
    /\ \A t \in Sid \ {s} : owner'[t] = owner[t] /\ sname'[t] = sname[t] /\ current'[t] = current[t]

\* Nobody's secret is touched.
TouchesNone == UNCHANGED <<owner, sname, current>>

Local == TouchesNone \/ \E s \in Sid, q \in Pid : Touches(s, q)

\* A new secret is nobody's history, and an erased one takes its rule along.
LEMMA InsertIsLocal ==
  ASSUME VaultInv, NEW p \in Profiles, NEW x, NEW last, InsertSecret(p, x, last)
  PROVE  Immutable /\ Local
<1> PICK s \in Sid \ drawnSecrets :
        /\ owner' = [owner EXCEPT ![s] = p]
        /\ sname' = [sname EXCEPT ![s] = x]
        /\ current' = [current EXCEPT ![s] = last]
        /\ versions' = [versions EXCEPT ![s] = 1 .. last]
  BY DEF InsertSecret
<1>1. s \notin Secrets /\ owner[s] = Absent /\ p \in Pid /\ s \in Sid
  BY DEF VaultInv, DrawnOnce, Secrets, Profiles
<1>2. Immutable
  BY <1>1 DEF Immutable, Secrets, VaultInv, TypeOK
<1>3. Touches(s, p)
  BY <1>1 DEF Touches, VaultInv, TypeOK
<1> QED
  BY <1>1, <1>2, <1>3 DEF Local

LEMMA QuietIsLocal ==
  ASSUME UNCHANGED <<owner, sname, current, versions>>
  PROVE  Immutable /\ Local
BY DEF Immutable, Local, TouchesNone, Secrets

LEMMA EndsIsLocal ==
  ASSUME NEW r, Ends(r)
  PROVE  Immutable /\ Local
BY QuietIsLocal DEF Ends, secrets

\* What an operation does to the secret it was asked for.
LEMMA SecretIsLocal ==
  ASSUME VaultInv, NEW n \in PName, NEW x \in SName, NEW s \in SecretsAt(Named(n), x),
         \/ Erase({s}) /\ rules' = rules \ {s}
         \/ /\ current' = [current EXCEPT ![s] = 0]
            /\ UNCHANGED <<owner, sname>>
         \/ /\ current' = [current EXCEPT ![s] = @ + 1]
            /\ versions' = [versions EXCEPT ![s] = @ \cup {current[s] + 1}]
            /\ UNCHANGED <<owner, sname>>
         \/ /\ \E y \in SName : sname' = [sname EXCEPT ![s] = y]
            /\ UNCHANGED <<owner, current, versions>>,
         Erase({s}) \/ \A t \in Sid \ {s} : versions'[t] = versions[t]
  PROVE  Immutable /\ Local
<1>1. s \in Secrets /\ s \in Sid /\ owner[s] \in Pid
  BY VaultAssumption DEF SecretsAt, Secrets, VaultInv, TypeOK
<1> USE <1>1 DEF VaultInv, TypeOK
<1>2. Touches(s, owner[s])
  BY DEF Touches, Erase
<1>3. Immutable
  <2>1. CASE Erase({s}) /\ rules' = rules \ {s}
    BY <2>1 DEF Erase, Immutable, Secrets
  <2>2. CASE current' = [current EXCEPT ![s] = 0] /\ UNCHANGED <<owner, sname>>
             /\ \A t \in Sid \ {s} : versions'[t] = versions[t]
    BY <2>2 DEF Immutable, Secrets
  <2>3. CASE /\ current' = [current EXCEPT ![s] = @ + 1]
             /\ versions' = [versions EXCEPT ![s] = @ \cup {current[s] + 1}]
             /\ UNCHANGED <<owner, sname>>
    BY <2>3 DEF Immutable, Secrets
  <2>4. CASE UNCHANGED <<owner, current, versions>>
    BY <2>4 DEF Immutable, Secrets
  <2>5. CASE Erase({s}) /\ current' = [current EXCEPT ![s] = 0] /\ UNCHANGED <<owner, sname>>
    BY <2>5, VaultAssumption DEF Erase
  <2> QED
    BY <2>1, <2>2, <2>3, <2>4, <2>5
<1> QED
  BY <1>1, <1>2, <1>3 DEF Local

\* Every step touches one secret at most, and no stored version but a deleted
\* secret's or a new tombstone's disappears.
LEMMA OneSecretStep ==
  ASSUME VaultInv, [Next]_vars
  PROVE  Immutable /\ Local
<1> USE QuietIsLocal, EndsIsLocal DEF RefFails
<1>1. CASE ProfileStep
  <2>1. UNCHANGED secrets
    BY <1>1 DEF ProfileStep, CreateProfile, UpdateProfile, RenameProfile, DeleteProfile,
       LoadProfile, UnloadProfile, Load, Ends
  <2> QED
    BY <2>1 DEF secrets
<1>2. CASE WorkspaceStep
  <2>1. UNCHANGED secrets
    BY <1>2 DEF WorkspaceStep, CreateWorkspace, LoadWorkspace, BindProfile, UnbindProfile,
       DeleteWorkspace, Load, Ends
  <2> QED
    BY <2>1 DEF secrets
<1>3. ASSUME NEW n \in PName, NEW x \in SName,
             \/ UpdateSecret(n, x) \/ ReadSecretValue(n, x) \/ PrepareHttpRequest(n, x)
             \/ SetHttpAccess(n, x) \/ RemoveHttpAccess(n, x)
      PROVE  Immutable /\ Local
  BY <1>3 DEF UpdateSecret, ReadSecretValue, PrepareHttpRequest, SetHttpAccess,
     RemoveHttpAccess
<1>4. ASSUME NEW n \in PName, NEW x \in SName, CreateSecret(n, x)
      PROVE  Immutable /\ Local
  BY <1>4, InsertIsLocal DEF CreateSecret, Named
<1>5. ASSUME NEW n \in PName, NEW x \in SName, TombstoneSecret(n, x)
      PROVE  Immutable /\ Local
  <2>1. CASE \E p \in Named(n) : InsertSecret(p, x, 0)
    BY <2>1, InsertIsLocal DEF Named
  <2>2. ASSUME NEW s \in SecretsAt(Named(n), x),
               current' = [current EXCEPT ![s] = 0],
               versions' = [versions EXCEPT ![s] = {}],
               UNCHANGED <<owner, sname>>
        PROVE  Immutable /\ Local
    <3>1. \A t \in Sid \ {s} : versions'[t] = versions[t]
      BY <2>2 DEF VaultInv, TypeOK
    <3> QED
      BY <2>2, <3>1, SecretIsLocal
  <2> QED
    BY <1>5, <2>1, <2>2 DEF TombstoneSecret
<1>6. ASSUME NEW n \in PName, NEW x \in SName, SetSecretValue(n, x)
      PROVE  Immutable /\ Local
  <2>1. ASSUME NEW s \in SecretsAt(Named(n), x),
               current' = [current EXCEPT ![s] = @ + 1],
               versions' = [versions EXCEPT ![s] = @ \cup {current[s] + 1}],
               UNCHANGED <<owner, sname>>
        PROVE  Immutable /\ Local
    <3>1. \A t \in Sid \ {s} : versions'[t] = versions[t]
      BY <2>1 DEF VaultInv, TypeOK
    <3> QED
      BY <2>1, <3>1, SecretIsLocal
  <2> QED
    BY <1>6, <2>1 DEF SetSecretValue
<1>7. ASSUME NEW n \in PName, NEW x \in SName, DeleteSecret(n, x)
      PROVE  Immutable /\ Local
  BY <1>7, SecretIsLocal DEF DeleteSecret
<1>8. ASSUME NEW n \in PName, NEW x \in SName, NEW y \in SName, RenameSecret(n, x, y)
      PROVE  Immutable /\ Local
  <2>1. ASSUME NEW s \in SecretsAt(Named(n), x), sname' = [sname EXCEPT ![s] = y],
               UNCHANGED <<owner, current, versions>>
        PROVE  Immutable /\ Local
    BY <2>1, SecretIsLocal
  <2> QED
    BY <1>8, <2>1 DEF RenameSecret
<1>9. CASE SecretStep
  BY <1>3, <1>4, <1>5, <1>6, <1>7, <1>8, <1>9 DEF SecretStep
<1>10. CASE \E n, m \in PName : ResolveRunEnv(<<n>>) \/ ResolveRunEnv(<<n, m>>)
  BY <1>10 DEF ResolveRunEnv
<1>11. CASE Lock \/ Unlock \/ UNCHANGED vars
  BY <1>11 DEF Lock, Unlock, vars, secrets
<1> QED
  BY <1>1, <1>2, <1>9, <1>10, <1>11 DEF Next

\* A stored version disappears only with its secret or when the secret becomes a
\* tombstone, and a deleted secret leaves no rule.
THEOREM HistorySafety == Spec => HistoryKept
<1>1. VaultInv /\ [Next]_vars => [\A s \in Secrets :
          /\ owner'[s] \in {owner[s], Absent}
          /\ owner'[s] # Absent /\ current'[s] # 0 => versions[s] \subseteq versions'[s]
          /\ owner'[s] = Absent => s \notin rules']_vars
  BY OneSecretStep DEF Immutable
<1> QED
  BY <1>1, Invariance, PTL DEF Spec, HistoryKept

\* A view says of every secret in it its name and its current version.
LEMMA SameView ==
  ASSUME NEW p \in Pid, Visible(p)' = Visible(p),
         \A t \in Sid : t \in Visible(p) => sname'[t] = sname[t] /\ current'[t] = current[t]
  PROVE  Visibility(p)' = Visibility(p)
<1>1. Visible(p) \subseteq Sid
  BY DEF Visible, Secrets
<1>2. Visibility(p)' = {<<s, sname'[s], current'[s]>> : s \in Visible(p)}
  BY DEF Visibility
<1>3. \A t \in Visible(p) : <<t, sname'[t], current'[t]>> = <<t, sname[t], current[t]>>
  BY <1>1
<1> HIDE DEF Visible
<1> QED
  BY <1>2, <1>3 DEF Visibility

LEMMA ViewHas ==
  ASSUME NEW p \in Pid, Visibility(p)' = Visibility(p), NEW s
  PROVE  /\ s \in Visible(p) => s \in Visible(p)' /\ sname'[s] = sname[s] /\ current'[s] = current[s]
         /\ s \in Visible(p)' => s \in Visible(p)
<1>1. ASSUME s \in Visible(p)
      PROVE  s \in Visible(p)' /\ sname'[s] = sname[s] /\ current'[s] = current[s]
  <2>1. <<s, sname[s], current[s]>> \in Visibility(p)'
    BY <1>1 DEF Visibility
  <2>2. PICK t \in Visible(p)' : <<s, sname[s], current[s]>> = <<t, sname'[t], current'[t]>>
    BY <2>1 DEF Visibility
  <2> QED
    BY <2>2
<1>2. ASSUME s \in Visible(p)'
      PROVE  s \in Visible(p)
  <2>1. <<s, sname'[s], current'[s]>> \in Visibility(p)
    BY <1>2 DEF Visibility
  <2>2. PICK t \in Visible(p) : <<s, sname'[s], current'[s]>> = <<t, sname[t], current[t]>>
    BY <2>1 DEF Visibility
  <2> QED
    BY <2>2
<1> QED
  BY <1>1, <1>2

\* A change to a secret of q is seen by q alone, unless q is base; and what base
\* does not see change nobody else sees change.
LEMMA SeenByOwner ==
  ASSUME VaultInv, NEW s \in Sid, NEW q \in Pid, Touches(s, q),
         Visibility(Base)' = Visibility(Base), NEW p \in Profiles \ {Base}, p # q
  PROVE  Visibility(p)' = Visibility(p)
<1> USE VaultAssumption
<1>1. /\ p # Absent /\ p \in Pid /\ Base \in Pid /\ p # Base /\ owner[s] # p /\ owner'[s] # p
      /\ owner[s] \in {q, Absent} /\ owner'[s] \in {q, Absent} /\ Base # Absent /\ q # Absent
  BY DEF Touches, Profiles
<1>2. \A t \in Sid : t # s => owner'[t] = owner[t] /\ sname'[t] = sname[t] /\ current'[t] = current[t]
  BY DEF Touches
<1>3. \A z : SecretsAt({p}, z)' = SecretsAt({p}, z)
  BY <1>1, <1>2 DEF SecretsAt, Secrets
<1>4. \A t \in Sid : t # s => (t \in Visible(p)' <=> t \in Visible(p))
  BY <1>2, <1>3 DEF Visible, Secrets, Tombstone
<1>5. CASE q # Base
  <2>1. s \notin Visible(p) /\ s \notin Visible(p)'
    BY <1>1, <1>5 DEF Visible, Secrets
  <2>2. Visible(p)' = Visible(p)
    BY <1>4, <2>1 DEF Visible, Secrets
  <2>3. \A t \in Sid : t \in Visible(p) => sname'[t] = sname[t] /\ current'[t] = current[t]
    BY <1>2, <2>1
  <2> QED
    BY <1>1, <2>2, <2>3, SameView
<1>6. CASE q = Base
  <2>1. s \in Visible(Base) <=> owner[s] = Base /\ current[s] # 0
    BY <1>1, <1>6 DEF Visible, Secrets, Tombstone
  <2>2. s \in Visible(Base)' <=> owner'[s] = Base /\ current'[s] # 0
    BY <1>1, <1>6 DEF Visible, Secrets, Tombstone
  <2>3. s \in Visible(Base) =>
            s \in Visible(Base)' /\ sname'[s] = sname[s] /\ current'[s] = current[s]
    BY ViewHas
  <2>4. s \in Visible(Base)' => s \in Visible(Base)
    BY ViewHas
  <2>5. s \in Visible(p) <=>
            s \in Visible(Base) /\ SecretsAt({p}, sname[s]) = {}
    BY <1>1, <1>6, <2>1 DEF Visible, Secrets, Tombstone
  <2>6. s \in Visible(p)' <=>
            s \in Visible(Base)' /\ SecretsAt({p}, sname'[s]) = {}
    BY <1>1, <1>3, <1>6, <2>2 DEF Visible, Secrets, Tombstone
  <2>7. s \in Visible(p)' <=> s \in Visible(p)
    BY <2>3, <2>4, <2>5, <2>6
  <2>8. s \in Visible(p) => sname'[s] = sname[s] /\ current'[s] = current[s]
    BY <2>3, <2>5
  <2>9. Visible(p)' = Visible(p)
    BY <1>4, <2>7 DEF Visible, Secrets
  <2>10. \A t \in Sid : t \in Visible(p) => sname'[t] = sname[t] /\ current'[t] = current[t]
    BY <1>2, <2>8
  <2> QED
    BY <1>1, <2>9, <2>10, SameView
<1> QED
  BY <1>5, <1>6

\* Work on one profile other than base never changes another one's view.
THEOREM ViewsApart == Spec => ProfilesApart
<1>1. ASSUME VaultInv, [Next]_vars, Visibility(Base)' = Visibility(Base)
      PROVE  LET changed == {p \in Profiles \ {Base} : Visibility(p)' # Visibility(p)}
             IN  \A p, q \in changed : p = q
  <2>1. CASE TouchesNone
    <3>1. \A p : Visibility(p)' = Visibility(p)
      BY <2>1 DEF TouchesNone, Visibility, Visible, SecretsAt, Secrets, Tombstone
    <3> QED
      BY <3>1
  <2>2. CASE \E s \in Sid, q \in Pid : Touches(s, q)
    BY <1>1, <2>2, SeenByOwner
  <2> QED
    BY <1>1, <2>1, <2>2, OneSecretStep DEF Local
<1>2. VaultInv /\ [Next]_vars => [Visibility(Base)' = Visibility(Base) =>
          LET changed == {p \in Profiles \ {Base} : Visibility(p)' # Visibility(p)}
          IN  \A p, q \in changed : p = q]_vars
  BY <1>1
<1> QED
  BY <1>2, Invariance, PTL DEF Spec, ProfilesApart
=============================================================================
