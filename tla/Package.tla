------------------------------ MODULE Package ------------------------------
(***************************************************************************)
(* What a package may hold (crates/envault-service/src/portability.rs):    *)
(* the payload that an export builds, the validation of a payload that was *)
(* read, the rows its import writes, and what the store's transaction and  *)
(* the session's check of the metadata demand of them.                     *)
(*                                                                         *)
(* A payload is [kind, scopes, profiles, secrets], the last three functions *)
(* from the ids in the package to rows; its workspaces are in Import.  A    *)
(* path is a sequence of segments.  The ids that an import gives to rows of *)
(* the package are new to the vault, one for one: they keep their names.    *)
(***************************************************************************)
EXTENDS Integers, FiniteSets, Sequences, SequencesExt, Functions

CONSTANTS
    Root,          \* the scope at the root of the vault
    None,          \* no parent
    MaxScopeDepth  \* MAX_SCOPE_DEPTH: 64 in the code

\* scope_kind_code, and the code that no kind has any more.
RootKind == 0
ProfileKind == 1
RetiredKind == 2
ProjectKind == 3

Injective(f) == \A a, b \in DOMAIN f : f[a] = f[b] => a = b

\* `{parent}/` begins the path and something follows.
Below(path, parent) == IsStrictPrefix(parent, path)

\* The scopes on the way up from a scope: the k-th is k parents up.
Climb(scopes, s, bound) ==
    LET up[k \in 0 .. bound] ==
            IF k = 0 THEN s
            ELSE IF up[k - 1] \in DOMAIN scopes THEN scopes[up[k - 1]].parent
            ELSE None
    IN  up

\* How many scopes a chain has, if it ends after at most `bound` of them; the
\* parents of a row exist.
Depth(scopes, s, bound) ==
    LET up == Climb(scopes, s, bound)
        ends == {k \in 0 .. bound : up[k] = None}
    IN  IF ends = {} THEN bound + 1 ELSE CHOOSE k \in ends : \A j \in ends : k <= j

-----------------------------------------------------------------------------
(* Validation of a payload.                                                 *)

Roots(payload) == {s \in DOMAIN payload.scopes : payload.scopes[s].parent = None}
RootScope(payload) == CHOOSE s \in Roots(payload) : TRUE

\* validate_payload_header
ValidHeader(payload) ==
    /\ DOMAIN payload.scopes # {}
    /\ DOMAIN payload.profiles # {}
    /\ payload.kind = "profile" => Cardinality(DOMAIN payload.profiles) = 1

\* scope_depth: the bound is compared before a scope is counted, so that a chain
\* may be one longer than MaxScopeDepth.
HasDepth(scopes, s) == Depth(scopes, s, MaxScopeDepth + 1) <= MaxScopeDepth + 1

\* Mutant: any other path will do for a child.
PathsNest_Any(scopes, s) == scopes[s].path # scopes[scopes[s].parent].path

\* A scope's path lies below its parent's.
PathsNest(scopes, s) == Below(scopes[s].path, scopes[scopes[s].parent].path)

\* validate_payload_scopes_and_profiles on the scopes: every code up to Project's
\* passes, the retired one among them.
ValidScopes(payload) ==
    LET scopes == payload.scopes
    IN  /\ Cardinality(Roots(payload)) = 1
        /\ payload.kind = "workspace" => scopes[RootScope(payload)].kind = RootKind
        /\ \A s \in DOMAIN scopes \ Roots(payload) :
               /\ scopes[s].kind # RootKind
               /\ scopes[s].parent \in DOMAIN scopes
               /\ PathsNest(scopes, s)
        /\ \A s \in DOMAIN scopes : HasDepth(scopes, s)
        /\ Injective([s \in DOMAIN scopes |-> scopes[s].path])

\* validate_profile_scope_relationships
ProfilesFit(payload) ==
    LET at == {payload.profiles[p].scope : p \in DOMAIN payload.profiles}
        root == RootScope(payload)
    IN  /\ payload.kind = "profile" => at = {root}
        /\ payload.kind = "workspace" =>
               /\ root \in at
               /\ \A s \in at \ {root} : payload.scopes[s].kind = ProfileKind
                                         /\ payload.scopes[s].parent = root
        /\ \A s \in DOMAIN payload.scopes : payload.scopes[s].kind = ProfileKind => s \in at

\* validate_payload_scopes_and_profiles on the profiles
ValidProfiles(payload) ==
    LET profiles == payload.profiles
    IN  /\ \A p \in DOMAIN profiles : profiles[p].scope \in DOMAIN payload.scopes
        /\ Injective([p \in DOMAIN profiles |-> profiles[p].name])
        /\ Injective([p \in DOMAIN profiles |-> profiles[p].scope])
        /\ ProfilesFit(payload)
        /\ payload.kind = "workspace" =>
               Cardinality({p \in DOMAIN profiles : profiles[p].starts}) = 1

\* validate_payload_secrets
ValidSecrets(payload) ==
    LET secrets == payload.secrets
    IN  /\ Injective([s \in DOMAIN secrets |-> <<secrets[s].scope, secrets[s].name>>])
        /\ \A s \in DOMAIN secrets :
               /\ secrets[s].scope \in DOMAIN payload.scopes
               /\ secrets[s].status = "active" <=> secrets[s].current > 0
               /\ secrets[s].versions = [i \in 1 .. secrets[s].current |-> i]

\* validate_payload
ValidPayload(payload) ==
    ValidHeader(payload) /\ ValidScopes(payload) /\ ValidProfiles(payload) /\ ValidSecrets(payload)

-----------------------------------------------------------------------------
(* What an export selects.                                                  *)

\* One more round of the loop: the children, without other profiles' scopes.
Grown(scopes, others, selected) ==
    selected \cup {s \in DOMAIN scopes \ others : scopes[s].parent \in selected}

\* Mutant: the scopes of other profiles come along.
ProfileSubtree_Nested(vault, root) ==
    LET round[k \in 0 .. Cardinality(DOMAIN vault.scopes)] ==
            IF k = 0 THEN {root} ELSE Grown(vault.scopes, {}, round[k - 1])
    IN  round[Cardinality(DOMAIN vault.scopes)]

\* select_export_scopes for a profile, profile_subtree_scope_ids
ProfileSubtree(vault, root) ==
    LET others == {vault.profiles[p].scope : p \in DOMAIN vault.profiles} \ {root}
        round[k \in 0 .. Cardinality(DOMAIN vault.scopes)] ==
            IF k = 0 THEN {root} ELSE Grown(vault.scopes, others, round[k - 1])
    IN  round[Cardinality(DOMAIN vault.scopes)]

\* export_scopes: a parent that was not selected is none.
ExportedScopes(vault, selected) ==
    [s \in selected |-> [vault.scopes[s] EXCEPT !.parent = IF @ \in selected THEN @ ELSE None]]

\* build_export_payload
BuildExportPayload(vault, kind, profile) ==
    LET selected == IF kind = "workspace" THEN DOMAIN vault.scopes
                    ELSE ProfileSubtree(vault, vault.profiles[profile].scope)
        profiles == IF kind = "workspace" THEN DOMAIN vault.profiles ELSE {profile}
        secrets == {s \in DOMAIN vault.secrets : vault.secrets[s].scope \in selected}
    IN  [kind |-> kind, scopes |-> ExportedScopes(vault, selected),
         profiles |-> Restrict(vault.profiles, profiles),
         secrets |-> Restrict(vault.secrets, secrets)]

-----------------------------------------------------------------------------
(* Import of a payload.  A plan is [mode, target]: the scope that takes the  *)
(* place of the package's root, which is new for "create".                   *)

Mapped(payload, plan, s) == IF s = RootScope(payload) THEN plan.target ELSE s

\* remap_scope_path: the destination's path of the root, then what followed it.
RemapScopePath(payload, plan, s) ==
    LET path == payload.scopes[s].path
        root == payload.scopes[RootScope(payload)].path
        destination == IF plan.target = Root THEN <<"user">> ELSE <<"user", "profile", plan.target>>
    IN  IF IsPrefix(root, path)
        THEN destination \o SubSeq(path, Len(root) + 1, Len(path))
        ELSE <<"invalid_package">>

\* append_import_scopes: one row for each scope of the payload.
ScopeRows(payload, plan) ==
    LET Row(s) == [parent |-> IF s # RootScope(payload) THEN Mapped(payload, plan, payload.scopes[s].parent)
                              ELSE IF plan.target = Root THEN None ELSE Root,
                   kind |-> IF s # RootScope(payload) THEN payload.scopes[s].kind
                            ELSE IF plan.target = Root THEN RootKind ELSE ProfileKind,
                   path |-> RemapScopePath(payload, plan, s)]
    IN  [id \in {Mapped(payload, plan, s) : s \in DOMAIN payload.scopes} |->
            Row(CHOOSE s \in DOMAIN payload.scopes : Mapped(payload, plan, s) = id)]

\* append_import_scopes inserts the scopes by their depth.
InsertionOrder(payload) ==
    SetToSortSeq(DOMAIN payload.scopes,
                 LAMBDA a, b : Depth(payload.scopes, a, MaxScopeDepth + 1)
                               < Depth(payload.scopes, b, MaxScopeDepth + 1))

\* append_import_profiles: the name and the start flag of a replaced profile stay.
ProfileRows(vault, payload, plan) ==
    LET Replaced == {p \in DOMAIN vault.profiles : vault.profiles[p].scope = plan.target}
        Row(p) == LET row == [payload.profiles[p] EXCEPT !.scope = Mapped(payload, plan, @)]
                  IN  CASE plan.mode = "workspace" -> row
                        [] plan.mode = "create" -> [row EXCEPT !.starts = FALSE]
                        [] plan.mode = "replace" ->
                               LET old == vault.profiles[CHOOSE q \in Replaced : TRUE]
                               IN  [row EXCEPT !.starts = old.starts, !.name = old.name]
    IN  [p \in DOMAIN payload.profiles |-> Row(p)]

\* append_import_secrets
SecretRows(payload, plan) ==
    [s \in DOMAIN payload.secrets |-> [payload.secrets[s] EXCEPT !.scope = Mapped(payload, plan, @)]]

\* apply_import_reset, and the rows that the updates of the batch replace.
Kept(vault, plan) ==
    CASE plan.mode = "create" -> vault
      [] plan.mode = "workspace" ->
             [scopes |-> <<>>, profiles |-> <<>>, secrets |-> <<>>]
      [] plan.mode = "replace" ->
             LET gone == ProfileSubtree(vault, plan.target)
             IN  [scopes |-> Restrict(vault.scopes, DOMAIN vault.scopes \ gone),
                  profiles |-> Restrict(vault.profiles,
                                   {p \in DOMAIN vault.profiles : vault.profiles[p].scope # plan.target}),
                  secrets |-> Restrict(vault.secrets,
                                   {s \in DOMAIN vault.secrets : vault.secrets[s].scope \notin gone})]

\* The tables after apply_import_batch of build_package_batch.
Imported(vault, payload, plan) ==
    LET kept == Kept(vault, plan)
        New(old, rows) == [i \in DOMAIN old \cup DOMAIN rows |->
                              IF i \in DOMAIN rows THEN rows[i] ELSE old[i]]
    IN  [scopes |-> New(kept.scopes, ScopeRows(payload, plan)),
         profiles |-> New(kept.profiles, ProfileRows(vault, payload, plan)),
         secrets |-> New(kept.secrets, SecretRows(payload, plan))]

\* The statements of the transaction go through: parents stand before their
\* children, the unique and the foreign keys hold, and so does what
\* validate_import_transaction looks for.
Applies(vault, payload, plan) ==
    LET after == Imported(vault, payload, plan)
        order == InsertionOrder(payload)
    IN  /\ \A s \in DOMAIN payload.scopes : RemapScopePath(payload, plan, s) # <<"invalid_package">>
        /\ \A i \in DOMAIN order : order[i] = RootScope(payload)
               \/ \E j \in 1 .. (i - 1) : order[j] = payload.scopes[order[i]].parent
        /\ Injective([s \in DOMAIN after.scopes |-> after.scopes[s].path])
        /\ Cardinality({s \in DOMAIN after.scopes : after.scopes[s].parent = None}) = 1
        /\ \A s \in DOMAIN after.scopes : after.scopes[s].parent \in DOMAIN after.scopes \cup {None}
        /\ Injective([p \in DOMAIN after.profiles |-> after.profiles[p].name])
        /\ \A p \in DOMAIN after.profiles : after.profiles[p].scope \in DOMAIN after.scopes
        /\ \E p \in DOMAIN after.profiles : after.profiles[p].starts
        /\ Injective([s \in DOMAIN after.secrets |-> <<after.secrets[s].scope, after.secrets[s].name>>])
        /\ \A s \in DOMAIN after.secrets :
               /\ after.secrets[s].scope \in DOMAIN after.scopes
               /\ after.secrets[s].current = Len(after.secrets[s].versions)
               /\ after.secrets[s].status = "active" <=> after.secrets[s].current > 0

-----------------------------------------------------------------------------
(* The check of the metadata after a commit and at every unlock.             *)

\* scope_chain: at most MaxScopeDepth scopes up to the root.
Readable(scopes, s) == Depth(scopes, s, MaxScopeDepth) <= MaxScopeDepth

\* validate_scopes
ScopesHold(vault) ==
    \A s \in DOMAIN vault.scopes :
        LET row == vault.scopes[s]
        IN  /\ s = Root <=> row.parent = None
            /\ s = Root <=> row.kind = RootKind
            /\ row.kind # RetiredKind
            /\ s # Root => Below(row.path, vault.scopes[row.parent].path)
            /\ row.kind = ProfileKind => row.parent = Root
            /\ Readable(vault.scopes, s)

\* validate_profiles
ProfilesHold(vault) ==
    LET at == {vault.profiles[p].scope : p \in DOMAIN vault.profiles}
    IN  /\ Injective([p \in DOMAIN vault.profiles |-> vault.profiles[p].scope])
        /\ Root \in at
        /\ \A s \in at \ {Root} : vault.scopes[s].kind = ProfileKind /\ vault.scopes[s].parent = Root
        /\ \A s \in DOMAIN vault.scopes : vault.scopes[s].kind = ProfileKind => s \in at

\* validate_encrypted_metadata
MetadataHolds(vault) == vault.scopes[Root].path = <<"user">> /\ ScopesHold(vault) /\ ProfilesHold(vault)

-----------------------------------------------------------------------------
(* The one way to a nested scope.                                            *)

\* create_scope with a label; the caller gives the id.
CanCreateScope(vault, parent, label) ==
    /\ Depth(vault.scopes, parent, MaxScopeDepth) < MaxScopeDepth
    /\ \A s \in DOMAIN vault.scopes : vault.scopes[s].path # Append(vault.scopes[parent].path, label)
CreateScope(vault, id, parent, kind, label) ==
    [vault EXCEPT !.scopes = [s \in DOMAIN @ \cup {id} |->
        IF s = id THEN [parent |-> parent, kind |-> kind,
                        path |-> Append(vault.scopes[parent].path, label)]
        ELSE @[s]]]

\* create_profile_under: the scope of a new profile.
CreateProfileScope(vault, id) ==
    [vault EXCEPT !.scopes = [s \in DOMAIN @ \cup {id} |->
        IF s = id THEN [parent |-> Root, kind |-> ProfileKind, path |-> <<"user", "profile", id>>]
        ELSE @[s]]]
=============================================================================
