----------------------------- MODULE Algorithms -----------------------------
(***************************************************************************)
(* The broker's and portability's pure parts on every input of a small     *)
(* set.  A behaviour picks an input, a payload or a vault in several steps; *)
(* each invariant compares what the code makes of it with what it should.   *)
(***************************************************************************)
EXTENDS Integers, FiniteSets, Sequences, SequencesExt, Functions, TLC

CONSTANTS
    Root, None, MaxScopeDepth,
    Paths, PathPrefixes,       \* of requests
    Ipv4, Ipv6,            \* addresses
    Bodies,                \* the encodings around an echoed credential
    Sizes, Limit,          \* of a response's chunks; the rule's limit
    Entries,               \* of an env file
    MaxEnvName, MaxEnvLine, MaxEnvValue, MaxEnvEntries, MaxEnvFile,   \* limits of one; see EnvFile
    ScopeTables, ProfileTables, SecretTables,   \* that a package may hold
    Destination,           \* the vault that imports it
    NewScope, Labels       \* scopes that a vault may grow by

\* The bytes of an address; see Broker for how many of them matter.
Octet == 0 .. 255
Segment == 0 .. 65535
Ipv4Address == Octet \X Octet \X Octet
Ipv6Address == Segment \X Segment

\* Paths are of characters; chunks and the limit count bytes.
ASSUME PathAssumption == Paths \subseteq Seq(STRING) /\ PathPrefixes \subseteq Seq(STRING)
ASSUME ResponseAssumption == Bodies \subseteq Seq(STRING) /\ Sizes \subseteq Seq(Nat) /\ Limit \in Nat

ASSUME AddressAssumption == Ipv4 \subseteq Ipv4Address /\ Ipv6 \subseteq Ipv6Address

VARIABLE input             \* [of, ...]

Broker == INSTANCE Broker
EnvFile == INSTANCE EnvFile
Package == INSTANCE Package

\* export_plaintext_env refuses a name that is none of a variable; a profile has
\* each name once.
ASSUME EntriesAssumption ==
    \A entries \in Entries :
        /\ entries \in Seq([name : Seq(STRING), value : Seq(STRING)]) /\ entries # <<>>
        /\ \A i \in DOMAIN entries : EnvFile!ValidEnvName(entries[i].name)
        /\ \A i, j \in DOMAIN entries : entries[i].name = entries[j].name => i = j

\* The parent of the root is NULL; no id that is drawn is NULL or that of the base
\* profile; MAX_SCOPE_DEPTH leaves room for a profile's scope below the root.
ASSUME GrowthAssumption ==
    /\ Root # None
    /\ NewScope \cap {"base", None} = {}
    /\ MaxScopeDepth \in Nat /\ MaxScopeDepth >= 2

\* Limits are counts; an empty line is no longer than any.
ASSUME EnvAssumption == {MaxEnvLine, MaxEnvEntries} \subseteq Nat

NoRows == <<>>

AlgorithmsInit == input = [of |-> "none"]

PickPath ==
    /\ input.of = "none"
    /\ \E path \in Paths, prefix \in PathPrefixes :
           input' = [of |-> "path", path |-> path, prefix |-> prefix]

PickAddresses ==
    /\ input.of = "none"
    /\ \E none \in BOOLEAN :
           \/ \E a, b \in Ipv4 : input' = [of |-> "v4", some |-> IF none THEN {} ELSE {a, b}]
           \/ \E a, b \in Ipv6 : input' = [of |-> "v6", some |-> IF none THEN {} ELSE {a, b}]

PickResponse ==
    /\ input.of = "none"
    /\ \E body \in Bodies, chunks \in Sizes, announced \in {0, Limit, Limit + 1} :
           input' = [of |-> "response", status |-> 200, type |-> "text", utf8 |-> TRUE, echoes |-> TRUE,
                     body |-> body, chunks |-> chunks, announced |-> announced]

PickEnv ==
    /\ input.of = "none"
    /\ \E entries \in Entries : input' = [of |-> "env", entries |-> entries]

\* A payload as far as it was looked at, and a vault.
PayloadInput(of, kind, scopes, profiles, secrets) ==
    [of |-> of, kind |-> kind, scopes |-> scopes, profiles |-> profiles, secrets |-> secrets]
VaultInput(scopes, profiles) ==
    [of |-> "vault", scopes |-> scopes, profiles |-> profiles, secrets |-> NoRows]

\* A package's payload arrives; it is looked at in the order of validate_payload.
PickScopes ==
    /\ input.of = "none"
    /\ \E scopes \in ScopeTables, kind \in {"workspace", "profile"} :
           input' = PayloadInput("scopes", kind, scopes, NoRows, NoRows)
    /\ Package!ValidScopes(input')
PickProfiles ==
    /\ input.of = "scopes"
    /\ \E profiles \in ProfileTables :
           input' = PayloadInput("profiles", input.kind, input.scopes, profiles, NoRows)
    /\ Package!ValidHeader(input') /\ Package!ValidProfiles(input')
PickSecrets ==
    /\ input.of = "profiles"
    /\ \E secrets \in SecretTables :
           input' = PayloadInput("payload", input.kind, input.scopes, input.profiles, secrets)
    /\ Package!ValidPayload(input')

\* An id is random: nothing in the vault has it yet, nor is it the name of a scope.
FreshIds(scopes) ==
    {id \in NewScope \ DOMAIN scopes :
        \A s \in DOMAIN scopes : scopes[s].path[Len(scopes[s].path)] # id}

\* A vault grows from its root by scopes and by profiles with a scope of their own.
PickVault ==
    /\ input.of = "none"
    /\ input' = VaultInput(
           [s \in {Root} |-> [parent |-> None, kind |-> Package!RootKind, path |-> <<"user">>]],
           [p \in {"base"} |-> [scope |-> Root, name |-> "base", starts |-> TRUE]])
GrowVault ==
    /\ input.of = "vault"
    /\ \E id \in FreshIds(input.scopes) :
           \/ \E parent \in DOMAIN input.scopes, label \in Labels :
                  /\ Package!CanCreateScope(input, parent, label)
                  /\ input' = VaultInput(
                         Package!CreateScope(input, id, parent, Package!ProjectKind, label).scopes,
                         input.profiles)
           \/ \E starts \in BOOLEAN :
                  input' = VaultInput(
                      Package!CreateProfileScope(input, id).scopes,
                      [p \in DOMAIN input.profiles \cup {id} |->
                          IF p = id THEN [scope |-> id, name |-> id, starts |-> starts]
                          ELSE input.profiles[p]])

AlgorithmsNext ==
    \/ PickPath \/ PickAddresses \/ PickResponse \/ PickEnv
    \/ PickScopes \/ PickProfiles \/ PickSecrets
    \/ PickVault \/ GrowVault

AlgorithmsSpec == AlgorithmsInit /\ [][AlgorithmsNext]_input

-----------------------------------------------------------------------------
\* A request that the broker lets through stays below the rule's path prefix,
\* for a provider that walks dot segments and for one that decodes the path
\* before it does (valid_path_prefix, path_is_allowed, has_dangerous_path_segment).
PathStaysBelowPrefix ==
    input.of = "path" => Broker!StaysBelowPrefix(input.path, input.prefix)

\* The broker connects only if no address of the host lies in a special-purpose
\* block, at both ends of each block; it judges IPv6 addresses by allowing 2000::/3
\* alone (is_public_ipv4, is_public_ipv6, resolve_public_addresses).
OnlyPublicAddresses ==
    LET Special(a) == IF input.of = "v4" THEN \E b \in Broker!SpecialIpv4 : Broker!InBlock(a, b, 8)
                      ELSE \/ \E b \in Broker!SpecialIpv6 : Broker!InBlock(a, b, 16)
                           \/ ~Broker!InBlock(a, <<<<8192, 0>>, 3>>, 16)
    IN  input.of \in {"v4", "v6"} =>
            (Broker!ResolvePublicAddresses(input.some, input.of) = "ok"
             <=> input.some # {} /\ \A a \in input.some : ~Special(a))

\* A response is passed on only if it is within the rule's limit, however it is
\* cut into chunks and whatever length it announces, and if it does not hold the
\* credential under at most two encodings over a form that is searched for
\* (read_bounded, response_contains_credential).
NothingEchoed ==
    LET peels == Broker!TextLayer \cup Broker!WholeLayer \cup {"slash"}
        Hidden(body) == \E k \in 0 .. Broker!MaxDecodeRounds :
                            /\ k <= Len(body)
                            /\ \A i \in 1 .. k : body[i] \in peels
                            /\ Broker!Matches(SubSeq(body, k + 1, Len(body)))
        size == FoldLeft(LAMBDA a, b : a + b, 0, input.chunks)
    IN  input.of = "response" =>
            (Broker!ResponseError(input, Limit) = "ok"
             <=> input.announced <= Limit /\ size <= Limit /\ ~Hidden(input.body))

\* An entry, and all of them, that an import can take.
EntryFits(e) ==
    EnvFile!Bytes(EnvFile!Assignment(e)) <= MaxEnvLine /\ EnvFile!Bytes(e.value) <= MaxEnvValue
EnvFits(entries) ==
    /\ \A i \in DOMAIN entries : EntryFits(entries[i])
    /\ Len(entries) <= MaxEnvEntries
    /\ EnvFile!Bytes(EnvFile!Written(entries)) <= MaxEnvFile

\* What export_plaintext_env writes is read back, the same names with the same values
\* whatever the values hold, if it stays below the limits of imports: no line, no value
\* and the file are too long, and there are not too many entries.  Exports have none of
\* these limits; what exceeds one is refused as a whole, and nothing else is.
EnvRoundTrip ==
    LET text == EnvFile!Written(input.entries)
    IN  input.of = "env" =>
            EnvFile!ReadEnv(text) =
                IF EnvFits(input.entries) THEN EnvFile!Yields(input.entries) ELSE EnvFile!Fails

\* The plans that plan_package_import may make for the payload.
Plans ==
    IF input.kind = "workspace" THEN {[mode |-> "workspace", target |-> Root]}
    ELSE {[mode |-> "create", target |-> Package!RootScope(input)]}
         \cup {[mode |-> "replace", target |-> Destination.profiles[p].scope] : p \in DOMAIN Destination.profiles}

\* A payload that passed validation makes a batch that the store's transaction
\* takes, whatever the plan, and unless its scopes are deeper than scope_chain
\* follows or of the retired kind, the vault passes its check afterwards
\* (validate_payload, build_package_batch, validate_import_transaction).
AcceptedPayloadApplies ==
    input.of = "payload" =>
        \A plan \in Plans :
            LET after == Package!Imported(Destination, input, plan)
            IN  /\ Package!Applies(Destination, input, plan)
                /\ \/ \E s \in DOMAIN after.scopes :
                          ~Package!Readable(after.scopes, s) \/ after.scopes[s].kind = Package!RetiredKind
                   \/ Package!MetadataHolds(after)

\* An export of a profile passes the validation of the import, wherever other
\* profiles and nested scopes hang; so does an export of a vault in which one
\* profile starts (select_export_scopes, validate_payload).
ExportsAreAccepted ==
    input.of = "vault" =>
        /\ Package!MetadataHolds(input)
        /\ \A p \in DOMAIN input.profiles :
               Package!ValidPayload(Package!BuildExportPayload(input, "profile", p))
        /\ Cardinality({p \in DOMAIN input.profiles : input.profiles[p].starts}) = 1 =>
               Package!ValidPayload(Package!BuildExportPayload(input, "workspace", "base"))

\* After an import the vault can be opened: "An interruption before the transaction
\* has no persistent effect, and an interruption or error inside the transaction
\* rolls back all portable mutations" (docs/adr/0011) leaves out an error after it.
ImportedVaultOpens ==
    input.of = "payload" =>
        \A plan \in Plans :
            Package!Applies(Destination, input, plan)
                => Package!MetadataHolds(Package!Imported(Destination, input, plan))
=============================================================================
