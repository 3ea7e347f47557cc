------------------------------ MODULE MCImport ------------------------------
(* Import for TLC.  Ids are tuples: <<"here", i>> is drawn by this vault,    *)
(* <<"there", i>> by another one, and <<n, i>> made by mapped_uuid for the   *)
(* destination n from the id i; MaxPackages is 1 and the foreign package is  *)
(* a workspace package, so the package need not be part of it.               *)
EXTENDS Import, TLC

CONSTANTS base, a, x, w, d0

Root == <<"here", 0>>
MCPid == {Root, <<"here", 1>>, <<"there", 0>>} \cup {<<n, i>> : n \in {base, a}, i \in {0, 1}}
MCSid == {<<"here", 1>>, <<"here", 2>>, <<"there", 1>>}
         \cup {<<n, i>> : n \in {base, a}, i \in {1, 2}}
MCRemap(k, n, i) == <<n, i[2]>>

\* A workspace package of another vault: its base profile has another id, holds
\* a secret and is in a workspace.
There ==
    [kind |-> "workspace", id |-> 0, base |-> <<"there", 0>>,
     names |-> (<<"there", 0>> :> base), descs |-> (<<"there", 0>> :> d0), auto |-> {<<"there", 0>>},
     owners |-> (<<"there", 1>> :> <<"there", 0>>), labels |-> (<<"there", 1>> :> x),
     lasts |-> (<<"there", 1>> :> 1), groups |-> {w}, members |-> {<<w, <<"there", 0>>>>}]
MCForeign == {There}

\* Every strategy of every kind, with the names that matter.
Ask(kind, strategies, renames, targets) ==
    [kind : {kind}, strategy : strategies, rename : renames, target : targets]
MCRequests ==
    Ask("env", {"skip"}, {Absent}, {a})
    \cup Ask("env", {"abort", "replace", "rename"}, {Absent}, {base})
    \cup Ask("config", {"skip", "replace"}, {Absent}, {Absent})
    \cup Ask("profile", Strategy, {Absent}, {Absent})
    \cup Ask("profile", {"rename", "replace"}, {a}, {Absent})
    \cup Ask("workspace", {"abort", "replace", "skip"}, {Absent}, {Absent})

\* The result and the loaded set enable nothing.
StateView == <<session, profiles, secrets, groups, file, packages, plan>>

\* Bounds of the run: from other states on nothing is explored.  Base keeps its
\* name and is the only profile that starts, ids are drawn in order, up
\* to three profiles, secrets and workspaces come into being, and one secret or
\* one membership comes or goes while a plan is held.
Apart(S, T) == Cardinality((S \ T) \cup (T \ S))
Explored ==
    /\ pname[Root] = base
    /\ auto = {Root}
    /\ <<"here", 2>> \in drawnSecrets => <<"here", 1>> \in drawnSecrets
    /\ Cardinality(drawn) + Cardinality(drawnSecrets) + Cardinality(workspaces) <= 3
    /\ plan # NoPlan =>
          /\ plan.known.profiles = Profiles
          /\ plan.known.workspaces = workspaces
          /\ Apart(plan.known.secrets, Secrets) + Apart(plan.known.members, members) <= 1
=============================================================================
