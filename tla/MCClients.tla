------------------------------ MODULE MCClients ------------------------------
(***************************************************************************)
(* The programs around the daemon for TLC: load and unload, the commands   *)
(* that create and remove an installation, and the terminal interface.     *)
(* They share nothing that is modelled, so that only one of them leaves    *)
(* its initial state in a behaviour that is explored.                      *)
(***************************************************************************)
EXTENDS Projects, Host, Screens, TLC

\* The workspace alone: with no members, a manifest that lists nothing any more.
MCManifest == {[names |-> {}, workspace |-> TRUE], [names |-> {"a"}, workspace |-> FALSE],
               [names |-> {"a", "b"}, workspace |-> TRUE]}

\* The commands are values of Job and the directories are values of Label: since only one
\* program leaves its initial state, one permutation serves both.
Symmetry == Permutations(Job) \cup Permutations(Label)

VARIABLE program \* which of the three is run

vars == <<program, projectVars, hostVars, screenVars>>

Init ==
    /\ ProjectsInit /\ HostInit /\ ScreensInit
    /\ \/ program = "projects" /\ vault = Nil /\ lease = "no"
       \/ program = "host" /\ members = {} /\ lease = "no"
       \/ program = "screens" /\ members = {} /\ vault = Nil

Next ==
    \/ program = "projects" /\ ProjectsNext /\ UNCHANGED <<program, hostVars, screenVars>>
    \/ program = "host" /\ HostNext /\ UNCHANGED <<program, projectVars, screenVars>>
    \/ program = "screens" /\ ScreensNext /\ UNCHANGED <<program, projectVars, hostVars>>

Spec == Init /\ [][Next]_vars

-----------------------------------------------------------------------------
(* Bounds.                                                                 *)

\* The portability screen is used while the lists are empty; there is a profile while
\* there is no secret.
ScreensApart ==
    /\ \/ rows = {} /\ list["secrets"] = <<>> /\ list["profiles"] = <<>>
       \/ /\ choice = [kind |-> "profile", strategy |-> "abort"]
          /\ preview = Void /\ counts.previews = 0 /\ sent = <<>>
    /\ \A r \in rows : r.table = "profiles" => rows = {r} /\ list["secrets"] = <<>>

\* Nothing is claimed of the lists after a refresh that failed.
Refreshed == lapse = "no"

\* The history struck is read by ActsOnSelected alone.
View == <<program, projectVars, hostVars, rows, lease, token, screen, mode, admin, list, selected,
          choice, preview, counts, sent, lapse>>
=============================================================================
