------------------------------- MODULE Screens -------------------------------
(***************************************************************************)
(* The terminal interface (crates/envault/src/tui/app.rs): one process     *)
(* that shows lists it fetched earlier, captures a target and parameters   *)
(* over several key presses, and sends one request when they are           *)
(* confirmed, while other clients of the daemon change what it shows.      *)
(*                                                                         *)
(* A key press with its requests is one step; any request may fail, and a  *)
(* change that was answered with an error may have been made.  Text is     *)
(* collected prompt by prompt; what is typed matters only where it is a    *)
(* name.                                                                   *)
(***************************************************************************)
EXTENDS Naturals, FiniteSets, Sequences, SequencesExt

CONSTANTS
    Row,         \* rowids of profiles and secrets; lists are in their order
    Label,       \* names
    MaxVersion,  \* bound on the versions of a secret
    MaxPreviews, \* bound on previews
    MaxOthers,   \* bound on what other clients change
    Void         \* nothing

ASSUME ScreensAssumption == Row \subseteq Nat \ {0}

VARIABLES
    rows,     \* the daemon's profiles and secrets
    lease,    \* the daemon's admin lease: "yes" or "no"
    token,    \* the reveal token of this process: "none", "current" or "stale"
    screen, mode,
    admin,    \* the lease as it was last reported
    list,     \* what was last fetched for each screen
    selected, \* the index of the highlighted entry, from 1
    choice,   \* kind and strategy of the portability screen
    preview,  \* the preview shown, with the request it answers
    counts,   \* previews that were answered, and changes by other clients
    sent,     \* history: the previews whose plans were committed, in order
    struck,   \* history: the entry selected for the last request, and the one it was for
    lapse     \* history: "yes" once a refresh of a list failed

screenVars == <<rows, lease, token, screen, mode, admin, list, selected, choice, preview,
                counts, sent, struck, lapse>>

-----------------------------------------------------------------------------
Screen == {"dashboard", "profiles", "secrets", "versions", "portability"}
Normal == [at |-> "normal"]
AtKeys == mode.at = "normal"

Table == {"profiles", "secrets"}

\* A secret's owner is the profile whose scope holds it; a profile's is its own.
Fits(rs) == \A r, q \in rs :
    r # q => r.id # q.id /\ (<<r.table, r.owner, r.name>> # <<q.table, q.owner, q.name>>)

\* ListProfiles and ListSecrets, which lists the secrets of every scope.
Listed(rs, t) == SetToSortSeq({r \in rs : r.table = t}, LAMBDA r, q : r.id < q.id)

\* The row a request names: requests about secrets name the base profile.
Named(t, name) == {r \in rows : r.table = t /\ r.owner = "base" /\ r.name = name}

Highlighted(t) ==
    IF selected[t] \in DOMAIN list[t] THEN {list[t][selected[t]]} ELSE {}

Clamp(index, length) == IF length = 0 THEN 1 ELSE IF index > length THEN length ELSE index

-----------------------------------------------------------------------------
(* Refreshing: each may fail and leave what was shown before.              *)

Show(t, entries) ==
    /\ list' = [list EXCEPT ![t] = entries]
    /\ selected' = [selected EXCEPT ![t] = Clamp(@, Len(entries))]

RefreshFails == UNCHANGED <<list, selected>> /\ lapse' = "yes"

\* refresh_profiles and refresh_secrets, when the daemon has the rows rs.
Refresh(t, rs) == (Show(t, Listed(rs, t)) /\ UNCHANGED lapse) \/ RefreshFails

\* The versions of the base secret that has the name of the highlighted entry.
RefreshVersions ==
    \/ /\ Highlighted("secrets") = {}
       /\ list' = [list EXCEPT !["versions"] = <<>>]
       /\ UNCHANGED <<selected, lapse>>
    \/ \E s \in Highlighted("secrets") : \E r \in Named("secrets", s.name) :
          /\ Show("versions", [v \in 1 .. r.versions |-> [of |-> s.name, version |-> v]])
          /\ UNCHANGED lapse
    \/ Highlighted("secrets") # {} /\ RefreshFails

\* refresh_dashboard
RefreshDashboard(current) == admin' \in {admin, current}

ScreensInit ==
    /\ rows = {}
    /\ lease \in {"yes", "no"}
    /\ token = "none"
    /\ screen = "dashboard"
    /\ mode = [at |-> "unlock"]
    /\ admin \in {lease, "no"}
    /\ list = [s \in {"profiles", "secrets", "versions"} |-> <<>>]
    /\ selected = [s \in {"profiles", "secrets", "versions"} |-> 1]
    /\ choice = [kind |-> "profile", strategy |-> "abort"]
    /\ preview = Void
    /\ counts = [previews |-> 0, others |-> 0]
    /\ sent = <<>>
    /\ struck = [shown |-> Void, acted |-> Void]
    /\ lapse = "no"

daemonVars == <<rows, lease>>
shownVars == <<list, selected, lapse>>
historyVars == <<counts, sent, struck>>

-----------------------------------------------------------------------------
(* Keys of the normal mode.                                                *)

GoTo(s) ==
    /\ AtKeys
    /\ screen' = s
    /\ CASE s = "dashboard" -> RefreshDashboard(lease) /\ UNCHANGED shownVars
         [] s \in Table -> Refresh(s, rows) /\ UNCHANGED admin
         [] s = "versions" -> RefreshVersions /\ UNCHANGED admin
         [] OTHER -> UNCHANGED <<shownVars, admin>>
    /\ UNCHANGED <<daemonVars, token, mode, choice, preview, historyVars>>

Move ==
    /\ AtKeys /\ screen \in DOMAIN list
    /\ \E i \in DOMAIN list[screen] :
           /\ i \in {selected[screen] - 1, selected[screen] + 1}
           /\ selected' = [selected EXCEPT ![screen] = i]
    /\ UNCHANGED <<daemonVars, token, screen, mode, admin, list, lapse, choice, preview,
                   historyVars>>

\* Every key that only opens something, and Esc.
SetMode(m) ==
    /\ mode' = m
    /\ UNCHANGED <<daemonVars, token, screen, admin, shownVars, choice, preview, historyVars>>

OpenUnlock == AtKeys /\ token = "none" /\ SetMode([at |-> "unlock"])

ArmLock == AtKeys /\ admin = "yes" /\ SetMode([at |-> "confirm", op |-> "lock"])

\* on_admin_key: the name and the entry it came from are captured.
SelectedOps == [profiles |-> {"rename", "delete", "activate"},
                secrets |-> {"describe", "rename", "delete", "generate"}]
Arm ==
    /\ AtKeys /\ admin = "yes" /\ screen \in Table
    /\ \/ \E op \in SelectedOps[screen], r \in Highlighted(screen) :
             SetMode([at |-> IF op \in {"rename", "describe"} THEN "text" ELSE "confirm",
                      op |-> op, table |-> screen, target |-> r, name |-> r.name])
       \/ SetMode([at |-> "text", op |-> "create", table |-> screen])

\* on_portability_key
Following(s, x) == s[(SelectInSeq(s, LAMBDA y : y = x) % Len(s)) + 1]
Strategies == [profile |-> <<"abort", "skip", "replace", "rename">>,
               workspace |-> <<"abort", "replace">>,
               env |-> <<"abort", "skip", "replace">>]

\* Mutant: the preview outlives a change of the strategy.
NextStrategy_KeepsPreview ==
    /\ choice' = [choice EXCEPT !.strategy = Following(Strategies[choice.kind], @)]
    /\ UNCHANGED preview

NextKind ==
    /\ choice' = [kind |-> Following(<<"profile", "workspace", "env">>, choice.kind),
                  strategy |-> "abort"]
    /\ preview' = Void
NextStrategy ==
    /\ choice' = [choice EXCEPT !.strategy = Following(Strategies[choice.kind], @)]
    /\ preview' = Void
Choose ==
    /\ AtKeys /\ screen = "portability"
    /\ NextKind \/ NextStrategy
    /\ UNCHANGED <<daemonVars, token, screen, mode, admin, shownVars, historyVars>>

OpenImport == AtKeys /\ screen = "portability" /\ admin = "yes"
    /\ SetMode([at |-> "text", op |-> "import", kind |-> choice.kind])
OpenExport == AtKeys /\ screen = "portability" /\ admin = "yes" /\ choice.kind # "env"
    /\ SetMode([at |-> "text", op |-> "export", kind |-> choice.kind])
ArmCommit == AtKeys /\ screen = "portability" /\ admin = "yes" /\ preview # Void
    /\ SetMode([at |-> "confirm", op |-> "commit", plan |-> preview.id])

\* reveal_secret asks for the base secret of the entry's name; the daemon answers if the
\* lease and the token are current.
Reveal ==
    /\ AtKeys /\ admin = "yes" /\ token # "none" /\ screen \in {"secrets", "versions"}
    /\ lease = "yes" /\ token = "current"
    /\ \E s \in Highlighted("secrets") : \E r \in Named("secrets", s.name) :
           \E v \in IF screen = "secrets" THEN {[of |-> s.name, version |-> r.versions]}
                    ELSE Highlighted("versions") :
              /\ v.version <= r.versions
              /\ mode' = [at |-> "reveal", name |-> s.name, listed |-> v.of, version |-> v.version]
              /\ struck' = [shown |-> s.id, acted |-> r.id]
    /\ UNCHANGED <<daemonVars, token, screen, admin, shownVars, choice, preview, counts, sent>>

-----------------------------------------------------------------------------
(* The other modes.                                                        *)

\* Esc or n at a prompt; any key at a revealed value.
Close == mode.at \in {"unlock", "text", "confirm", "reveal"} /\ SetMode(Normal)

\* AdminUnlock and IssueRevealToken, either of which may fail.
SubmitUnlock ==
    /\ mode.at = "unlock"
    /\ mode' = Normal
    /\ \/ UNCHANGED <<lease, admin, token>>
       \/ lease' = "yes" /\ admin' = "yes" /\ token' \in {"current", "none"}
    /\ UNCHANGED <<rows, screen, shownVars, choice, preview, historyVars>>

\* The last prompt of a wizard arms its action.
SubmitText ==
    /\ mode.at = "text"
    /\ \/ mode.op = "describe" /\ SetMode([mode EXCEPT !.at = "confirm"])
       \/ /\ mode.op \in {"create", "rename"}
          /\ \E n \in Label : SetMode([f \in DOMAIN mode \cup {"new"} |->
                 CASE f = "new" -> n [] f = "at" -> "confirm" [] OTHER -> mode[f]])

\* submit_portability_export_input
SubmitExport ==
    /\ mode.at = "text" /\ mode.op = "export"
    /\ SetMode([mode EXCEPT !.at = "confirm"])

\* request_package_preview and request_env_preview, at the last prompt of an import: the
\* preview that was shown goes first.
RequestPreview ==
    /\ mode.at = "text" /\ mode.op = "import"
    /\ counts.previews < MaxPreviews
    /\ mode' = Normal
    /\ \/ preview' = Void /\ UNCHANGED counts
       \/ /\ counts' = [counts EXCEPT !.previews = @ + 1]
          /\ preview' = [id |-> counts'.previews, kind |-> mode.kind, strategy |-> choice.strategy]
    /\ UNCHANGED <<daemonVars, token, screen, admin, shownVars, choice, sent, struck>>

\* What an operation makes of the rows, as far as it can.
NewRow(t, owner, name) ==
    {[id |-> i, table |-> t, owner |-> owner, name |-> name, versions |-> 1] :
        i \in {i \in Row : \A r \in rows : r.id # i}}
Effects(action) ==
    CASE action.op = "create" -> {rows \cup {r} : r \in NewRow(action.table, "base", action.new)}
      [] action.op = "rename" ->
            {(rows \ {r}) \cup {[r EXCEPT !.name = action.new]} : r \in Named(action.table, action.name)}
      [] action.op = "delete" -> {rows \ {r} : r \in Named(action.table, action.name)}
      [] action.op = "generate" ->
            {(rows \ {r}) \cup {[r EXCEPT !.versions = @ + 1]} :
                r \in {r \in Named(action.table, action.name) : r.versions < MaxVersion}}
      [] OTHER -> {rows}

\* What a confirmed request does to the row it names.
Strikes(action) ==
    IF "target" \in DOMAIN action
    THEN \E r \in Named(action.table, action.name) :
            struck' = [shown |-> action.target.id, acted |-> r.id]
    ELSE UNCHANGED struck

\* The daemon's part of a confirmed change; the deletion of what is gone is no failure.
Changes(action) ==
    \/ Strikes(action) /\ rows' \in {rs \in Effects(action) : Fits(rs)}
    \/ action.op = "delete" /\ Named(action.table, action.name) = {} /\ UNCHANGED <<rows, struck>>

\* execute_profile_action and execute_secret_action: the list is refreshed after success.
ConfirmChange ==
    /\ mode.at = "confirm" /\ mode.op \notin {"lock", "commit", "export"}
    /\ mode' = Normal
    /\ \/ /\ lease = "yes"
          /\ Changes(mode)
          /\ \/ /\ Refresh(mode.table, rows')
                /\ admin' \in IF mode.op = "activate" THEN {admin, lease} ELSE {admin}
             \/ UNCHANGED <<shownVars, admin>>
       \/ UNCHANGED <<rows, struck, shownVars, admin>>
    /\ UNCHANGED <<lease, token, screen, choice, preview, counts, sent>>

ConfirmLock ==
    /\ mode.at = "confirm" /\ mode.op = "lock"
    /\ mode' = Normal
    /\ \/ lease' = "no" /\ token' = "none" /\ RefreshDashboard("no")
       \/ lease' \in {lease, "no"} /\ UNCHANGED admin
          /\ token' = IF token = "current" /\ lease' = "no" THEN "stale" ELSE token
    /\ UNCHANGED <<rows, screen, shownVars, choice, preview, historyVars>>

\* execute_portability_commit takes the preview out before it sends its plan.
Taken == preview' = Void

ConfirmCommit ==
    /\ mode.at = "confirm" /\ mode.op = "commit"
    /\ mode' = Normal
    /\ Taken
    /\ sent' = Append(sent, preview.id)
    /\ \/ UNCHANGED <<shownVars, admin>>
       \/ preview.kind = "env" /\ Refresh("secrets", rows) /\ UNCHANGED admin
       \/ preview.kind # "env" /\ Refresh("profiles", rows) /\ RefreshDashboard(lease)
    /\ UNCHANGED <<daemonVars, token, screen, choice, counts, struck>>

\* execute_export_package changes nothing here.
ConfirmExport == mode.at = "confirm" /\ mode.op = "export" /\ SetMode(Normal)

-----------------------------------------------------------------------------
(* Other clients of the daemon.                                            *)

ByOthers == counts.others < MaxOthers /\ counts' = [counts EXCEPT !.others = @ + 1]
OthersChange ==
    /\ ByOthers
    /\ rows' \in {rs \in UNION {Effects(a) : a \in
                     {[op |-> "create", table |-> t, new |-> n] : t \in Table, n \in Label}
                     \cup {[op |-> "rename", table |-> t, name |-> n, new |-> m] :
                               t \in Table, n \in Label, m \in Label}
                     \cup {[op |-> "delete", table |-> t, name |-> n] : t \in Table, n \in Label}}
                  \cup {rows \cup {r} : r \in UNION {NewRow("secrets", "other", n) : n \in Label}} :
                  Fits(rs)}
    /\ UNCHANGED <<lease, token, screen, mode, admin, shownVars, choice, preview, sent, struck>>

\* A lease expires, is locked, or is granted to another connection; the token goes with it.
LeaseChanges ==
    /\ ByOthers
    /\ lease' \in {"yes", "no"}
    /\ token' = IF token = "current" THEN "stale" ELSE token
    /\ UNCHANGED <<rows, screen, mode, admin, shownVars, choice, preview, sent, struck>>

ScreensNext ==
    \/ \E s \in Screen : GoTo(s)
    \/ Move \/ OpenUnlock \/ ArmLock \/ Arm \/ Choose
    \/ OpenImport \/ OpenExport \/ ArmCommit \/ Reveal
    \/ Close \/ SubmitUnlock \/ SubmitText \/ SubmitExport \/ RequestPreview
    \/ ConfirmChange \/ ConfirmLock \/ ConfirmCommit \/ ConfirmExport
    \/ OthersChange \/ LeaseChanges

ScreensSpec == ScreensInit /\ [][ScreensNext]_screenVars

-----------------------------------------------------------------------------
\* "press 'c' to commit this exact plan" (view.rs): the preview on display is of the kind
\* and strategy on display, and is the last one that was asked for.
PreviewIsOfChoice ==
    preview # Void =>
        /\ preview.kind = choice.kind /\ preview.strategy = choice.strategy
        /\ preview.id = counts.previews

\* A plan is sent at most once, also when its answer was lost (app.rs: "a stale or
\* repeated commit is impossible").
NoPlanTwice == IsInjective(sent)

\* What is revealed as a version of a secret was listed as one of that secret, unless a
\* refresh had failed, which leaves the versions of the secret shown before.
RevealsWhatIsListed == mode.at = "reveal" /\ lapse = "no" => mode.listed = mode.name

\* A request acts on the entry that was highlighted when its key was pressed ("delete
\* secret '{name}'?" of the entry, app.rs:672; the value of a secret, glossary.md:50).
ActsOnSelected == struck.shown = struck.acted
-----------------------------------------------------------------------------
(* What the three rest on.                                                 *)

\* The parts of the state that have a shape of their own.
ScreensTypeOK ==
    /\ DOMAIN list = {"profiles", "secrets", "versions"} /\ DOMAIN selected = DOMAIN list
    /\ counts \in [previews : Nat, others : Nat]
    /\ sent \in Seq(Nat)
    /\ lapse \in {"yes", "no"}
    /\ "at" \in DOMAIN mode
    /\ mode.at \in {"text", "confirm"} => "op" \in DOMAIN mode

\* What was captured when a key opened a prompt still holds when it is answered: the screen
\* and the kind have not changed, and there is a preview to commit.
Captured ==
    /\ mode.at \in {"text", "confirm"} /\ mode.op \notin {"lock", "commit", "import", "export"} =>
           "table" \in DOMAIN mode /\ mode.table = screen /\ screen \in Table
    /\ mode.at \in {"text", "confirm"} /\ mode.op = "import" =>
           mode.at = "text" /\ mode.kind = choice.kind
    /\ mode.at \in {"text", "confirm"} /\ mode.op = "commit" =>
           mode.at = "confirm" /\ preview # Void /\ screen = "portability"

\* Plans were sent of earlier previews than the one on display.
SentBefore ==
    \A i \in DOMAIN sent :
        sent[i] <= counts.previews /\ (preview # Void => sent[i] < counts.previews)

\* The versions screen shows versions of the secret highlighted on the secrets screen.
VersionsOfSelected ==
    screen = "versions" /\ lapse = "no" =>
        \A s \in Highlighted("secrets") : \A i \in DOMAIN list["versions"] :
            list["versions"][i].of = s.name

\* The three, and what they rest on: no step leads out of it.
ScreensInv ==
    /\ ScreensTypeOK
    /\ PreviewIsOfChoice /\ NoPlanTwice /\ RevealsWhatIsListed
    /\ Captured /\ SentBefore /\ VersionsOfSelected
=============================================================================
