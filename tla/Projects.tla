------------------------------ MODULE Projects ------------------------------
(***************************************************************************)
(* `envault load` and `envault unload` (crates/envault/src/project.rs and  *)
(* main.rs): commands that read a directory's manifest and one state file  *)
(* for all directories, send requests to the daemon one at a time, and     *)
(* write the state file back.  Commands and users' own requests interleave *)
(* between any two requests and file operations.                           *)
(*                                                                         *)
(* The base profile is always loaded and is left out.  Any request may     *)
(* fail (no daemon, no lease, a name that is gone), and a command may be   *)
(* killed anywhere.  A manifest lists one workspace or none, whose members *)
(* users bind and unbind at any time.  To delete a profile is, for the     *)
(* names in these lists, to unbind and unload it; to rename one, to do so  *)
(* and to load and bind another.                                           *)
(***************************************************************************)
EXTENDS FiniteSets, Functions

CONSTANTS
    Command,   \* invocations of load and unload
    Project,   \* directories
    Profile,   \* names of profiles
    OnStart,   \* profiles that start with the vault
    Manifest,  \* contents of .envault.toml: profiles, and whether it lists a workspace
    MaxRuns,   \* bound: how many commands are run
    MaxHands,  \* bound: how often users load, unload, lock, bind or unbind
    None, Torn \* no file; a file that was written in part

ASSUME ProjectsAssumption ==
    /\ OnStart \subseteq Profile
    /\ Torn # None
    /\ \A S \in SUBSET Project : {None, Torn} \cap [S -> SUBSET Profile] = {}
    /\ Manifest \subseteq [names : SUBSET Profile, workspace : BOOLEAN]

VARIABLES
    loaded,    \* the daemon's runtime loaded set
    members,   \* the profiles that are bound to the workspace
    state,     \* project_load_state.json: [some projects -> what they track], or Torn
    tmp,       \* the file that is to be renamed to it, None or Torn
    cmd,       \* the commands
    overlap,   \* history: two commands were running at once
    claimed,   \* history: what loads of a project found not loaded, and loaded
    joined,    \* history: what was bound between the two requests of a project's load
    runs,      \* how many commands were run, and how often users acted
    byHand     \* history: profiles a user loaded that no project tracked or was loading

projectVars == <<loaded, members, state, tmp, cmd, overlap, claimed, joined, runs, byHand>>

-----------------------------------------------------------------------------
Idle == [pc |-> "idle"]
Running(c) == cmd[c].pc # "idle"

\* The profiles a state file lists for a project.
Tracks(map, p) == IF map \notin {None, Torn} /\ p \in DOMAIN map THEN map[p] ELSE {}
Tracked == UNION {Tracks(state, p) : p \in Project}

\* What a command has asked about and is about to load.
Asked(r) ==
    CASE r.pc = "load" -> r.shown
      [] r.pc = "load_workspace" -> members
      [] OTHER -> {}
InFlight == UNION {cmd[c].effective \cup Asked(cmd[c]) : c \in {d \in Command : Running(d)}}

ProjectsInit ==
    /\ loaded = OnStart
    /\ members \in SUBSET Profile
    /\ state = [p \in {} |-> {}]
    /\ tmp = None
    /\ cmd = [c \in Command |-> Idle]
    /\ overlap = FALSE
    /\ claimed = [p \in Project |-> {}]
    /\ joined = [p \in Project |-> {}]
    /\ runs = [commands |-> 0, hands |-> 0]
    /\ byHand = {}

\* A load asks for the profiles, then for the workspace, then for what is to be unloaded.
After(todo, workspace) ==
    CASE todo # {} -> "show" [] workspace -> "show_workspace" [] OTHER -> "unload"

\* A command reads the manifest and the state file (read_state); a file that is
\* torn does not parse and ends it.  The entry of the project leaves the map.
Begin(c, p, kind, names, workspace) ==
    LET previous == Tracks(state, p)
    IN  /\ ~Running(c)
        /\ runs.commands < MaxRuns
        /\ state # Torn
        /\ kind = "unload" => p \in DOMAIN state
        /\ cmd' = [cmd EXCEPT ![c] =
               [pc |-> After(names, workspace),
                project |-> p, kind |-> kind, names |-> names, workspace |-> workspace,
                rest |-> state, previous |-> previous, todo |-> names,
                shown |-> {}, was |-> {}, effective |-> {}, target |-> "tmp"]]
        /\ overlap' = (overlap \/ \E d \in Command : Running(d))
        /\ runs' = [runs EXCEPT !.commands = @ + 1]
        /\ UNCHANGED <<loaded, members, state, tmp, claimed, joined, byHand>>

BeginLoad(c) ==
    \E p \in Project, m \in Manifest : Begin(c, p, "load", m.names, m.workspace)
BeginUnload(c) == \E p \in Project : Begin(c, p, "unload", {}, FALSE)

\* A first request: which of the profiles are loaded already?
Ask(c, names, then) ==
    /\ cmd' = [cmd EXCEPT ![c].pc = then, ![c].shown = names, ![c].was = loaded \cap names]
    /\ UNCHANGED <<loaded, members, state, tmp, overlap, claimed, joined, runs, byHand>>

\* Mutant: what is loaded is the project's, whoever loaded it.
Claims_All(c, names) == names

\* What the project takes for its own of what it has just loaded.
Claims(c, names) == {n \in names : n \notin cmd[c].was \/ n \in cmd[c].previous}

\* The history of it: what was listed as not loaded.
NoteClaims(c, names) ==
    claimed' = [claimed EXCEPT ![cmd[c].project] = @ \cup ((names \cap cmd[c].shown) \ cmd[c].was)]

\* A second request.
Load(c, names, then) ==
    /\ loaded' = loaded \cup names
    /\ cmd' = [cmd EXCEPT ![c].pc = then,
                          ![c].todo = @ \ names,
                          ![c].effective = @ \cup Claims(c, names)]
    /\ NoteClaims(c, names)
    /\ UNCHANGED <<members, state, tmp, overlap, joined, runs, byHand>>

\* load_manifest_profiles: the two requests for each of the profiles.
ShowProfile(c) == cmd[c].pc = "show" /\ \E n \in cmd[c].todo : Ask(c, {n}, "load")
LoadProfile(c) ==
    /\ cmd[c].pc = "load"
    /\ \E n \in cmd[c].shown : Load(c, {n}, After(cmd[c].todo \ {n}, cmd[c].workspace))

\* load_manifest_workspaces: the daemon looks the members up for each of the two.
ShowWorkspace(c) == cmd[c].pc = "show_workspace" /\ Ask(c, members, "load_workspace")
LoadWorkspace(c) == cmd[c].pc = "load_workspace" /\ Load(c, members, "unload")

\* What the project tracked and no longer lists; all of it for unload.
Dropped(c) == cmd[c].previous \ cmd[c].effective

\* One request for each of them; the last leads to the file.
UnloadProfile(c) ==
    /\ cmd[c].pc = "unload"
    /\ \E n \in Dropped(c) :
           /\ loaded' = loaded \ {n}
           /\ cmd' = [cmd EXCEPT ![c].previous = @ \ {n}]
    /\ UNCHANGED <<members, state, tmp, overlap, claimed, joined, runs, byHand>>

\* write_state writes a file beside the state file and renames it.
OpenForWriting == tmp' = Torn /\ UNCHANGED state

Truncate(c) ==
    /\ cmd[c].pc = "unload" /\ Dropped(c) = {}
    /\ OpenForWriting
    /\ cmd' = [cmd EXCEPT ![c].pc = "fill"]
    /\ UNCHANGED <<loaded, members, overlap, claimed, joined, runs, byHand>>

\* The map without the entry that was removed, with the new one of a load.
NewState(c) ==
    LET others == Restrict(cmd[c].rest, DOMAIN cmd[c].rest \ {cmd[c].project})
    IN  [p \in DOMAIN others \cup (IF cmd[c].kind = "load" THEN {cmd[c].project} ELSE {}) |->
            IF p = cmd[c].project THEN cmd[c].effective ELSE others[p]]

\* Two writers of one file may leave a mixture.
Fill(c) ==
    /\ cmd[c].pc = "fill"
    /\ \E content \in {NewState(c)} \cup (IF overlap THEN {Torn} ELSE {}) :
           CASE cmd[c].target = "tmp" -> tmp' = content /\ UNCHANGED state
             [] cmd[c].target = "state" -> state' = content /\ UNCHANGED tmp
             [] OTHER -> UNCHANGED <<state, tmp>>
    /\ cmd' = [cmd EXCEPT ![c].pc = "rename"]
    /\ UNCHANGED <<loaded, members, overlap, claimed, joined, runs, byHand>>

\* The rename fails if another command has renamed the file away; a command that
\* has the file open goes on writing to what it has become.
Rename(c) ==
    LET Follows(d) ==
            CASE d = c -> Idle
              [] d # c /\ cmd[d].pc = "fill" /\ tmp # None ->
                     [cmd[d] EXCEPT !.target = IF @ = "tmp" THEN "state" ELSE "gone"]
              [] OTHER -> cmd[d]
    IN  /\ cmd[c].pc = "rename"
        /\ state' = IF tmp = None THEN state ELSE tmp
        /\ tmp' = None
        /\ cmd' = [d \in Command |-> Follows(d)]
        /\ UNCHANGED <<loaded, members, overlap, claimed, joined, runs, byHand>>

\* A request is answered with an error, a file operation fails, or the command is
\* killed; nothing is undone.
Abort(c) ==
    /\ Running(c)
    /\ cmd' = [cmd EXCEPT ![c] = Idle]
    /\ UNCHANGED <<loaded, members, state, tmp, overlap, claimed, joined, runs, byHand>>

ByUser ==
    /\ runs.hands < MaxHands
    /\ runs' = [runs EXCEPT !.hands = @ + 1]
    /\ UNCHANGED <<state, tmp, cmd, overlap, claimed>>

ByLoader == ByUser /\ UNCHANGED <<members, joined>>

\* Users' own `profile load` and `profile unload`.
HandLoad(n) ==
    /\ loaded' = loaded \cup {n}
    /\ byHand' = IF n \in loaded \cup Tracked \cup InFlight THEN byHand ELSE byHand \cup {n}
    /\ ByLoader
HandUnload(n) ==
    /\ loaded' = loaded \ {n}
    /\ byHand' = byHand \ {n}
    /\ ByLoader

\* The vault is locked and unlocked again: the loaded set starts anew, the state
\* file stays as it is.
Relock ==
    /\ loaded' = OnStart
    /\ byHand' = {}
    /\ ByLoader

\* Users change who belongs to the workspace; what is loaded stays.
Bind(n) ==
    /\ n \notin members
    /\ members' = members \cup {n}
    /\ joined' = [p \in Project |->
           IF \E c \in Command : cmd[c].pc = "load_workspace" /\ cmd[c].project = p
           THEN joined[p] \cup {n} ELSE joined[p]]
    /\ ByUser
    /\ UNCHANGED <<loaded, byHand>>
Unbind(n) ==
    /\ n \in members
    /\ members' = members \ {n}
    /\ ByUser
    /\ UNCHANGED <<loaded, joined, byHand>>

ProjectsNext ==
    \/ \E c \in Command :
           \/ BeginLoad(c) \/ BeginUnload(c)
           \/ ShowProfile(c) \/ LoadProfile(c) \/ ShowWorkspace(c) \/ LoadWorkspace(c)
           \/ UnloadProfile(c) \/ Truncate(c) \/ Fill(c) \/ Rename(c)
           \/ Abort(c)
    \/ \E n \in Profile : HandLoad(n) \/ HandUnload(n) \/ Bind(n) \/ Unbind(n)
    \/ Relock

ProjectsSpec == ProjectsInit /\ [][ProjectsNext]_projectVars

-----------------------------------------------------------------------------
\* A command unloads for a directory only what some load of that directory found
\* not loaded and loaded, or what joined the workspace between the two requests of such
\* a load, whatever users and other commands do in between and whatever becomes of the
\* file.
TracksOnlyClaimed ==
    /\ \A p \in Project : Tracks(state, p) \cup Tracks(tmp, p) \subseteq claimed[p] \cup joined[p]
    /\ \A c \in Command : Running(c) =>
           Dropped(c) \subseteq claimed[cmd[c].project] \cup joined[cmd[c].project]

\* A state file that does not parse, which ends every load and unload from then on,
\* is left neither by a command that is killed nor by a failed request: only by two
\* commands at once (write_state).
TornOnlyByOverlap == state = Torn => overlap

\* What was bound to the workspace between the two requests of a load.
Joined == UNION {joined[p] : p \in Project}

\* What a user loads that no directory tracks or is loading stays until a user unloads
\* it or the vault is locked, as long as commands are run one at a time; only what is
\* bound to the workspace between the two requests of a load may go.
HandLoadedStay == ~overlap => byHand \ Joined \subseteq loaded

-----------------------------------------------------------------------------
(* What the three rest on.                                                 *)

\* What a state file that parses can say.
StateMap == UNION {[S -> SUBSET Profile] : S \in SUBSET Project}

Invocation ==
    [pc : {"show", "load", "show_workspace", "load_workspace", "unload", "fill", "rename"},
     project : Project, kind : {"load", "unload"}, names : SUBSET Profile, workspace : BOOLEAN,
     rest : StateMap, previous : SUBSET Profile, todo : SUBSET Profile, shown : SUBSET Profile,
     was : SUBSET Profile, effective : SUBSET Profile, target : {"tmp", "state", "gone"}]

ProjectsTypeOK ==
    /\ loaded \in SUBSET Profile /\ members \in SUBSET Profile
    /\ state \in StateMap \cup {Torn}
    /\ tmp \in StateMap \cup {None, Torn}
    /\ cmd \in [Command -> Invocation \cup {Idle}]
    /\ overlap \in BOOLEAN
    /\ claimed \in [Project -> SUBSET Profile] /\ joined \in [Project -> SUBSET Profile]
    /\ byHand \in SUBSET Profile

\* What a command under way will write or unload was claimed by loads of the directories
\* it is filed under, or joined them; what it is about to load was listed to it, or joined.
Holds(c) ==
    LET p == cmd[c].project
    IN  /\ \A q \in Project : Tracks(cmd[c].rest, q) \subseteq claimed[q] \cup joined[q]
        /\ cmd[c].previous \cup cmd[c].effective \subseteq claimed[p] \cup joined[p]
        /\ Asked(cmd[c]) \subseteq cmd[c].shown \cup joined[p]
HoldsClaimed == \A c \in Command : Running(c) => Holds(c)

\* As long as commands are run one at a time: the one under way has read the state file
\* that is there, and nobody but it writes the file that replaces it.
OneAtATime ==
    ~overlap =>
        /\ \A c, d \in Command : Running(c) /\ Running(d) => c = d
        /\ \A c \in Command : Running(c) =>
               /\ cmd[c].rest = state /\ cmd[c].target = "tmp"
               /\ cmd[c].previous \subseteq Tracks(state, cmd[c].project)
               /\ cmd[c].pc = "rename" => tmp = NewState(c)

\* As long as commands are run one at a time: of what a user loaded, only what joined is in
\* a list of what a directory may unload, and a load that is about to ask for the rest has
\* seen it loaded.
Apart(c) ==
    /\ byHand \cap (cmd[c].previous \cup cmd[c].effective) \subseteq Joined
    /\ byHand \cap Asked(cmd[c]) \subseteq cmd[c].was \cup Joined
HandsApart ==
    ~overlap => /\ byHand \cap Tracked \subseteq Joined
                /\ \A c \in Command : Running(c) => Apart(c)

\* The three, and what they rest on: no step leads out of it.
ProjectsInv ==
    /\ ProjectsTypeOK
    /\ TracksOnlyClaimed /\ TornOnlyByOverlap /\ HandLoadedStay
    /\ HoldsClaimed /\ OneAtATime /\ HandsApart
=============================================================================
