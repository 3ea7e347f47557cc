---------------------------- MODULE Clients_proofs ----------------------------
(***************************************************************************)
(* Proofs about what runs in the user's own processes, for every number of *)
(* commands, jobs and rows.  ProjectsInv: a torn state file takes two      *)
(* commands at once, and but for what joins a workspace between the two    *)
(* requests of a load, directories unload only what their loads brought in *)
(* and one command at a time leaves what a user loaded.  HostInv: a vault  *)
(* is published once, an uninstall removes what it has proved, and one     *)
(* that runs alone leaves no trace.  ScreensInv: a preview on display      *)
(* answers the choice on display, a plan is sent once, and a value is      *)
(* revealed of a version that was listed for its secret.                   *)
(***************************************************************************)
EXTENDS Projects, Host, Screens, TLAPS

-----------------------------------------------------------------------------
(* State files.                                                            *)

\* A file that parses is neither missing nor torn.
LEMMA MapsParse ==
  ASSUME NEW m \in StateMap
  PROVE  /\ m # None /\ m # Torn
         /\ \A p \in Project : Tracks(m, p) = IF p \in DOMAIN m THEN m[p] ELSE {}
         /\ \A p \in Project : Tracks(m, p) \in SUBSET Profile
<1> PICK S \in SUBSET Project : m \in [S -> SUBSET Profile]
  BY DEF StateMap
<1>1. m # None /\ m # Torn
  BY ProjectsAssumption
<1> QED
  BY <1>1 DEF Tracks

\* A missing or torn file tracks nothing.
LEMMA NoMapTracks == \A p : Tracks(None, p) = {} /\ Tracks(Torn, p) = {}
  BY DEF Tracks

\* What write_state is given: the entry of the command's directory is what its load
\* found effective, or gone; the others are as they were read.
LEMMA NewStateTracks ==
  ASSUME NEW c \in Command, cmd[c] \in Invocation
  PROVE  /\ NewState(c) \in StateMap
         /\ \A p \in Project : Tracks(NewState(c), p) \subseteq
                Tracks(cmd[c].rest, p) \cup (IF p = cmd[c].project THEN cmd[c].effective ELSE {})
<1> DEFINE rest == cmd[c].rest
           others == DOMAIN rest \ {cmd[c].project}
           S == others \cup (IF cmd[c].kind = "load" THEN {cmd[c].project} ELSE {})
<1>1. /\ rest \in StateMap /\ cmd[c].project \in Project
      /\ cmd[c].effective \in SUBSET Profile
  BY DEF Invocation
<1>2. PICK T \in SUBSET Project : rest \in [T -> SUBSET Profile]
  BY <1>1 DEF StateMap
<1>3. NewState(c) = [p \in S |-> IF p = cmd[c].project THEN cmd[c].effective ELSE rest[p]]
  BY DEF NewState, Restrict
<1>4. S \in SUBSET Project /\ \A p \in S : p # cmd[c].project => p \in T
  BY <1>1, <1>2
<1>5. NewState(c) \in [S -> SUBSET Profile]
  BY <1>1, <1>2, <1>3, <1>4
<1>6. NewState(c) \in StateMap
  BY <1>4, <1>5 DEF StateMap
<1>7. ASSUME NEW p \in Project
      PROVE  Tracks(NewState(c), p) \subseteq
                Tracks(rest, p) \cup (IF p = cmd[c].project THEN cmd[c].effective ELSE {})
  <2>1. Tracks(NewState(c), p) = IF p \in S THEN NewState(c)[p] ELSE {}
    BY <1>5, <1>6, MapsParse
  <2>2. Tracks(rest, p) = IF p \in T THEN rest[p] ELSE {}
    BY <1>1, <1>2, MapsParse
  <2> QED
    BY <1>2, <1>3, <1>4, <2>1, <2>2
<1> QED
  BY <1>6, <1>7

-----------------------------------------------------------------------------
(* The invariant holds initially, and every action keeps it.                *)

LEMMA ProjectsInitInv == ProjectsInit => ProjectsInv
<1> SUFFICES ASSUME ProjectsInit PROVE ProjectsInv
  OBVIOUS
<1>1. state \in StateMap
  <2>1. state \in [{} -> SUBSET Profile]
    BY DEF ProjectsInit
  <2> QED
    BY <2>1 DEF StateMap
<1>2. \A p \in Project : Tracks(state, p) = {} /\ Tracks(tmp, p) = {}
  BY <1>1, MapsParse, NoMapTracks DEF ProjectsInit
<1>3. \A c \in Command : ~Running(c)
  BY DEF ProjectsInit, Running, Idle
<1>4. ProjectsTypeOK
  BY <1>1, ProjectsAssumption DEF ProjectsInit, ProjectsTypeOK
<1>5. state # Torn
  BY <1>1, MapsParse
<1> QED
  BY <1>1, <1>2, <1>3, <1>4, <1>5 DEF ProjectsInit, ProjectsInv, TracksOnlyClaimed,
     TornOnlyByOverlap, HandLoadedStay, HoldsClaimed, OneAtATime, HandsApart, Tracked, Joined

\* A command that is under way is an invocation.
LEMMA RunningIs ==
  ASSUME ProjectsTypeOK, NEW c \in Command
  PROVE  /\ Running(c) <=> cmd[c] \in Invocation
         /\ ~Running(c) <=> cmd[c] = Idle
<1>1. cmd[c] \in Invocation \cup {Idle}
  BY DEF ProjectsTypeOK
<1> QED
  BY <1>1 DEF Running, Idle, Invocation

\* A command's own step keeps the invariant if what it goes on with is what it had, with
\* less to ask for or to unload, and only more that is claimed and effective, none of it
\* a user's; and if what it writes is claimed.
LEMMA OwnStepInv ==
  ASSUME ProjectsInv, NEW c \in Command, Running(c), NEW r \in Invocation,
         cmd' = [cmd EXCEPT ![c] = r],
         r.project = cmd[c].project, r.kind = cmd[c].kind, r.names = cmd[c].names,
         r.rest = cmd[c].rest, r.target = cmd[c].target,
         r.todo \subseteq cmd[c].todo, r.previous \subseteq cmd[c].previous,
         claimed' \in [Project -> SUBSET Profile],
         \A p \in Project : claimed[p] \subseteq claimed'[p],
         r.effective \subseteq claimed'[r.project] \cup joined[r.project],
         Asked(r) \subseteq r.shown \cup joined[r.project],
         loaded' \in SUBSET Profile, ~overlap => byHand \ Joined \subseteq loaded',
         state' \in StateMap \cup {Torn}, tmp' \in StateMap \cup {None, Torn},
         ~overlap => state' = state,
         \A p \in Project : Tracks(state', p) \cup Tracks(tmp', p) \subseteq claimed'[p] \cup joined[p],
         ~overlap => byHand \cap r.effective \subseteq Joined,
         ~overlap => byHand \cap Asked(r) \subseteq r.was \cup Joined,
         ~overlap /\ r.pc = "rename" => tmp' = NewState(c)',
         UNCHANGED <<overlap, byHand, members, joined>>
  PROVE  ProjectsInv'
<1> USE DEF ProjectsInv
<1>1. cmd \in [Command -> Invocation \cup {Idle}]
  BY DEF ProjectsTypeOK
<1>2. cmd'[c] = r /\ \A d \in Command : d # c => cmd'[d] = cmd[d]
  BY <1>1
<1>3. \A d \in Command : Running(d)' => Running(d)
  BY <1>2 DEF Running
<1>4. cmd[c].project \in Project
  BY RunningIs DEF Invocation
<1>5. \A d \in Command : Running(d) => cmd[d] \in Invocation /\ cmd[d].project \in Project
  BY RunningIs DEF Invocation
<1>6. ProjectsTypeOK'
  BY <1>1 DEF ProjectsTypeOK
<1>7. HoldsClaimed'
  <2> SUFFICES ASSUME NEW d \in Command, Running(d)' PROVE Holds(d)'
    BY DEF HoldsClaimed
  <2> \A q : Asked(q)' = Asked(q)
    BY DEF Asked
  <2>1. Holds(d) /\ cmd[d].project \in Project
    BY <1>3, <1>5 DEF HoldsClaimed
  <2>2. CASE d = c
    BY <2>1, <2>2, <1>2, <1>4 DEF Holds
  <2>3. CASE d # c
    BY <2>1, <2>3, <1>2 DEF Holds
  <2> QED
    BY <2>2, <2>3
<1>8. TracksOnlyClaimed'
  BY <1>7 DEF TracksOnlyClaimed, HoldsClaimed, Holds, Dropped
<1>9. TornOnlyByOverlap'
  BY DEF TornOnlyByOverlap
<1>10. HandLoadedStay'
  BY DEF HandLoadedStay, Joined
<1>11. OneAtATime'
  <2> SUFFICES ASSUME ~overlap, NEW d \in Command, Running(d)'
               PROVE  /\ d = c /\ cmd'[d].rest = state' /\ cmd'[d].target = "tmp"
                      /\ cmd'[d].previous \subseteq Tracks(state', cmd'[d].project)
                      /\ cmd'[d].pc = "rename" => tmp' = NewState(d)'
    BY DEF OneAtATime
  <2>1. d = c
    BY <1>3 DEF OneAtATime
  <2> QED
    BY <2>1, <1>2 DEF OneAtATime
<1>12. HandsApart'
  <2> SUFFICES ASSUME ~overlap
               PROVE  /\ byHand' \cap Tracked' \subseteq Joined'
                      /\ \A d \in Command : Running(d)' => Apart(d)'
    BY DEF HandsApart
  <2>1. Tracked' = Tracked /\ Joined' = Joined
    BY DEF Tracked, Joined
  <2>2. \A d \in Command : Running(d)' => d = c
    BY <1>3 DEF OneAtATime
  <2> \A q : Asked(q)' = Asked(q)
    BY DEF Asked
  <2>3. Apart(c) /\ byHand \cap Tracked \subseteq Joined
    BY DEF HandsApart
  <2>4. Apart(c)'
    BY <2>1, <2>3, <1>2 DEF Apart
  <2> QED
    BY <2>1, <2>2, <2>3, <2>4
<1> QED
  BY <1>6, <1>7, <1>8, <1>9, <1>10, <1>11, <1>12

\* Where a load goes on after a request.
LEMMA AfterIs ==
  ASSUME NEW todo, NEW workspace
  PROVE  After(todo, workspace) \in {"show", "show_workspace", "unload"}
BY DEF After

\* A command that begins holds what the state file tracks for its directory.
LEMMA BeginInv ==
  ASSUME ProjectsInv, NEW c \in Command, BeginLoad(c) \/ BeginUnload(c)
  PROVE  ProjectsInv'
<1> USE DEF ProjectsInv
<1> PICK p \in Project, kind \in {"load", "unload"}, names \in SUBSET Profile,
         workspace \in BOOLEAN : Begin(c, p, kind, names, workspace)
  <2>1. CASE BeginLoad(c)
    BY <2>1, ProjectsAssumption DEF BeginLoad
  <2>2. CASE BeginUnload(c)
    BY <2>2 DEF BeginUnload
  <2> QED
    BY <2>1, <2>2
<1> DEFINE r == [pc |-> After(names, workspace),
                 project |-> p, kind |-> kind, names |-> names, workspace |-> workspace,
                 rest |-> state, previous |-> Tracks(state, p), todo |-> names,
                 shown |-> {}, was |-> {}, effective |-> {}, target |-> "tmp"]
<1>1. /\ cmd' = [cmd EXCEPT ![c] = r]
      /\ overlap' = (overlap \/ \E d \in Command : Running(d))
      /\ state # Torn
      /\ UNCHANGED <<loaded, members, state, tmp, claimed, joined, byHand>>
      /\ \A q : Asked(q)' = Asked(q)
  BY DEF Begin, Asked
<1>2. /\ state \in StateMap
      /\ cmd \in [Command -> Invocation \cup {Idle}]
  BY <1>1 DEF ProjectsTypeOK
<1>3. /\ r \in Invocation
      /\ r.pc # "rename" /\ Asked(r) = {}
  BY <1>2, MapsParse, AfterIs DEF Invocation, Asked
<1>4. cmd'[c] = r /\ \A d \in Command : d # c => cmd'[d] = cmd[d]
  BY <1>1, <1>2
<1> HIDE DEF r
<1>5. /\ r.rest = state /\ r.previous = Tracks(state, p) /\ r.project = p /\ r.effective = {}
      /\ r.target = "tmp"
  BY DEF r
<1>6. \A d \in Command : d # c => (Running(d)' <=> Running(d))
  BY <1>4 DEF Running
<1>7. ProjectsTypeOK'
  BY <1>1, <1>2, <1>3 DEF ProjectsTypeOK
<1>8. HoldsClaimed'
  BY <1>1, <1>3, <1>4, <1>5, <1>6 DEF HoldsClaimed, Holds, TracksOnlyClaimed
<1>9. TracksOnlyClaimed'
  BY <1>1, <1>8 DEF TracksOnlyClaimed, HoldsClaimed, Holds, Dropped
<1>10. TornOnlyByOverlap' /\ HandLoadedStay'
  BY <1>1 DEF TornOnlyByOverlap, HandLoadedStay, Joined
<1>11. ASSUME ~overlap' PROVE ~overlap /\ \A d \in Command : Running(d)' => d = c
  BY <1>1, <1>6, <1>11
<1>12. OneAtATime'
  BY <1>1, <1>3, <1>4, <1>5, <1>11 DEF OneAtATime
<1>13. HandsApart'
  <2> SUFFICES ASSUME ~overlap'
               PROVE  /\ byHand' \cap Tracked' \subseteq Joined'
                      /\ byHand' \cap (cmd'[c].previous \cup cmd'[c].effective) \subseteq Joined'
    <3>1. ~overlap' => \A d \in Command : Running(d)' => d = c
      BY <1>11
    <3>2. Asked(cmd[c])' = {}
      BY <1>1, <1>3, <1>4 DEF Asked
    <3> QED
      BY <3>1, <3>2 DEF HandsApart, Apart
  <2>1. byHand \cap Tracked \subseteq Joined /\ Tracks(state, p) \subseteq Tracked
    BY <1>11 DEF HandsApart, Tracked
  <2>2. Tracked' = Tracked /\ Joined' = Joined
    BY <1>1 DEF Tracked, Joined
  <2> QED
    BY <2>1, <2>2, <1>1, <1>4, <1>5
<1> QED
  BY <1>7, <1>8, <1>9, <1>10, <1>12, <1>13

\* The requests about what is loaded, and what a load takes for its own: never what a
\* user loaded, which the request before it has shown.
LEMMA ShowInv ==
  ASSUME ProjectsInv, NEW c \in Command, ShowProfile(c) \/ ShowWorkspace(c)
  PROVE  ProjectsInv'
<1> PICK pc \in {"load", "load_workspace"}, names \in SUBSET Profile :
         /\ Ask(c, names, pc)
         /\ pc = "load" \/ names = members
  <2>1. members \in SUBSET Profile
    BY DEF ProjectsInv, ProjectsTypeOK
  <2>2. cmd[c].pc = "show" => cmd[c].todo \in SUBSET Profile
    BY RunningIs DEF Running, Invocation, ProjectsInv
  <2> QED
    <3>1. CASE ShowProfile(c)
      BY <2>2, <3>1 DEF ShowProfile
    <3>2. CASE ShowWorkspace(c)
      BY <2>1, <3>2 DEF ShowWorkspace
    <3> QED
      BY <3>1, <3>2
<1> DEFINE r == [cmd[c] EXCEPT !.pc = pc, !.shown = names, !.was = loaded \cap names]
<1>1. Running(c) /\ cmd[c] \in Invocation /\ loaded \in SUBSET Profile
  BY RunningIs DEF Running, ShowProfile, ShowWorkspace, ProjectsInv, ProjectsTypeOK
<1>2. r \in Invocation /\ r.was = loaded \cap names /\ r.shown = names
      /\ r.effective = cmd[c].effective
      /\ r.previous = cmd[c].previous /\ r.project = cmd[c].project /\ r.kind = cmd[c].kind
      /\ r.names = cmd[c].names /\ r.rest = cmd[c].rest
      /\ r.target = cmd[c].target /\ r.todo = cmd[c].todo /\ r.pc = pc
  BY <1>1 DEF Invocation
<1>3. cmd' = [cmd EXCEPT ![c] = r]
  BY DEF Ask
<1>4. UNCHANGED <<loaded, members, state, tmp, overlap, claimed, joined, byHand>>
  BY DEF Ask
<1>5. /\ claimed \in [Project -> SUBSET Profile] /\ loaded \in SUBSET Profile
      /\ state \in StateMap \cup {Torn} /\ tmp \in StateMap \cup {None, Torn}
      /\ \A p \in Project : Tracks(state, p) \cup Tracks(tmp, p) \subseteq claimed[p] \cup joined[p]
  BY DEF ProjectsInv, ProjectsTypeOK, TracksOnlyClaimed
<1>6. ~overlap => byHand \ Joined \subseteq loaded /\ byHand \cap cmd[c].effective \subseteq Joined
  BY <1>1 DEF ProjectsInv, HandLoadedStay, HandsApart, Apart
<1>7. cmd[c].effective \subseteq claimed[cmd[c].project] \cup joined[cmd[c].project]
  BY <1>1 DEF ProjectsInv, HoldsClaimed, Holds
<1>8. Asked(r) = names
  BY <1>2 DEF Asked
<1>9. ~overlap => byHand \cap names \subseteq r.was \cup Joined
  BY <1>2, <1>6
<1>10. /\ ~overlap => byHand \cap Asked(r) \subseteq r.was \cup Joined
       /\ Asked(r) \subseteq r.shown \cup joined[r.project]
  BY <1>2, <1>8, <1>9
<1>11. /\ \A p \in Project : claimed[p] \subseteq claimed'[p]
       /\ r.previous \subseteq cmd[c].previous /\ r.todo \subseteq cmd[c].todo
       /\ r.effective \subseteq claimed'[r.project] \cup joined[r.project]
  BY <1>2, <1>4, <1>7
<1>12. /\ claimed' \in [Project -> SUBSET Profile] /\ loaded' \in SUBSET Profile
       /\ state' \in StateMap \cup {Torn} /\ tmp' \in StateMap \cup {None, Torn}
       /\ \A p \in Project : Tracks(state', p) \cup Tracks(tmp', p) \subseteq claimed'[p] \cup joined[p]
       /\ ~overlap => state' = state /\ byHand \ Joined \subseteq loaded'
                      /\ byHand \cap r.effective \subseteq Joined
       /\ UNCHANGED <<overlap, byHand, members, joined>>
  BY <1>2, <1>4, <1>5, <1>6
<1>13. r.pc # "rename"
  BY <1>2
<1> HIDE DEF r
<1> QED
  BY <1>1, <1>2, <1>3, <1>10, <1>11, <1>12, <1>13, OwnStepInv

\* What was listed as not loaded is claimed, and of a user's only what joined is taken.
LEMMA LoadsInv ==
  ASSUME ProjectsInv, NEW c \in Command, cmd[c] \in Invocation,
         NEW N \in SUBSET Asked(cmd[c]), N \in SUBSET Profile,
         NEW then, then \in {"show", "show_workspace", "unload"}, Load(c, N, then)
  PROVE  ProjectsInv'
<1> DEFINE p == cmd[c].project
           M == (N \cap cmd[c].shown) \ cmd[c].was
           r == [cmd[c] EXCEPT !.pc = then, !.todo = @ \ N, !.effective = @ \cup Claims(c, N)]
<1>1. /\ r.project = p /\ r.kind = cmd[c].kind /\ r.names = cmd[c].names
      /\ r.rest = cmd[c].rest /\ r.target = cmd[c].target
      /\ r.previous = cmd[c].previous /\ r.todo \subseteq cmd[c].todo
      /\ r.pc = then /\ r.effective = cmd[c].effective \cup Claims(c, N)
  BY DEF Invocation
<1>2. r \in Invocation
  <2>1. Claims(c, N) \in SUBSET Profile
    BY DEF Claims
  <2> QED
    BY <2>1 DEF Invocation
<1>3. /\ cmd' = [cmd EXCEPT ![c] = r]
      /\ loaded' = loaded \cup N /\ NoteClaims(c, N)
      /\ UNCHANGED <<members, state, tmp, overlap, joined, byHand>>
  BY DEF Load
<1> HIDE DEF r
<1>4. Running(c) /\ Asked(r) = {}
  BY <1>1 DEF Running, Invocation, Asked
<1>5. /\ claimed' = [claimed EXCEPT ![p] = @ \cup M]
      /\ claimed \in [Project -> SUBSET Profile] /\ p \in Project
  BY <1>3 DEF NoteClaims, ProjectsInv, ProjectsTypeOK, Invocation
<1>6. /\ claimed' \in [Project -> SUBSET Profile]
      /\ \A q \in Project : claimed[q] \subseteq claimed'[q]
      /\ M \subseteq claimed'[p]
  BY <1>5
<1>7. /\ cmd[c].previous \cup cmd[c].effective \subseteq claimed[p] \cup joined[p]
      /\ N \subseteq cmd[c].shown \cup joined[p]
  BY <1>4 DEF ProjectsInv, HoldsClaimed, Holds
<1>8. Claims(c, N) \subseteq (N \ cmd[c].was) \cup cmd[c].previous
  BY DEF Claims
<1>9. r.effective \subseteq claimed'[r.project] \cup joined[r.project]
  BY <1>1, <1>5, <1>6, <1>7, <1>8
<1>10. /\ loaded' \in SUBSET Profile /\ (~overlap => byHand \ Joined \subseteq loaded')
      /\ state' \in StateMap \cup {Torn} /\ tmp' \in StateMap \cup {None, Torn}
  BY <1>3 DEF ProjectsInv, ProjectsTypeOK, HandLoadedStay
<1>11. \A q \in Project : Tracks(state', q) \cup Tracks(tmp', q) \subseteq claimed'[q] \cup joined[q]
  BY <1>3, <1>6 DEF ProjectsInv, TracksOnlyClaimed
<1>12. ~overlap => byHand \cap r.effective \subseteq Joined
  <2>1. ~overlap => /\ byHand \cap (cmd[c].previous \cup cmd[c].effective) \subseteq Joined
                    /\ byHand \cap N \subseteq cmd[c].was \cup Joined
    BY <1>4 DEF ProjectsInv, HandsApart, Apart
  <2> QED
    BY <2>1, <1>1, <1>8
<1>13. r.previous \subseteq cmd[c].previous /\ r.pc # "rename" /\ (~overlap => state' = state)
       /\ UNCHANGED <<overlap, byHand, members, joined>>
  BY <1>1, <1>3
<1> HIDE DEF M
<1> QED
  BY <1>1, <1>2, <1>3, <1>4, <1>6, <1>9, <1>10, <1>11, <1>12, <1>13, OwnStepInv

LEMMA LoadInv ==
  ASSUME ProjectsInv, NEW c \in Command, LoadProfile(c) \/ LoadWorkspace(c)
  PROVE  ProjectsInv'
<1>1. cmd[c] \in Invocation
  <2>1. cmd[c].pc \in {"load", "load_workspace"}
    BY DEF LoadProfile, LoadWorkspace
  <2> QED
    BY <2>1, RunningIs DEF Running, ProjectsInv
<1>2. members \in SUBSET Profile /\ cmd[c].shown \in SUBSET Profile
  BY <1>1 DEF Invocation, ProjectsInv, ProjectsTypeOK
<1>3. CASE LoadProfile(c)
  <2> PICK n \in cmd[c].shown : Load(c, {n}, After(cmd[c].todo \ {n}, cmd[c].workspace))
    BY <1>3 DEF LoadProfile
  <2>1. {n} \in SUBSET Asked(cmd[c]) /\ {n} \in SUBSET Profile
    BY <1>2, <1>3 DEF LoadProfile, Asked
  <2> QED
    BY <1>1, <2>1, AfterIs, LoadsInv
<1>4. CASE LoadWorkspace(c)
  <2>1. Asked(cmd[c]) = members
    BY <1>4 DEF LoadWorkspace, Asked
  <2> QED
    BY <1>1, <1>2, <1>4, <2>1, LoadsInv DEF LoadWorkspace
<1> QED
  BY <1>3, <1>4

\* Unloading takes from the loaded set what the directory tracked, which is no user's.
LEMMA UnloadInv ==
  ASSUME ProjectsInv, NEW c \in Command, UnloadProfile(c)
  PROVE  ProjectsInv'
<1> PICK n \in Dropped(c) :
           /\ loaded' = loaded \ {n}
           /\ cmd' = [cmd EXCEPT ![c].previous = @ \ {n}]
  BY DEF UnloadProfile
<1> DEFINE r == [cmd[c] EXCEPT !.previous = @ \ {n}]
<1>1. Running(c) /\ cmd[c] \in Invocation /\ cmd[c].pc = "unload"
  BY RunningIs DEF Running, UnloadProfile, ProjectsInv
<1>2. /\ r.effective = cmd[c].effective /\ r.todo = cmd[c].todo
      /\ r.previous \subseteq cmd[c].previous /\ r.project = cmd[c].project /\ r.kind = cmd[c].kind
      /\ r.names = cmd[c].names /\ r.rest = cmd[c].rest
      /\ r.target = cmd[c].target /\ r.pc = "unload" /\ r \in Invocation
  BY <1>1 DEF Invocation
<1>3. cmd' = [cmd EXCEPT ![c] = r]
  OBVIOUS
<1>4. UNCHANGED <<members, state, tmp, overlap, claimed, joined, byHand>>
  BY DEF UnloadProfile
<1>5. ~overlap => byHand \ Joined \subseteq loaded'
  <2>1. ~overlap => n \notin byHand \ Joined /\ byHand \ Joined \subseteq loaded
    BY <1>1 DEF Dropped, ProjectsInv, HandsApart, Apart, HandLoadedStay
  <2> QED
    BY <2>1
<1>6. /\ claimed \in [Project -> SUBSET Profile] /\ loaded' \in SUBSET Profile
      /\ state \in StateMap \cup {Torn} /\ tmp \in StateMap \cup {None, Torn}
      /\ \A p \in Project : Tracks(state, p) \cup Tracks(tmp, p) \subseteq claimed[p] \cup joined[p]
  BY DEF ProjectsInv, ProjectsTypeOK, TracksOnlyClaimed
<1>7. ~overlap => byHand \cap cmd[c].effective \subseteq Joined
  BY <1>1 DEF ProjectsInv, HandsApart, Apart
<1>8. /\ cmd[c].effective \subseteq claimed[cmd[c].project] \cup joined[cmd[c].project]
      /\ Asked(r) = {}
  BY <1>1, <1>2 DEF ProjectsInv, HoldsClaimed, Holds, Asked
<1> HIDE DEF r
<1>9. /\ claimed' \in [Project -> SUBSET Profile]
      /\ \A p \in Project : claimed[p] \subseteq claimed'[p]
      /\ \A p \in Project : Tracks(state', p) \cup Tracks(tmp', p) \subseteq claimed'[p] \cup joined[p]
  BY <1>4, <1>6
<1>10. /\ state' \in StateMap \cup {Torn} /\ tmp' \in StateMap \cup {None, Torn}
       /\ ~overlap => state' = state
  BY <1>4, <1>6
<1>11. /\ r.effective \subseteq claimed'[r.project] \cup joined[r.project]
       /\ ~overlap => byHand \cap r.effective \subseteq Joined
       /\ UNCHANGED <<overlap, byHand, members, joined>>
       /\ r.todo \subseteq cmd[c].todo
  BY <1>2, <1>4, <1>7, <1>8
<1> QED
  BY <1>1, <1>2, <1>3, <1>5, <1>6, <1>8, <1>9, <1>10, <1>11, OwnStepInv

\* Writing the file: what it will say is claimed, and one writer leaves no mixture.
LEMMA WriteInv ==
  ASSUME ProjectsInv, NEW c \in Command, Truncate(c) \/ Fill(c)
  PROVE  ProjectsInv'
<1> PICK pc \in {"fill", "rename"} : /\ cmd' = [cmd EXCEPT ![c].pc = pc]
                                     /\ pc = "rename" => Fill(c)
  BY DEF Truncate, Fill
<1> DEFINE r == [cmd[c] EXCEPT !.pc = pc]
<1>1. Running(c) /\ cmd[c] \in Invocation
  BY RunningIs DEF Running, Truncate, Fill, ProjectsInv
<1>2. /\ r.effective = cmd[c].effective /\ r.todo = cmd[c].todo
      /\ r.previous = cmd[c].previous /\ r.project = cmd[c].project /\ r.kind = cmd[c].kind
      /\ r.names = cmd[c].names /\ r.rest = cmd[c].rest
      /\ r.target = cmd[c].target /\ r.pc = pc /\ r \in Invocation
  BY <1>1 DEF Invocation
<1>3. cmd' = [cmd EXCEPT ![c] = r] /\ cmd'[c] = r
  BY DEF ProjectsInv, ProjectsTypeOK
<1>4. UNCHANGED <<loaded, members, overlap, claimed, joined, byHand>>
  BY DEF Truncate, Fill
<1> HIDE DEF r
<1>5. NewState(c)' = NewState(c)
  BY <1>2, <1>3 DEF NewState
<1>6. /\ state' \in {state, Torn, NewState(c)} /\ tmp' \in {tmp, Torn, NewState(c)}
      /\ ~overlap => state' = state
      /\ ~overlap /\ Fill(c) => tmp' = NewState(c)
  <2>1. CASE Truncate(c)
    <3>1. cmd[c].pc = "unload"
      BY <2>1 DEF Truncate
    <3> QED
      BY <2>1, <3>1 DEF Truncate, OpenForWriting, Fill
  <2>2. CASE Fill(c)
    <3>1. ~overlap => cmd[c].target = "tmp"
      BY <1>1 DEF ProjectsInv, OneAtATime
    <3>2. PICK content \in {NewState(c)} \cup (IF overlap THEN {Torn} ELSE {}) :
             CASE cmd[c].target = "tmp" -> tmp' = content /\ UNCHANGED state
             [] cmd[c].target = "state" -> state' = content /\ UNCHANGED tmp
             [] OTHER -> UNCHANGED <<state, tmp>>
      BY <2>2 DEF Fill
    <3> QED
      BY <3>1, <3>2
  <2> QED
    BY <2>1, <2>2
<1>7. \A p \in Project : Tracks(NewState(c), p) \subseteq claimed[p] \cup joined[p]
  BY <1>1, NewStateTracks DEF ProjectsInv, HoldsClaimed, Holds
<1>8. \A p \in Project : Tracks(state', p) \cup Tracks(tmp', p) \subseteq claimed[p] \cup joined[p]
  BY <1>6, <1>7, NoMapTracks DEF ProjectsInv, TracksOnlyClaimed
<1>9. state' \in StateMap \cup {Torn} /\ tmp' \in StateMap \cup {None, Torn}
  <2>1. NewState(c) \in StateMap
    BY <1>1, NewStateTracks
  <2> QED
    BY <2>1, <1>6 DEF ProjectsInv, ProjectsTypeOK
<1>10. claimed \in [Project -> SUBSET Profile] /\ loaded \in SUBSET Profile
  BY DEF ProjectsInv, ProjectsTypeOK
<1>11. ~overlap => byHand \ Joined \subseteq loaded /\ byHand \cap cmd[c].effective \subseteq Joined
  BY <1>1 DEF ProjectsInv, HandLoadedStay, HandsApart, Apart
<1>12. cmd[c].effective \subseteq claimed[cmd[c].project] \cup joined[cmd[c].project]
  BY <1>1 DEF ProjectsInv, HoldsClaimed, Holds
<1>13. /\ \A p \in Project : claimed[p] \subseteq claimed'[p]
       /\ r.previous \subseteq cmd[c].previous /\ r.todo \subseteq cmd[c].todo
       /\ r.effective \subseteq claimed'[r.project] \cup joined[r.project]
       /\ Asked(r) = {}
  BY <1>2, <1>4, <1>12 DEF Asked
<1>14. ~overlap /\ r.pc = "rename" => tmp' = NewState(c)'
  BY <1>2, <1>5, <1>6
<1>15. /\ \A p \in Project : Tracks(state', p) \cup Tracks(tmp', p) \subseteq claimed'[p] \cup joined[p]
       /\ ~overlap => byHand \ Joined \subseteq loaded'
       /\ ~overlap => byHand \cap r.effective \subseteq Joined
       /\ claimed' \in [Project -> SUBSET Profile] /\ loaded' \in SUBSET Profile
  BY <1>2, <1>4, <1>8, <1>10, <1>11
<1>16. UNCHANGED <<overlap, byHand, members, joined>> /\ (~overlap => state' = state)
  BY <1>4, <1>6
<1> QED
  BY <1>1, <1>2, <1>3, <1>9, <1>13, <1>14, <1>15, <1>16, OwnStepInv

\* The rename: one command alone puts in place what it wrote; if there are others, a
\* command that has the file open now writes elsewhere, and nothing else becomes of it.
LEMMA RenameInv ==
  ASSUME ProjectsInv, NEW c \in Command, Rename(c)
  PROVE  ProjectsInv'
<1> USE DEF ProjectsInv
<1>1. /\ Running(c) /\ cmd[c].pc = "rename" /\ cmd[c] \in Invocation
      /\ state' = IF tmp = None THEN state ELSE tmp
      /\ tmp' = None
      /\ UNCHANGED <<loaded, members, overlap, claimed, joined, byHand>>
  BY RunningIs DEF Rename, Running
<1>2. /\ cmd' = [d \in Command |-> cmd'[d]]
      /\ cmd'[c] = Idle
      /\ \A d \in Command : d # c =>
           \/ cmd'[d] = cmd[d]
           \/ /\ cmd[d].pc = "fill"
              /\ \E t \in {"state", "gone"} : cmd'[d] = [cmd[d] EXCEPT !.target = t]
  <2>1. cmd' = [d \in Command |->
            CASE d = c -> Idle
              [] d # c /\ cmd[d].pc = "fill" /\ tmp # None ->
                     [cmd[d] EXCEPT !.target = IF @ = "tmp" THEN "state" ELSE "gone"]
              [] OTHER -> cmd[d]]
    BY DEF Rename
  <2>2. cmd' = [d \in Command |-> cmd'[d]] /\ cmd'[c] = Idle
    BY <2>1
  <2>3. ASSUME NEW d \in Command, d # c
        PROVE  \/ cmd'[d] = cmd[d]
               \/ /\ cmd[d].pc = "fill"
                  /\ \E t \in {"state", "gone"} : cmd'[d] = [cmd[d] EXCEPT !.target = t]
    <3>1. CASE cmd[d].pc = "fill" /\ tmp # None
      <4>1. cmd'[d] = [cmd[d] EXCEPT !.target = IF @ = "tmp" THEN "state" ELSE "gone"]
        BY <2>1, <2>3, <3>1
      <4>2. CASE cmd[d].target = "tmp"
        BY <4>1, <4>2, <3>1
      <4>3. CASE cmd[d].target # "tmp"
        BY <4>1, <4>3, <3>1
      <4> QED
        BY <4>2, <4>3
    <3>2. CASE ~(cmd[d].pc = "fill" /\ tmp # None)
      BY <2>1, <2>3, <3>2
    <3> QED
      BY <3>1, <3>2
  <2> QED
    BY <2>2, <2>3
<1>3. ~Running(c)'
  BY <1>2 DEF Running, Idle
<1>4. ASSUME NEW d \in Command, Running(d)'
      PROVE  /\ d # c /\ Running(d) /\ cmd'[d] \in Invocation
             /\ cmd'[d].rest = cmd[d].rest /\ cmd'[d].project = cmd[d].project
             /\ cmd'[d].previous = cmd[d].previous /\ cmd'[d].effective = cmd[d].effective
             /\ cmd'[d].todo = cmd[d].todo /\ cmd'[d].names = cmd[d].names
             /\ cmd'[d].shown = cmd[d].shown /\ Asked(cmd[d])' = Asked(cmd[d])
  <2>1. d # c
    BY <1>3, <1>4
  <2>2. Running(d)
    <3>1. CASE cmd'[d] = cmd[d]
      BY <3>1, <1>4 DEF Running
    <3>2. CASE cmd[d].pc = "fill"
      BY <3>2 DEF Running
    <3> QED
      BY <1>2, <2>1, <3>1, <3>2
  <2>3. cmd[d] \in Invocation
    BY <2>2, RunningIs
  <2>4. PICK t \in {"tmp", "state", "gone"} : cmd'[d] = [cmd[d] EXCEPT !.target = t]
    <3>1. CASE cmd'[d] = cmd[d]
      BY <2>3, <3>1 DEF Invocation
    <3> QED
      BY <1>2, <2>1, <3>1
  <2> QED
    BY <1>1, <2>1, <2>2, <2>3, <2>4 DEF Invocation, Asked
<1>5. ASSUME NEW d \in Command PROVE cmd'[d] \in Invocation \cup {Idle}
  <2>1. CASE Running(d)'
    BY <1>4, <2>1
  <2>2. CASE d = c
    BY <1>2, <2>2
  <2>3. CASE d # c /\ ~Running(d)'
    <3>1. cmd'[d] = cmd[d] \/ cmd[d] \in Invocation
      BY <1>2, <2>3, RunningIs DEF Running
    <3>2. cmd[d] \in Invocation /\ cmd'[d] # cmd[d] => Running(d)'
      BY <1>2, <2>3 DEF Running, Invocation
    <3> QED
      BY <2>3, <3>1, <3>2 DEF ProjectsTypeOK
  <2> QED
    BY <2>1, <2>2, <2>3
<1>6. ProjectsTypeOK'
  <2>1. cmd' \in [Command -> Invocation \cup {Idle}]
    BY <1>2, <1>5
  <2> QED
    BY <1>1, <2>1 DEF ProjectsTypeOK
<1>7. HoldsClaimed'
  BY <1>1, <1>4 DEF HoldsClaimed, Holds
<1>8. TracksOnlyClaimed'
  <2>1. \A p \in Project : Tracks(state', p) \cup Tracks(tmp', p) \subseteq claimed[p] \cup joined[p]
    BY <1>1, NoMapTracks DEF TracksOnlyClaimed
  <2> QED
    BY <1>1, <1>4, <1>7, <2>1 DEF TracksOnlyClaimed, HoldsClaimed, Holds, Dropped
<1>9. ASSUME ~overlap
      PROVE  /\ state' = NewState(c) /\ NewState(c) \in StateMap
             /\ \A d \in Command : ~Running(d)'
  BY <1>1, <1>4, <1>9, NewStateTracks, MapsParse DEF OneAtATime
<1>10. TornOnlyByOverlap' /\ HandLoadedStay' /\ OneAtATime'
  BY <1>1, <1>9, MapsParse DEF TornOnlyByOverlap, HandLoadedStay, OneAtATime, Joined
<1>11. HandsApart'
  <2> SUFFICES ASSUME ~overlap, NEW p \in Project PROVE byHand \cap Tracks(state', p) \subseteq Joined
    BY <1>1, <1>9 DEF HandsApart, Tracked, Joined
  <2>1. Tracks(state', p) \subseteq Tracks(state, p) \cup cmd[c].effective
    BY <1>1, <1>9, NewStateTracks DEF OneAtATime
  <2>2. byHand \cap Tracks(state, p) \subseteq Joined /\ byHand \cap cmd[c].effective \subseteq Joined
    BY <1>1 DEF HandsApart, Apart, Tracked
  <2> QED
    BY <2>1, <2>2
<1> QED
  BY <1>6, <1>7, <1>8, <1>10, <1>11

\* A command that is cut short leaves the files as they are.
LEMMA AbortInv ==
  ASSUME ProjectsInv, NEW c \in Command, Abort(c)
  PROVE  ProjectsInv'
<1> USE DEF ProjectsInv
<1>1. /\ cmd' = [cmd EXCEPT ![c] = Idle] /\ cmd \in [Command -> Invocation \cup {Idle}]
      /\ UNCHANGED <<loaded, members, state, tmp, overlap, claimed, joined, byHand>>
  BY DEF Abort, ProjectsTypeOK
<1>2. \A d \in Command : Running(d)' => Running(d) /\ cmd'[d] = cmd[d]
  BY <1>1 DEF Running, Idle
<1>3. ProjectsTypeOK'
  BY <1>1 DEF ProjectsTypeOK
<1>4. HoldsClaimed' /\ TracksOnlyClaimed'
  BY <1>1, <1>2 DEF HoldsClaimed, Holds, TracksOnlyClaimed, Dropped, Asked
<1>5. TornOnlyByOverlap' /\ HandLoadedStay'
  BY <1>1 DEF TornOnlyByOverlap, HandLoadedStay, Joined
<1>6. OneAtATime' /\ HandsApart'
  <2>1. \A d \in Command : Running(d)' => NewState(d)' = NewState(d)
    BY <1>2 DEF NewState
  <2> QED
    BY <1>1, <1>2, <2>1 DEF OneAtATime, HandsApart, Apart, Tracked, Joined, Asked
<1> QED
  BY <1>3, <1>4, <1>5, <1>6

\* What users load and unload touches the loaded set only, and is a user's own only if no
\* directory lists it and no command is loading it.
LEMMA HandInv ==
  ASSUME ProjectsInv, (\E n \in Profile : HandLoad(n) \/ HandUnload(n)) \/ Relock
  PROVE  ProjectsInv'
<1> USE DEF ProjectsInv
<1>1. UNCHANGED <<members, state, tmp, cmd, overlap, claimed, joined>>
  BY DEF HandLoad, HandUnload, Relock, ByLoader, ByUser
<1>2. /\ loaded' \in SUBSET Profile /\ byHand' \in SUBSET Profile
      /\ byHand \ Joined \subseteq loaded => byHand' \ Joined \subseteq loaded'
      /\ \A n \in byHand' \ byHand : n \notin Tracked \cup InFlight
  BY ProjectsAssumption DEF HandLoad, HandUnload, Relock, ProjectsTypeOK
<1>3. ProjectsTypeOK'
  BY <1>1, <1>2 DEF ProjectsTypeOK
<1>4. \A d \in Command : /\ Running(d)' <=> Running(d)
                         /\ NewState(d)' = NewState(d)
                         /\ Dropped(d)' = Dropped(d)
                         /\ Holds(d)' = Holds(d)
                         /\ Asked(cmd[d])' = Asked(cmd[d])
  BY <1>1 DEF Running, NewState, Dropped, Holds, Asked
<1>5. HoldsClaimed' /\ TracksOnlyClaimed' /\ OneAtATime' /\ Joined' = Joined
  BY <1>1, <1>4 DEF HoldsClaimed, TracksOnlyClaimed, OneAtATime, Joined
<1>6. TornOnlyByOverlap' /\ HandLoadedStay'
  BY <1>1, <1>2, <1>5 DEF TornOnlyByOverlap, HandLoadedStay
<1>7. HandsApart'
  <2> SUFFICES ASSUME ~overlap
               PROVE  /\ byHand' \cap Tracked \subseteq Joined
                      /\ \A d \in Command : Running(d) =>
                           /\ byHand' \cap (cmd[d].previous \cup cmd[d].effective) \subseteq Joined
                           /\ byHand' \cap Asked(cmd[d]) \subseteq cmd[d].was \cup Joined
    BY <1>1, <1>4, <1>5 DEF HandsApart, Apart, Tracked
  <2>1. byHand' \cap Tracked \subseteq Joined
    BY <1>2 DEF HandsApart
  <2>2. ASSUME NEW d \in Command, Running(d)
        PROVE  /\ cmd[d].previous \subseteq Tracked
               /\ cmd[d].effective \cup Asked(cmd[d]) \subseteq InFlight
    <3>1. cmd[d].project \in Project
      BY <2>2, RunningIs DEF Invocation
    <3> QED
      BY <2>2, <3>1 DEF OneAtATime, Tracked, InFlight
  <2>3. ASSUME NEW d \in Command, Running(d)
        PROVE  /\ byHand' \cap (cmd[d].previous \cup cmd[d].effective) \subseteq Joined
               /\ byHand' \cap Asked(cmd[d]) \subseteq cmd[d].was \cup Joined
    <3>1. Apart(d)
      BY <2>3 DEF HandsApart
    <3> QED
      BY <1>2, <2>2, <2>3, <3>1 DEF Apart
  <2> QED
    BY <2>1, <2>3
<1> QED
  BY <1>3, <1>5, <1>6, <1>7

\* What joins the workspace between the two requests of a load is noted for its directory;
\* what leaves it is not loaded.
LEMMA BindInv ==
  ASSUME ProjectsInv, NEW n \in Profile, Bind(n) \/ Unbind(n)
  PROVE  ProjectsInv'
<1> USE DEF ProjectsInv
<1>1. UNCHANGED <<loaded, state, tmp, cmd, overlap, claimed, byHand>>
  BY DEF Bind, Unbind, ByUser
<1>2. /\ members' \in SUBSET Profile /\ joined' \in [Project -> SUBSET Profile]
      /\ \A p \in Project : joined[p] \subseteq joined'[p]
      /\ \A d \in Command : cmd[d].pc = "load_workspace" /\ cmd[d].project \in Project =>
             members' \subseteq members \cup joined'[cmd[d].project]
  BY DEF Bind, Unbind, ProjectsTypeOK
<1>3. ProjectsTypeOK' /\ Joined \subseteq Joined'
  BY <1>1, <1>2 DEF ProjectsTypeOK, Joined
<1>4. \A d \in Command : /\ Running(d)' <=> Running(d)
                         /\ NewState(d)' = NewState(d)
                         /\ Dropped(d)' = Dropped(d)
  BY <1>1 DEF Running, NewState, Dropped
<1>5. ASSUME NEW d \in Command, Running(d)
      PROVE  /\ cmd[d].project \in Project
             /\ Asked(cmd[d])' \subseteq Asked(cmd[d]) \cup joined'[cmd[d].project]
             /\ joined'[cmd[d].project] \subseteq Joined'
  <2>1. cmd[d].project \in Project
    BY <1>5, RunningIs DEF Invocation
  <2> QED
    BY <1>1, <1>2, <2>1 DEF Asked, Joined
<1>6. HoldsClaimed'
  <2> SUFFICES ASSUME NEW d \in Command, Running(d) PROVE Holds(d)'
    BY <1>4 DEF HoldsClaimed
  <2>1. Holds(d)
    BY DEF HoldsClaimed
  <2> QED
    BY <1>1, <1>2, <1>5, <2>1 DEF Holds
<1>7. TracksOnlyClaimed' /\ OneAtATime' /\ TornOnlyByOverlap' /\ HandLoadedStay'
  BY <1>1, <1>2, <1>3, <1>4, <1>5 DEF TracksOnlyClaimed, OneAtATime, TornOnlyByOverlap, HandLoadedStay
<1>8. HandsApart'
  <2> SUFFICES ASSUME ~overlap, NEW d \in Command, Running(d) PROVE Apart(d)'
    BY <1>1, <1>3, <1>4 DEF HandsApart, Tracked
  <2>1. Apart(d)
    BY DEF HandsApart
  <2> QED
    BY <1>1, <1>3, <1>5, <2>1 DEF Apart
<1> QED
  BY <1>3, <1>6, <1>7, <1>8

-----------------------------------------------------------------------------
\* However commands, their deaths and users' requests interleave, a directory's load
\* and unload take from the daemon only what loads of that directory brought in or what
\* joined the workspace between the two requests of one (main.rs), the state file is torn
\* only by two commands at once, and one command at a time unloads nothing else that a
\* user loaded.
THEOREM OnlyClaimed == ProjectsSpec => []ProjectsInv
<1>1. ProjectsInit => ProjectsInv
  BY ProjectsInitInv
<1>2. ProjectsInv /\ [ProjectsNext]_projectVars => ProjectsInv'
  <2> SUFFICES ASSUME ProjectsInv, [ProjectsNext]_projectVars PROVE ProjectsInv'
    OBVIOUS
  <2>1. CASE UNCHANGED projectVars
    <3>1. UNCHANGED <<loaded, members, state, tmp, cmd, overlap, claimed, joined, byHand>>
      BY <2>1 DEF projectVars
    <3>2. \A d \in Command : /\ Running(d)' <=> Running(d)
                             /\ NewState(d)' = NewState(d)
                             /\ Dropped(d)' = Dropped(d)
                             /\ Holds(d)' <=> Holds(d)
                             /\ Apart(d)' <=> Apart(d)
      BY <3>1 DEF Running, NewState, Dropped, Holds, Apart, Asked, Joined
    <3> QED
      BY <3>1, <3>2 DEF Joined, ProjectsInv, ProjectsTypeOK, TracksOnlyClaimed, TornOnlyByOverlap,
         HandLoadedStay, HoldsClaimed, OneAtATime, HandsApart, Tracked
  <2>2. CASE ProjectsNext
    <3>1. ASSUME NEW c \in Command, BeginLoad(c) \/ BeginUnload(c) PROVE ProjectsInv'
      BY <3>1, BeginInv
    <3>2. ASSUME NEW c \in Command, ShowProfile(c) \/ ShowWorkspace(c) PROVE ProjectsInv'
      BY <3>2, ShowInv
    <3>3. ASSUME NEW c \in Command, LoadProfile(c) \/ LoadWorkspace(c) PROVE ProjectsInv'
      BY <3>3, LoadInv
    <3>4. ASSUME NEW c \in Command, UnloadProfile(c) PROVE ProjectsInv'
      BY <3>4, UnloadInv
    <3>5. ASSUME NEW c \in Command, Truncate(c) \/ Fill(c) PROVE ProjectsInv'
      BY <3>5, WriteInv
    <3>6. ASSUME NEW c \in Command, Rename(c) PROVE ProjectsInv'
      BY <3>6, RenameInv
    <3>7. ASSUME NEW c \in Command, Abort(c) PROVE ProjectsInv'
      BY <3>7, AbortInv
    <3>8. CASE (\E n \in Profile : HandLoad(n) \/ HandUnload(n)) \/ Relock
      BY <3>8, HandInv
    <3>9. ASSUME NEW n \in Profile, Bind(n) \/ Unbind(n) PROVE ProjectsInv'
      BY <3>9, BindInv
    <3> QED
      BY <2>2, <3>1, <3>2, <3>3, <3>4, <3>5, <3>6, <3>7, <3>8, <3>9 DEF ProjectsNext
  <2> QED
    BY <2>1, <2>2
<1> QED
  BY <1>1, <1>2, PTL DEF ProjectsSpec

-----------------------------------------------------------------------------
(* Jobs and their kinds.                                                   *)

AnyJob == InitJob \cup PasswordJob \cup DisableJob \cup UninstallJob

\* The step a job is at tells which command it is.
LEMMA Kinds ==
  ASSUME NEW r \in AnyJob
  PROVE  /\ r.pc \in {"new", "build", "publish", "tidy"} => r \in InitJob
         /\ r.pc \in {"spawn", "set", "mark"} => r \in PasswordJob
         /\ r.pc \in {"forget", "unmark"} => r \in DisableJob \cup UninstallJob
         /\ r.pc \in {"start", "prove", "backup", "stop", "runtime", "data"} => r \in UninstallJob
         /\ "proved" \in DOMAIN r <=> r \in UninstallJob
<1>1. CASE r \in InitJob
  BY <1>1 DEF InitJob, PasswordJob, DisableJob, UninstallJob
<1>2. CASE r \in PasswordJob
  BY <1>2 DEF InitJob, PasswordJob, DisableJob, UninstallJob
<1>3. CASE r \in DisableJob
  BY <1>3 DEF InitJob, PasswordJob, DisableJob, UninstallJob
<1>4. CASE r \in UninstallJob
  BY <1>4 DEF InitJob, PasswordJob, DisableJob, UninstallJob
<1> QED
  BY <1>1, <1>2, <1>3, <1>4 DEF AnyJob

\* A step to another pc that its kind has keeps a job of its kind.
LEMMA MovesInKind ==
  ASSUME NEW r \in AnyJob, NEW p
  PROVE  /\ r \in InitJob /\ p \in {"publish", "tidy", "done", "failed"} => [r EXCEPT !.pc = p] \in InitJob
         /\ r \in PasswordJob /\ p \in {"mark", "done", "failed"} => [r EXCEPT !.pc = p] \in PasswordJob
         /\ r \in DisableJob /\ p \in {"unmark", "done", "failed"} => [r EXCEPT !.pc = p] \in DisableJob
         /\ r \in UninstallJob /\ p \in {"prove", "backup", "stop", "forget", "unmark", "runtime", "data", "done", "failed"} =>
               [r EXCEPT !.pc = p] \in UninstallJob
         /\ [r EXCEPT !.pc = p].pc = p
         /\ r \in UninstallJob => /\ [r EXCEPT !.pc = p].proved = r.proved
                                  /\ [r EXCEPT !.pc = p].backup = r.backup
                                  /\ [r EXCEPT !.pc = p].password = r.password
<1>1. [r EXCEPT !.pc = p].pc = p
  BY DEF AnyJob, InitJob, PasswordJob, DisableJob, UninstallJob
<1>2. ASSUME r \in InitJob, p \in {"publish", "tidy", "done", "failed"}
      PROVE  [r EXCEPT !.pc = p] \in InitJob
  BY <1>2 DEF InitJob
<1>3. ASSUME r \in PasswordJob, p \in {"mark", "done", "failed"}
      PROVE  [r EXCEPT !.pc = p] \in PasswordJob
  BY <1>3 DEF PasswordJob
<1>4. ASSUME r \in DisableJob, p \in {"unmark", "done", "failed"}
      PROVE  [r EXCEPT !.pc = p] \in DisableJob
  BY <1>4 DEF DisableJob
<1>5. ASSUME r \in UninstallJob,
             p \in {"prove", "backup", "stop", "forget", "unmark", "runtime", "data", "done", "failed"}
      PROVE  [r EXCEPT !.pc = p] \in UninstallJob
  BY <1>5 DEF UninstallJob
<1>6. ASSUME r \in UninstallJob
      PROVE  /\ [r EXCEPT !.pc = p].proved = r.proved
             /\ [r EXCEPT !.pc = p].backup = r.backup
             /\ [r EXCEPT !.pc = p].password = r.password
  BY <1>6 DEF UninstallJob
<1> QED
  BY <1>1, <1>2, <1>3, <1>4, <1>5, <1>6

-----------------------------------------------------------------------------
(* What a step of a job is.                                                *)

\* The steps of jobs that are under way, apart from the first.
Advance(i) ==
    \/ BuildVault(i) \/ Publish(i) \/ PublishRefused(i) \/ Tidy(i)
    \/ Spawn(i) \/ StorePassword(i) \/ WriteMarker(i) \/ DeletePassword(i) \/ RemoveMarker(i)
    \/ StartForUninstall(i) \/ AdminUnlock(i) \/ Backup(i) \/ SkipBackup(i)
    \/ StopDaemon(i) \/ RemoveRuntime(i) \/ RemoveVault(i) \/ RemoveOther(i) \/ Uninstalled(i)
    \/ Fail(i)

\* A job begins: what it takes along is what it has read at that moment, and only jobs are
\* touched.
LEMMA Enters ==
  ASSUME HostTypeOK, NEW i \in Job,
         BeginInit(i) \/ BeginStart(i) \/ BeginEnable(i) \/ BeginDisable(i) \/ BeginUninstall(i)
  PROVE  /\ job[i].pc = "new" /\ job'[i] \in AnyJob /\ job'[i].pc \notin Over
         /\ job' = [job EXCEPT ![i] = job'[i]]
         /\ beside' = [j \in Job |-> IF j = i THEN Active
                                     ELSE IF j \in Active THEN beside[j] \cup {i} ELSE beside[j]]
         /\ job'[i].pc \in {"build", "spawn", "set", "forget", "start", "stop"}
         /\ job'[i].pc = "set" => job'[i].password = vault
         /\ job'[i] \in UninstallJob => /\ job'[i].pc \in {"start", "stop"}
                                        /\ job'[i].pc = "stop" => vault = Nil
         /\ UNCHANGED <<vault, temps, marker, credential, daemon, orphans, removed>>
<1> USE DEF HostTypeOK, AnyJob, Enter
<1>1. CASE BeginInit(i)
  BY <1>1 DEF BeginInit, Over, InitJob, UninstallJob
<1>2. CASE BeginStart(i)
  <2> PICK p \in Vaults : Enter(i, [pc |-> "spawn", password |-> p])
    BY <1>2 DEF BeginStart, Vaults
  <2> QED
    BY <1>2 DEF BeginStart, Over, PasswordJob, UninstallJob
<1>3. CASE BeginEnable(i)
  BY <1>3 DEF BeginEnable, Over, PasswordJob, UninstallJob
<1>4. CASE BeginDisable(i)
  BY <1>4 DEF BeginDisable, Over, DisableJob, UninstallJob
<1>5. CASE BeginUninstall(i)
  <2> PICK p \in Vaults :
         Enter(i, [pc |-> IF vault # Nil THEN "start" ELSE "stop", next |-> "runtime",
                   password |-> p, proved |-> Nil, backup |-> Nil])
    BY <1>5 DEF BeginUninstall, Vaults
  <2>1. CASE vault = Nil
    BY <2>1, <1>5 DEF BeginUninstall, Over, UninstallJob
  <2>2. CASE vault # Nil
    BY <2>2, <1>5 DEF BeginUninstall, Over, UninstallJob
  <2> QED
    BY <2>1, <2>2
<1> QED
  BY <1>1, <1>2, <1>3, <1>4, <1>5

\* Where the steps of the commands lead, if they do not fail.
Leads(a, b) ==
    \/ a = "build" /\ b = "publish"
    \/ a = "publish" /\ b = "tidy"
    \/ a = "tidy" /\ b = "done"
    \/ a = "spawn" /\ b = "done"
    \/ a = "set" /\ b = "mark"
    \/ a = "mark" /\ b = "done"
    \/ a = "forget" /\ b = "unmark"
    \/ a = "start" /\ b = "prove"
    \/ a = "stop" /\ b = "forget"
    \/ a = "runtime" /\ b = "data"
    \/ a = "data" /\ b = "done"

\* A job that is under way moves from one step to another, and stays the command it is.
LEMMA Moves ==
  ASSUME HostTypeOK, NEW i \in Job, NEW p, job' = [job EXCEPT ![i].pc = p],
         \/ Leads(job[i].pc, p)
         \/ job[i].pc = "unmark" /\ p = job[i].next
         \/ job[i].pc \notin Over /\ p = "failed"
  PROVE  /\ i \in Active /\ job' = [job EXCEPT ![i] = job'[i]]
         /\ job'[i] \in AnyJob /\ job'[i].pc = p /\ p \notin {"new", "set"}
         /\ job[i] \in UninstallJob <=> job'[i] \in UninstallJob
         /\ job[i] \in UninstallJob => /\ job'[i].proved = job[i].proved
                                       /\ job'[i].backup = job[i].backup
                                       /\ job[i].pc = "unmark" => p \in {"runtime", "failed"}
<1>1. job[i] \in AnyJob /\ job \in [Job -> AnyJob]
  BY DEF HostTypeOK, AnyJob
<1>2. job'[i] = [job[i] EXCEPT !.pc = p] /\ i \in Active
  BY <1>1 DEF Active, Over, Leads
<1>3. job' = [job EXCEPT ![i] = job'[i]]
  BY <1>1, <1>2
<1>4. job[i].pc = "unmark" =>
         /\ job[i] \in DisableJob \/ job[i] \in UninstallJob
         /\ job[i] \in UninstallJob => job[i].next = "runtime"
         /\ job[i] \in DisableJob => job[i].next = "done"
  BY <1>1, Kinds DEF DisableJob, UninstallJob
<1>5. /\ \/ job[i] \in InitJob /\ p \in {"publish", "tidy", "done", "failed"}
         \/ job[i] \in PasswordJob /\ p \in {"mark", "done", "failed"}
         \/ job[i] \in DisableJob /\ p \in {"unmark", "done", "failed"}
         \/ /\ job[i] \in UninstallJob
            /\ p \in {"prove", "backup", "stop", "forget", "unmark", "runtime", "data", "done", "failed"}
      /\ p \notin {"new", "set"}
      /\ job[i] \in UninstallJob /\ job[i].pc = "unmark" => p \in {"runtime", "failed"}
  <2>1. CASE p = "failed"
    BY <1>1, <2>1 DEF AnyJob
  <2>2. CASE job[i].pc = "unmark" /\ p = job[i].next
    <3>1. CASE job[i] \in DisableJob
      BY <1>4, <2>2, <3>1, Kinds DEF DisableJob, UninstallJob
    <3>2. CASE job[i] \in UninstallJob
      BY <1>4, <2>2, <3>2
    <3> QED
      BY <1>4, <2>2, <3>1, <3>2
  <2>3. CASE Leads(job[i].pc, p)
    <3>1. job[i].pc \in {"build", "publish", "tidy"} => job[i] \in InitJob
      BY <1>1, Kinds
    <3>2. job[i].pc \in {"spawn", "set", "mark"} => job[i] \in PasswordJob
      BY <1>1, Kinds
    <3>3. job[i].pc = "forget" => job[i] \in DisableJob \/ job[i] \in UninstallJob
      BY <1>1, Kinds
    <3>4. job[i].pc \in {"start", "stop", "runtime", "data"} => job[i] \in UninstallJob
      BY <1>1, Kinds
    <3> QED
      BY <2>3, <3>1, <3>2, <3>3, <3>4 DEF Leads
  <2> QED
    BY <2>1, <2>2, <2>3
<1>6. /\ job'[i] \in AnyJob /\ job'[i].pc = p
      /\ job[i] \in UninstallJob => /\ job'[i].proved = job[i].proved
                                    /\ job'[i].backup = job[i].backup
  BY <1>1, <1>2, <1>5, MovesInKind DEF AnyJob
<1>7. job[i] \in UninstallJob <=> job'[i] \in UninstallJob
  <2>1. DOMAIN job'[i] = DOMAIN job[i]
    BY <1>2
  <2> QED
    BY <1>1, <1>6, <2>1, Kinds
<1> QED
  BY <1>2, <1>3, <1>5, <1>6, <1>7

LEMMA StepMoves ==
  ASSUME HostTypeOK, NEW i \in Job, NEW at, NEW p, Step(i, at, p), Leads(at, p)
  PROVE  /\ i \in Active /\ job' = [job EXCEPT ![i] = job'[i]] /\ beside' = beside
         /\ job'[i] \in AnyJob /\ job[i].pc = at /\ job'[i].pc = p /\ p \notin {"new", "set"}
         /\ job[i] \in UninstallJob <=> job'[i] \in UninstallJob
         /\ job[i] \in UninstallJob => /\ job'[i].proved = job[i].proved
                                       /\ job'[i].backup = job[i].backup
BY Moves DEF Step

\* What every step of a job that is under way does to the jobs.
LEMMA Advances ==
  ASSUME HostTypeOK, NEW i \in Job, Advance(i)
  PROVE  /\ i \in Active /\ job' = [job EXCEPT ![i] = job'[i]] /\ beside' = beside
         /\ job'[i] \in AnyJob /\ job'[i].pc \notin {"new", "set"}
         /\ job[i] \in UninstallJob <=> job'[i] \in UninstallJob
         /\ job[i] \in UninstallJob =>
               /\ job[i].pc # "prove" => job'[i].proved = job[i].proved
               /\ job[i].pc \notin {"prove", "backup"} => job'[i].backup = job[i].backup
               /\ job[i].pc \in {"data", "done", "failed"} => job'[i].pc \in {"data", "done", "failed"}
               /\ job[i].pc \in {"start", "prove", "backup"} =>
                     job'[i].pc \in {"prove", "backup", "stop", "failed"}
               /\ job[i].pc \in {"stop", "forget"} =>
                     StopDaemon(i) \/ DeletePassword(i) \/ job'[i].pc = "failed"
<1>0. job[i] \in AnyJob /\ job \in [Job -> AnyJob]
  BY DEF HostTypeOK, AnyJob
<1>1. CASE BuildVault(i) \/ Publish(i) \/ PublishRefused(i) \/ Tidy(i) \/ Spawn(i)
  <2>1. CASE BuildVault(i)
    <3>1. Step(i, "build", "publish") /\ Leads("build", "publish")
      BY <2>1 DEF BuildVault, Leads
    <3> QED
      BY <3>1, StepMoves
  <2>2. CASE Publish(i)
    <3>1. Step(i, "publish", "tidy") /\ Leads("publish", "tidy")
      BY <2>2 DEF Publish, Leads
    <3> QED
      BY <3>1, StepMoves
  <2>3. CASE PublishRefused(i)
    <3>1. Step(i, "publish", "tidy") /\ Leads("publish", "tidy")
      BY <2>3 DEF PublishRefused, Leads
    <3> QED
      BY <3>1, StepMoves
  <2>4. CASE Tidy(i)
    <3>1. Step(i, "tidy", "done") /\ Leads("tidy", "done")
      BY <2>4 DEF Tidy, Leads
    <3> QED
      BY <3>1, StepMoves
  <2>5. CASE Spawn(i)
    <3>1. Step(i, "spawn", "done") /\ Leads("spawn", "done")
      BY <2>5 DEF Spawn, Leads
    <3> QED
      BY <3>1, StepMoves
  <2> QED
    BY <1>1, <2>1, <2>2, <2>3, <2>4, <2>5
<1>2. CASE StorePassword(i) \/ WriteMarker(i) \/ DeletePassword(i) \/ StartForUninstall(i)
  <2>1. CASE StorePassword(i)
    <3>1. Step(i, "set", "mark") /\ Leads("set", "mark")
      BY <2>1 DEF StorePassword, Leads
    <3> QED
      BY <3>1, StepMoves
  <2>2. CASE WriteMarker(i)
    <3>1. Step(i, "mark", "done") /\ Leads("mark", "done")
      BY <2>2 DEF WriteMarker, Leads
    <3> QED
      BY <3>1, StepMoves
  <2>3. CASE DeletePassword(i)
    <3>1. Step(i, "forget", "unmark") /\ Leads("forget", "unmark")
      BY <2>3 DEF DeletePassword, Leads
    <3> QED
      BY <2>3, <3>1, StepMoves
  <2>4. CASE StartForUninstall(i)
    <3>1. Step(i, "start", "prove") /\ Leads("start", "prove")
      BY <2>4 DEF StartForUninstall, Leads
    <3> QED
      BY <3>1, StepMoves
  <2> QED
    BY <1>2, <2>1, <2>2, <2>3, <2>4
<1>3. CASE StopDaemon(i) \/ RemoveRuntime(i) \/ Uninstalled(i)
  <2>1. CASE StopDaemon(i)
    <3>1. Step(i, "stop", "forget") /\ Leads("stop", "forget")
      BY <2>1 DEF StopDaemon, Leads
    <3> QED
      BY <2>1, <3>1, StepMoves
  <2>2. CASE RemoveRuntime(i)
    <3>1. Step(i, "runtime", "data") /\ Leads("runtime", "data")
      BY <2>2 DEF RemoveRuntime, Leads
    <3> QED
      BY <3>1, StepMoves
  <2>3. CASE Uninstalled(i)
    <3>1. Step(i, "data", "done") /\ Leads("data", "done")
      BY <2>3 DEF Uninstalled, Leads
    <3> QED
      BY <3>1, StepMoves
  <2> QED
    BY <1>3, <2>1, <2>2, <2>3
<1>4. CASE Fail(i) \/ RemoveMarker(i)
  <2> PICK p : /\ job' = [job EXCEPT ![i].pc = p] /\ beside' = beside
               /\ \/ job[i].pc = "unmark" /\ p = job[i].next
                  \/ job[i].pc \notin Over /\ p = "failed"
    BY <1>4 DEF Fail, RemoveMarker, Step, Active
  <2> QED
    BY <1>0, Moves, Kinds DEF Over
<1>5. CASE AdminUnlock(i)
  <2>1. /\ job[i].pc = "prove" /\ beside' = beside /\ job[i] \in UninstallJob
        /\ job' = [job EXCEPT ![i].pc = "backup", ![i].proved = job[i].password]
        /\ job[i].password \in Vaults \cup {Nil}
    BY <1>0, <1>5, Kinds DEF AdminUnlock, UninstallJob
  <2>2. job'[i] = [job[i] EXCEPT !.pc = "backup", !.proved = job[i].password]
    BY <1>0, <2>1
  <2>3. job'[i] \in UninstallJob /\ job'[i].pc = "backup"
    <3> DEFINE r == job[i]
    <3>1. r \in UninstallJob /\ r.password \in Vaults \cup {Nil}
      BY <2>1
    <3>2. job'[i] = [r EXCEPT !.pc = "backup", !.proved = r.password]
      BY <2>2
    <3> HIDE DEF r
    <3> QED
      BY <3>1, <3>2 DEF UninstallJob
  <2> QED
    BY <1>0, <2>1, <2>2, <2>3 DEF Active, Over, AnyJob
<1>6. CASE Backup(i) \/ SkipBackup(i)
  <2> PICK b \in Vaults \cup {Nil} : job' = [job EXCEPT ![i].pc = "stop", ![i].backup = b]
    <3>1. job[i] \in UninstallJob
      BY <1>0, <1>6, Kinds DEF Backup, SkipBackup
    <3>2. daemon.vault \in Vaults \cup {Nil} /\ job[i].proved \in Vaults \cup {Nil}
      BY <3>1 DEF UninstallJob, HostTypeOK, Daemons
    <3> QED
      BY <1>6, <3>2 DEF Backup, SkipBackup
  <2>1. job[i].pc = "backup" /\ beside' = beside /\ job[i] \in UninstallJob
    BY <1>0, <1>6, Kinds DEF Backup, SkipBackup
  <2>2. job'[i] = [job[i] EXCEPT !.pc = "stop", !.backup = b]
    BY <1>0
  <2>3. job'[i] \in UninstallJob /\ job'[i].pc = "stop" /\ job'[i].proved = job[i].proved
    <3> DEFINE r == job[i]
    <3>1. r \in UninstallJob /\ r.proved = job[i].proved
      BY <2>1
    <3>2. job'[i] = [r EXCEPT !.pc = "stop", !.backup = b]
      BY <2>2
    <3> HIDE DEF r
    <3>3. /\ [r EXCEPT !.pc = "stop", !.backup = b] \in UninstallJob
          /\ [r EXCEPT !.pc = "stop", !.backup = b].pc = "stop"
          /\ [r EXCEPT !.pc = "stop", !.backup = b].proved = r.proved
      BY <3>1 DEF UninstallJob
    <3> QED
      BY <3>1, <3>2, <3>3
  <2> QED
    BY <1>0, <2>1, <2>2, <2>3 DEF Active, Over, AnyJob
<1>7. CASE RemoveVault(i) \/ RemoveOther(i)
  <2>1. job' = job /\ beside' = beside /\ job[i].pc = "data"
    BY <1>7 DEF RemoveVault, RemoveOther
  <2> QED
    BY <1>0, <2>1 DEF Active, Over
<1> QED
  BY <1>1, <1>2, <1>3, <1>4, <1>5, <1>6, <1>7 DEF Advance

-----------------------------------------------------------------------------
(* What a step does to the rest of the machine.                            *)

Begins(i) == BeginInit(i) \/ BeginStart(i) \/ BeginEnable(i) \/ BeginDisable(i) \/ BeginUninstall(i)

LEMMA StepCases ==
  ASSUME HostNext
  PROVE  \/ \E i \in Job : Begins(i) \/ Advance(i)
         \/ (DaemonEnds \/ LeaseEnds) /\ UNCHANGED <<vault, temps, marker, credential, job, beside, removed>>
BY DEF HostNext, JobStep, Begins, Advance, DaemonEnds, LeaseEnds

LEMMA VaultStep ==
  ASSUME HostNext
  PROVE  \/ vault' = vault /\ removed' = removed
         \/ \E i \in Job : Publish(i) /\ vault = Nil /\ vault' = i /\ removed' = removed
         \/ \E i \in Job : /\ RemoveVault(i) /\ vault # Nil /\ vault' = Nil
                           /\ removed' = removed \cup {[by |-> i, vault |-> vault]}
<1>1. ASSUME NEW i \in Job, Begins(i)
      PROVE  vault' = vault /\ removed' = removed
  BY <1>1 DEF Begins, BeginInit, BeginStart, BeginEnable, BeginDisable, BeginUninstall, Enter
<1>2. ASSUME NEW i \in Job, Advance(i), ~Publish(i), ~RemoveVault(i)
      PROVE  vault' = vault /\ removed' = removed
  BY <1>2 DEF Advance, Step, BuildVault, PublishRefused, Tidy, Spawn, StorePassword, WriteMarker,
     DeletePassword, RemoveMarker, StartForUninstall, AdminUnlock, Backup, SkipBackup, StopDaemon,
     RemoveRuntime, RemoveOther, Uninstalled, Fail
<1>3. ASSUME NEW i \in Job, Publish(i)
      PROVE  vault = Nil /\ vault' = i /\ removed' = removed
  BY <1>3 DEF Publish, Publishes, Step
<1>4. ASSUME NEW i \in Job, RemoveVault(i)
      PROVE  vault # Nil /\ vault' = Nil /\ removed' = removed \cup {[by |-> i, vault |-> vault]}
  BY <1>4 DEF RemoveVault
<1> QED
  BY <1>1, <1>2, <1>3, <1>4, StepCases

LEMMA CredentialStep ==
  ASSUME HostNext
  PROVE  \/ credential' = credential
         \/ \E i \in Job : StorePassword(i) /\ credential' = job[i].password /\ vault' = vault
         \/ credential' = Nil
<1>1. ASSUME NEW i \in Job, Begins(i)
      PROVE  credential' = credential
  BY <1>1 DEF Begins, BeginInit, BeginStart, BeginEnable, BeginDisable, BeginUninstall
<1>2. ASSUME NEW i \in Job, Advance(i), ~StorePassword(i), ~DeletePassword(i)
      PROVE  credential' = credential
  BY <1>2 DEF Advance, BuildVault, Publish, PublishRefused, Tidy, Spawn, WriteMarker,
     RemoveMarker, StartForUninstall, AdminUnlock, Backup, SkipBackup, StopDaemon,
     RemoveRuntime, RemoveVault, RemoveOther, Uninstalled, Fail
<1>3. ASSUME NEW i \in Job, StorePassword(i)
      PROVE  credential' = job[i].password /\ vault' = vault
  BY <1>3 DEF StorePassword
<1>4. ASSUME NEW i \in Job, DeletePassword(i)
      PROVE  credential' = Nil
  BY <1>4 DEF DeletePassword, Forgets
<1> QED
  BY <1>1, <1>2, <1>3, <1>4, StepCases

\* A daemon that serves after a step did so before, or was just started for the vault that
\* is there.
LEMMA DaemonStep ==
  ASSUME HostTypeOK, HostNext
  PROVE  /\ daemon' \in Daemons /\ orphans' \in SUBSET Daemons
         /\ Serving' => \/ Serving /\ daemon'.vault = daemon.vault
                        \/ /\ vault # Nil /\ vault' = vault /\ daemon'.vault = vault
                           /\ \E i \in Job : Spawn(i) \/ StartForUninstall(i)
         /\ \/ \A o \in orphans' : o \in orphans
            \/ /\ \A o \in orphans' : o \in orphans \/ o = daemon
               /\ \E i \in Job : RemoveRuntime(i)
<1> USE DEF Serving
<1>0. daemon \in Daemons /\ orphans \in SUBSET Daemons /\ vault \in Vaults \cup {Nil} /\ NoDaemon \in Daemons
  BY DEF HostTypeOK, NoDaemon, Daemons
<1>1. ASSUME NEW i \in Job, Begins(i)
      PROVE  daemon' = daemon /\ orphans' = orphans
  BY <1>1 DEF Begins, BeginInit, BeginStart, BeginEnable, BeginDisable, BeginUninstall
<1>2. ASSUME NEW i \in Job, Advance(i), ~Spawn(i), ~StartForUninstall(i), ~AdminUnlock(i),
             ~StopDaemon(i), ~RemoveRuntime(i)
      PROVE  daemon' = daemon /\ orphans' = orphans
  BY <1>2 DEF Advance, BuildVault, Publish, PublishRefused, Tidy, StorePassword, WriteMarker,
     DeletePassword, RemoveMarker, Backup, SkipBackup, RemoveVault, RemoveOther, Uninstalled, Fail
<1>3. ASSUME NEW i \in Job, Spawn(i) \/ StartForUninstall(i)
      PROVE  /\ orphans' = orphans /\ vault' = vault
             /\ \/ daemon' = daemon
                \/ vault # Nil /\ daemon' = [vault |-> vault, state |-> "serving", lease |-> "no"]
  BY <1>3 DEF Spawn, StartForUninstall, Starts
<1>4. ASSUME NEW i \in Job, AdminUnlock(i)
      PROVE  orphans' = orphans /\ daemon' = [daemon EXCEPT !.lease = "yes"]
  BY <1>4 DEF AdminUnlock
<1>5. ASSUME NEW i \in Job, StopDaemon(i)
      PROVE  /\ orphans' = orphans
             /\ daemon' = daemon \/ daemon' = [daemon EXCEPT !.state = "ending", !.lease = "no"]
  BY <1>5 DEF StopDaemon
<1>6. ASSUME NEW i \in Job, RemoveRuntime(i)
      PROVE  daemon' = NoDaemon /\ (orphans' = orphans \/ orphans' = orphans \cup {daemon})
  BY <1>6 DEF RemoveRuntime
<1>7. ASSUME DaemonEnds
      PROVE  daemon' \in {daemon, NoDaemon} /\ orphans' \subseteq orphans
  BY <1>7 DEF DaemonEnds
<1>8. ASSUME LeaseEnds
      PROVE  daemon' = [daemon EXCEPT !.lease = "no"] /\ orphans' = orphans
  BY <1>8 DEF LeaseEnds
<1>9. CASE daemon' = daemon /\ orphans' = orphans
  BY <1>0, <1>9
<1>10. CASE \E i \in Job : Spawn(i) \/ StartForUninstall(i)
  <2>1. CASE daemon' = daemon
    BY <1>0, <1>3, <1>10, <2>1
  <2>2. CASE vault # Nil /\ daemon' = [vault |-> vault, state |-> "serving", lease |-> "no"]
    BY <1>0, <1>3, <1>10, <2>2 DEF Daemons
  <2> QED
    BY <1>3, <1>10, <2>1, <2>2
<1>11. CASE (\E i \in Job : AdminUnlock(i)) \/ LeaseEnds
  <2> PICK l \in {"yes", "no"} : daemon' = [daemon EXCEPT !.lease = l] /\ orphans' = orphans
    BY <1>4, <1>8, <1>11
  <2> QED
    BY <1>0 DEF Daemons
<1>12. CASE \E i \in Job : StopDaemon(i)
  BY <1>0, <1>5, <1>12 DEF Daemons
<1>13. CASE \E i \in Job : RemoveRuntime(i)
  BY <1>0, <1>6, <1>13 DEF NoDaemon
<1>14. CASE DaemonEnds
  BY <1>0, <1>7, <1>14 DEF NoDaemon
<1> QED
  BY <1>1, <1>2, <1>9, <1>10, <1>11, <1>12, <1>13, <1>14, StepCases

\* The types, and what becomes of the jobs in any step: one of them moves, if any, and what
\* ran beside a job that is under way stays known.
LEMMA JobsStep ==
  ASSUME HostTypeOK, HostNext
  PROVE  /\ job' \in [Job -> AnyJob] /\ beside' \in [Job -> SUBSET Job]
         /\ \A j \in Job : job'[j] # job[j] => Begins(j) \/ Advance(j)
         /\ \A j \in Job : beside'[j] # beside[j] => \E i \in Job : Begins(i) /\ job[i].pc = "new"
         /\ \A j \in Job : job[j].pc # "new" => beside[j] \subseteq beside'[j]
         /\ \A j \in Uninstalls : job'[j] \in UninstallJob
<1>0. /\ job \in [Job -> AnyJob] /\ beside \in [Job -> SUBSET Job]
      /\ \A j \in Uninstalls : job[j] \in UninstallJob /\ job[j].pc # "new"
  BY Kinds DEF HostTypeOK, AnyJob, Uninstalls, UninstallJob
<1>1. ASSUME NEW i \in Job, Begins(i)
      PROVE  /\ job' = [job EXCEPT ![i] = job'[i]] /\ job'[i] \in AnyJob /\ job[i].pc = "new"
             /\ beside' = [j \in Job |-> IF j = i THEN Active
                                         ELSE IF j \in Active THEN beside[j] \cup {i} ELSE beside[j]]
  BY <1>1, Enters DEF Begins
<1>2. ASSUME NEW i \in Job, Advance(i)
      PROVE  /\ job' = [job EXCEPT ![i] = job'[i]] /\ job'[i] \in AnyJob /\ beside' = beside
             /\ job[i] \in UninstallJob => job'[i] \in UninstallJob
  BY <1>2, Advances
<1>3. CASE \E i \in Job : Begins(i)
  <2> PICK i \in Job : Begins(i)
    BY <1>3
  <2>1. beside' \in [Job -> SUBSET Job]
    BY <1>0, <1>1 DEF Active
  <2>2. \A j \in Job : j # i => job'[j] = job[j] /\ beside[j] \subseteq beside'[j]
    BY <1>0, <1>1
  <2> QED
    BY <1>0, <1>1, <2>1, <2>2 DEF Uninstalls
<1>4. CASE \E i \in Job : Advance(i)
  <2> PICK i \in Job : Advance(i)
    BY <1>4
  <2>1. \A j \in Job : j # i => job'[j] = job[j]
    BY <1>0, <1>2
  <2> QED
    BY <1>0, <1>2, <2>1 DEF Uninstalls
<1>5. CASE UNCHANGED <<job, beside>>
  BY <1>0, <1>5
<1> QED
  BY <1>3, <1>4, <1>5, StepCases

LEMMA HostTypeStep == ASSUME HostTypeOK, HostNext PROVE HostTypeOK'
<1>1. job' \in [Job -> AnyJob] /\ beside' \in [Job -> SUBSET Job]
  BY JobsStep
<1>2. daemon' \in Daemons /\ orphans' \in SUBSET Daemons
  BY DaemonStep
<1>3. vault' \in Vaults \cup {Nil} /\ removed' \in SUBSET [by : Job, vault : Vaults]
  BY VaultStep DEF HostTypeOK, Vaults
<1>4. credential' \in Vaults \cup {Nil}
  <2>1. ASSUME NEW i \in Job, StorePassword(i) PROVE job[i].password \in Vaults
    BY <2>1, Kinds DEF StorePassword, Step, HostTypeOK, AnyJob, PasswordJob
  <2> QED
    BY <2>1, CredentialStep DEF HostTypeOK
<1>5. temps' \in SUBSET Job /\ marker' \in {"yes", "no"}
  <2>1. ASSUME NEW i \in Job, Begins(i) PROVE temps' = temps /\ marker' = marker
    BY <2>1 DEF Begins, BeginInit, BeginStart, BeginEnable, BeginDisable, BeginUninstall
  <2>2. ASSUME NEW i \in Job, Advance(i)
        PROVE  /\ temps' \subseteq temps \cup {i}
               /\ marker' \in {marker, "yes", "no"}
    BY <2>2 DEF Advance, BuildVault, Publish, PublishRefused, Tidy, Spawn, StorePassword, WriteMarker,
       DeletePassword, RemoveMarker, StartForUninstall, AdminUnlock, Backup, SkipBackup, StopDaemon,
       RemoveRuntime, RemoveVault, RemoveOther, Uninstalled, Fail
  <2> QED
    BY <2>1, <2>2, StepCases DEF HostTypeOK
<1>6. ghosted' \in {"yes", "no"}
  BY DEF HostNext, HostTypeOK
<1> QED
  BY <1>1, <1>2, <1>3, <1>4, <1>5, <1>6 DEF HostTypeOK, AnyJob

-----------------------------------------------------------------------------
(* The parts of the invariant, one by one.                                  *)

LEMMA OverlapsStep == ASSUME HostTypeOK, Overlaps, HostNext PROVE Overlaps'
<1> USE DEF Overlaps, Active, Alone
<1>0. job \in [Job -> AnyJob] /\ beside \in [Job -> SUBSET Job]
  BY DEF HostTypeOK, AnyJob
<1>1. CASE \E i \in Job : Begins(i)
  <2> PICK i \in Job : Begins(i)
    BY <1>1
  <2>1. /\ job' = [job EXCEPT ![i] = job'[i]] /\ job[i].pc = "new" /\ job'[i].pc \notin Over
        /\ beside' = [j \in Job |-> IF j = i THEN Active
                                    ELSE IF j \in Active THEN beside[j] \cup {i} ELSE beside[j]]
    BY Enters DEF Begins
  <2>2. \A j \in Job : j # i => job'[j] = job[j]
    BY <1>0, <2>1
  <2>3. "new" \in Over
    BY DEF Over
  <2> QED
    BY <2>1, <2>2, <2>3
<1>2. CASE \E i \in Job : Advance(i)
  <2> PICK i \in Job : Advance(i)
    BY <1>2
  <2>1. /\ i \in Active /\ job' = [job EXCEPT ![i] = job'[i]] /\ beside' = beside
        /\ job'[i].pc # "new"
    BY Advances
  <2>2. \A j \in Job : j # i => job'[j] = job[j]
    BY <1>0, <2>1
  <2> QED
    BY <2>1, <2>2
<1>3. CASE UNCHANGED <<job, beside>>
  BY <1>3
<1> QED
  BY <1>1, <1>2, <1>3, StepCases

\* A job that is under way and still runs alone after a step of a job made that step.
LEMMA Uninterrupted ==
  ASSUME HostTypeOK, Overlaps, HostNext, NEW j \in Active, Alone(j)', NEW i \in Job,
         Begins(i) \/ Advance(i)
  PROVE  i = j /\ Advance(j) /\ Alone(j)
<1>1. j \in Job /\ job[j].pc \notin Over
  BY DEF Active
<1>2. CASE Begins(i)
  <2>1. /\ job[i].pc = "new"
        /\ beside' = [k \in Job |-> IF k = i THEN Active
                                    ELSE IF k \in Active THEN beside[k] \cup {i} ELSE beside[k]]
    BY <1>2, Enters DEF Begins
  <2>2. i # j
    BY <1>1, <2>1 DEF Over
  <2> QED
    BY <1>1, <2>1, <2>2 DEF Alone
<1>3. CASE Advance(i)
  <2>1. i \in Active /\ beside' = beside
    BY <1>3, Advances
  <2> QED
    BY <1>3, <2>1 DEF Overlaps, Alone
<1> QED
  BY <1>2, <1>3

LEMMA ServesStep == ASSUME HostTypeOK, ServesItsVault, HostNext PROVE ServesItsVault'
<1>1. ghosted' = IF Ghost' THEN "yes" ELSE ghosted
  BY DEF HostNext
<1>2. Serving' => daemon'.vault = vault' \/ ghosted' = "yes"
  BY <1>1 DEF Ghost
<1>3. Serving' => daemon'.vault # Nil
  BY DaemonStep DEF ServesItsVault
<1> QED
  BY <1>2, <1>3 DEF ServesItsVault

\* An uninstall comes past its Stop by stopping, and past the password store by asking it.
LEMMA UninstallMoves ==
  ASSUME HostTypeOK, NEW j \in Job, job[j] \in UninstallJob, Advance(j)
  PROVE  /\ job'[j].pc \in {"forget", "unmark", "runtime", "data"} =>
               StopDaemon(j) \/ job[j].pc \in {"forget", "unmark", "runtime", "data"}
         /\ job'[j].pc \in {"unmark", "runtime", "data"} =>
               DeletePassword(j) \/ job[j].pc \in {"unmark", "runtime", "data"}
<1>0. job[j].pc \in {"start", "prove", "backup", "stop", "forget", "unmark", "runtime", "data", "done", "failed"}
      /\ job \in [Job -> AnyJob]
  BY DEF UninstallJob, HostTypeOK, AnyJob
<1>1. CASE job[j].pc \in {"unmark", "runtime", "data"}
  BY <1>1
<1>2. CASE job[j].pc \in {"start", "prove", "backup"}
  <2>1. job'[j].pc \in {"prove", "backup", "stop", "failed"}
    BY <1>2, Advances
  <2> QED
    BY <2>1
<1>3. CASE job[j].pc \in {"stop", "forget"}
  <2>1. StopDaemon(j) \/ DeletePassword(j) \/ job'[j].pc = "failed"
    BY <1>3, Advances
  <2>2. StopDaemon(j) => job'[j].pc = "forget"
    BY StepMoves DEF StopDaemon, Leads
  <2>3. DeletePassword(j) => job[j].pc = "forget"
    BY DEF DeletePassword, Step
  <2> QED
    BY <2>1, <2>2, <2>3
<1>4. CASE job[j].pc \in {"done", "failed"}
  BY <1>4, Advances DEF Active, Over
<1> QED
  BY <1>0, <1>1, <1>2, <1>3, <1>4

LEMMA StoppedStep ==
  ASSUME HostTypeOK, Overlaps, StoppedAndForgotten, HostNext PROVE StoppedAndForgotten'
<1> SUFFICES ASSUME NEW j \in Job, j \in Active', j \in Uninstalls', Alone(j)'
             PROVE  /\ job'[j].pc \in {"forget", "unmark", "runtime", "data"} => ~Serving'
                    /\ job'[j].pc \in {"unmark", "runtime", "data"} => credential' = Nil
  BY DEF StoppedAndForgotten, Active
<1>0. job'[j] \in UninstallJob /\ job[j] \in AnyJob /\ job'[j] \in AnyJob
  BY JobsStep, Kinds DEF Uninstalls, HostTypeOK, AnyJob
<1>1. CASE Begins(j)
  <2>1. job'[j].pc \in {"start", "stop"}
    BY <1>0, <1>1, Enters DEF Begins
  <2> QED
    BY <2>1
<1>2. CASE ~Begins(j)
  <2>1. j \in Active /\ job[j] \in UninstallJob
    <3>1. CASE job'[j] = job[j]
      BY <1>0, <3>1 DEF Active
    <3>2. CASE Advance(j)
      BY <1>0, <3>2, Advances
    <3> QED
      BY <1>2, <3>1, <3>2, JobsStep
  <2>2. \A i \in Job : Begins(i) \/ Advance(i) => i = j
    BY <2>1, Uninterrupted
  <2>3. Alone(j) /\ j \in Uninstalls
    <3>1. beside'[j] # beside[j] => \E i \in Job : Begins(i)
      BY JobsStep
    <3> QED
      BY <1>0, <1>2, <2>1, <2>2, <3>1, Kinds DEF Alone, Uninstalls
  <2>4. /\ job[j].pc \in {"forget", "unmark", "runtime", "data"} => ~Serving
        /\ job[j].pc \in {"unmark", "runtime", "data"} => credential = Nil
    BY <2>1, <2>3 DEF StoppedAndForgotten
  <2>5. ASSUME job'[j].pc \in {"forget", "unmark", "runtime", "data"} PROVE ~Serving'
    <3>1. CASE StopDaemon(j)
      BY <3>1 DEF StopDaemon, Serving, HostTypeOK, Daemons
    <3>2. CASE job[j].pc \in {"forget", "unmark", "runtime", "data"}
      <4>1. \A i \in Job : ~Spawn(i) /\ ~StartForUninstall(i)
        BY <2>2, <3>2 DEF Advance, Spawn, StartForUninstall, Step
      <4> QED
        BY <2>4, <3>2, <4>1, DaemonStep
    <3>3. job'[j] # job[j] => Advance(j)
      BY <1>2, JobsStep
    <3> QED
      BY <2>1, <2>5, <3>1, <3>2, <3>3, UninstallMoves
  <2>6. ASSUME job'[j].pc \in {"unmark", "runtime", "data"} PROVE credential' = Nil
    <3>1. CASE DeletePassword(j)
      BY <3>1 DEF DeletePassword, Forgets
    <3>2. CASE job[j].pc \in {"unmark", "runtime", "data"}
      <4>1. \A i \in Job : ~StorePassword(i)
        BY <2>2, <3>2 DEF Advance, StorePassword, Step
      <4> QED
        BY <2>4, <3>2, <4>1, CredentialStep
    <3>3. job'[j] # job[j] => Advance(j)
      BY <1>2, JobsStep
    <3> QED
      BY <2>1, <2>6, <3>1, <3>2, <3>3, UninstallMoves
  <2> QED
    BY <2>5, <2>6
<1> QED
  BY <1>1, <1>2

LEMMA StoresStep ==
  ASSUME HostTypeOK, Overlaps, StoresItsVault, HostNext PROVE StoresItsVault'
<1> SUFFICES ASSUME NEW j \in Job, job'[j].pc = "set", Alone(j)'
             PROVE  job'[j].password = vault'
  BY DEF StoresItsVault
<1>1. CASE Begins(j)
  BY <1>1, Enters DEF Begins
<1>2. CASE ~Begins(j)
  <2>1. job'[j] = job[j] /\ j \in Active /\ ~Advance(j)
    <3>1. ~Advance(j)
      BY Advances
    <3> QED
      BY <1>2, <3>1, JobsStep DEF Active, Over
  <2>2. \A i \in Job : ~Begins(i) /\ ~Advance(i)
    BY <2>1, Uninterrupted
  <2>3. UNCHANGED <<vault, beside>>
    BY <2>2, StepCases
  <2> QED
    BY <2>1, <2>3 DEF StoresItsVault, Alone
<1> QED
  BY <1>1, <1>2

\* What an uninstall has proved and backed up is the vault that was there, and a vault that
\* comes instead was built by a job that ran beside it.
LEMMA ProvedStep ==
  ASSUME HostTypeOK, Overlaps, ServesItsVault, ProvedOrMadeMeanwhile, HostNext
  PROVE  ProvedOrMadeMeanwhile'
<1> SUFFICES ASSUME ghosted' = "no", vault' # Nil, NEW j \in Job, j \in Active', j \in Uninstalls'
             PROVE  \/ vault' \in beside'[j]
                    \/ job'[j].pc \in {"start", "prove"}
                    \/ job'[j].proved = vault' /\ (job'[j].pc = "backup" \/ job'[j].backup = vault')
  BY DEF ProvedOrMadeMeanwhile, Active
<1>0. /\ job'[j] \in UninstallJob /\ job[j] \in AnyJob /\ job \in [Job -> AnyJob]
      /\ ghosted = "no"
  BY JobsStep, Kinds DEF Uninstalls, HostTypeOK, AnyJob, HostNext
<1>1. CASE Begins(j)
  <2>1. job'[j].pc \in {"start", "stop"} /\ (job'[j].pc = "stop" => vault = Nil) /\ vault' = vault
    BY <1>0, <1>1, Enters DEF Begins
  <2> QED
    BY <2>1
<1>2. CASE ~Begins(j)
  <2>1. j \in Active /\ job[j] \in UninstallJob /\ j \in Uninstalls
    <3>1. CASE job'[j] = job[j]
      BY <1>0, <3>1, Kinds DEF Active, Uninstalls
    <3>2. CASE Advance(j)
      BY <1>0, <3>2, Advances, Kinds DEF Uninstalls
    <3> QED
      BY <1>2, <3>1, <3>2, JobsStep
  <2>2. beside[j] \subseteq beside'[j]
    BY <2>1, JobsStep DEF Active, Over
  <2>3. CASE vault' # vault
    <3> PICK i \in Job : Publish(i) /\ vault' = i
      BY <2>3, VaultStep
    <3>1. i # j /\ i \in Active
      BY <2>1, Advances DEF Publish, Step, Advance, UninstallJob
    <3> QED
      BY <2>1, <2>2, <3>1 DEF Overlaps
  <2>4. CASE vault' = vault
    <3>1. \/ vault \in beside[j]
          \/ job[j].pc \in {"start", "prove"}
          \/ job[j].proved = vault /\ (job[j].pc = "backup" \/ job[j].backup = vault)
      BY <1>0, <2>1, <2>4 DEF ProvedOrMadeMeanwhile
    <3>2. Serving => daemon.vault = vault
      BY <1>0 DEF ServesItsVault
    <3>3. CASE job'[j] = job[j] \/ vault \in beside[j]
      BY <2>2, <2>4, <3>1, <3>3
    <3>4. CASE Advance(j) /\ job[j].pc \notin {"start", "prove", "backup"}
      BY <2>1, <2>2, <2>4, <3>1, <3>4, Advances
    <3>5. CASE AdminUnlock(j)
      <4>1. job'[j] = [job[j] EXCEPT !.pc = "backup", !.proved = job[j].password]
        BY <1>0, <3>5 DEF AdminUnlock
      <4>2. job'[j].proved = job[j].password /\ job'[j].pc = "backup"
        BY <2>1, <4>1 DEF UninstallJob
      <4>3. job[j].password = vault
        BY <3>2, <3>5 DEF AdminUnlock, Proves
      <4> QED
        BY <2>4, <4>2, <4>3
    <3>6. CASE Backup(j) \/ SkipBackup(j)
      <4> PICK b : /\ job' = [job EXCEPT ![j].pc = "stop", ![j].backup = b]
                   /\ b = job[j].proved \/ b = vault
        BY <3>2, <3>6 DEF Backup, SkipBackup
      <4>1. job'[j] = [job[j] EXCEPT !.pc = "stop", !.backup = b]
        BY <1>0
      <4>2. job'[j].proved = job[j].proved /\ job'[j].backup = b
        BY <2>1, <4>1 DEF UninstallJob
      <4>3. job[j].pc = "backup"
        BY <3>6 DEF Backup, SkipBackup
      <4> QED
        BY <2>2, <2>4, <3>1, <4>2, <4>3
    <3>7. CASE StartForUninstall(j)
      <4>1. job'[j].pc = "prove"
        BY <3>7, StepMoves DEF StartForUninstall, Leads
      <4> QED
        BY <4>1
    <3>8. Fail(j) => job'[j].pc = "failed"
      BY <2>1, Moves DEF Fail, Active
    <3>9. ASSUME Advance(j), job[j].pc \in {"start", "prove", "backup"}
          PROVE  StartForUninstall(j) \/ AdminUnlock(j) \/ Backup(j) \/ SkipBackup(j) \/ Fail(j)
      BY <3>9 DEF Advance, Step, BuildVault, Publish, PublishRefused, Tidy, Spawn, StorePassword,
         WriteMarker, DeletePassword, RemoveMarker, StopDaemon, RemoveRuntime, RemoveVault,
         RemoveOther, Uninstalled
    <3> QED
      BY <1>2, <3>3, <3>4, <3>5, <3>6, <3>7, <3>8, <3>9, JobsStep DEF Active, Over
  <2> QED
    BY <2>3, <2>4
<1> QED
  BY <1>1, <1>2

\* Which vaults were removed, by whom, with what proof, does not change any more.
LEMMA RemovedStep ==
  ASSUME HostTypeOK, ServesItsVault, ProvedOrMadeMeanwhile, RemovedLast, RemovesWhatItProved,
         HostNext
  PROVE  RemovedLast' /\ RemovesWhatItProved'
<1>0. ghosted = "yes" => ghosted' = "yes"
  BY DEF HostNext
<1>1. ASSUME NEW r \in removed
      PROVE  /\ r.by \in Uninstalls' /\ job'[r.by].pc \in {"data", "done", "failed"}
             /\ \/ job'[r.by].proved = r.vault /\ job'[r.by].backup = r.vault
                \/ r.vault \in beside'[r.by]
                \/ ghosted' = "yes"
  <2> DEFINE j == r.by
  <2>1. j \in Job /\ j \in Uninstalls /\ job[j].pc \in {"data", "done", "failed"}
    BY DEF RemovedLast, HostTypeOK
  <2>2. job[j] \in UninstallJob /\ job'[j] \in UninstallJob
    BY <2>1, JobsStep, Kinds DEF HostTypeOK, AnyJob, Uninstalls
  <2>3. /\ job'[j].pc \in {"data", "done", "failed"}
        /\ job'[j].proved = job[j].proved /\ job'[j].backup = job[j].backup
    <3>1. ~Begins(j)
      BY <2>1, Enters DEF Begins
    <3>2. CASE Advance(j)
      BY <2>1, <2>2, <3>2, Advances
    <3>3. CASE job'[j] = job[j]
      BY <2>1, <3>3
    <3> QED
      BY <2>1, <3>1, <3>2, <3>3, JobsStep
  <2>4. beside[j] \subseteq beside'[j]
    BY <2>1, JobsStep
  <2>5. j \in Uninstalls'
    BY <2>1, <2>2 DEF Uninstalls, UninstallJob
  <2> QED
    BY <1>0, <2>3, <2>4, <2>5 DEF RemovesWhatItProved
<1>2. ASSUME NEW i \in Job, RemoveVault(i), vault # Nil
      PROVE  /\ i \in Uninstalls' /\ job'[i].pc \in {"data", "done", "failed"}
             /\ \/ job'[i].proved = vault /\ job'[i].backup = vault
                \/ vault \in beside'[i]
                \/ ghosted' = "yes"
  <2>1. job' = job /\ beside' = beside /\ job[i].pc = "data"
    BY <1>2 DEF RemoveVault
  <2>2. i \in Active /\ i \in Uninstalls
    BY <2>1, Kinds DEF Active, Over, Uninstalls, HostTypeOK, AnyJob
  <2>3. ghosted \in {"yes", "no"}
    BY DEF HostTypeOK
  <2> QED
    BY <1>0, <1>2, <2>1, <2>2, <2>3 DEF ProvedOrMadeMeanwhile, Uninstalls
<1>3. ASSUME NEW r \in removed'
      PROVE  \/ r \in removed
             \/ \E i \in Job : RemoveVault(i) /\ vault # Nil /\ r.by = i /\ r.vault = vault
  BY <1>3, VaultStep
<1> QED
  BY <1>1, <1>2, <1>3 DEF RemovedLast, RemovesWhatItProved

\* A daemon that serves without its vault, or out of reach, was left by an overlap.
LEMMA GhostStep ==
  ASSUME HostTypeOK, Overlaps, ServesItsVault, StoppedAndForgotten, GhostNeedsOverlap, HostNext
  PROVE  GhostNeedsOverlap'
<1>1. ASSUME NEW j \in Uninstalls, ~Alone(j)
      PROVE  \E k \in Uninstalls' : ~Alone(k)'
  <2>1. job[j] \in UninstallJob /\ job'[j] \in UninstallJob /\ j \in Job
    BY JobsStep, Kinds DEF HostTypeOK, AnyJob, Uninstalls
  <2>2. beside[j] \subseteq beside'[j]
    BY <2>1, JobsStep DEF UninstallJob
  <2> QED
    BY <1>1, <2>1, <2>2 DEF Alone, Uninstalls, UninstallJob
<1>2. ASSUME NEW i \in Job, Serving, job[i].pc \in {"runtime", "data"}
      PROVE  i \in Uninstalls /\ ~Alone(i)
  <2>1. i \in Active /\ i \in Uninstalls
    BY <1>2, Kinds DEF Active, Over, Uninstalls, HostTypeOK, AnyJob
  <2> QED
    BY <1>2, <2>1 DEF StoppedAndForgotten
<1>3. ASSUME ghosted # "yes", ghosted' = "yes"
      PROVE  \E i \in Job : Serving /\ job[i].pc = "data"
  <2>1. Serving' /\ daemon'.vault # vault'
    BY <1>3 DEF HostNext, Ghost
  <2>2. Serving /\ daemon'.vault = daemon.vault
    BY <2>1, DaemonStep
  <2>3. daemon.vault = vault /\ vault # Nil
    BY <1>3, <2>2 DEF ServesItsVault
  <2>4. PICK i \in Job : RemoveVault(i)
    BY <2>1, <2>2, <2>3, VaultStep
  <2> QED
    BY <2>2, <2>4 DEF RemoveVault
<1>4. ASSUME NEW o \in orphans', o.state = "serving", o \notin orphans
      PROVE  \E i \in Job : Serving /\ job[i].pc = "runtime"
  BY <1>4, DaemonStep DEF RemoveRuntime, Step, Serving
<1> QED
  BY <1>1, <1>2, <1>3, <1>4 DEF GhostNeedsOverlap

\* As long as no jobs overlap, each finds the password store as the one before left it.
LEMMA CredentialFitsStep ==
  ASSUME HostTypeOK, Overlaps, StoppedAndForgotten, StoresItsVault, CredentialFits, HostNext
  PROVE  CredentialFits'
<1> SUFFICES ASSUME \A j \in Job : Alone(j)' PROVE credential' \in {Nil, vault'}
  BY DEF CredentialFits
<1>1. \A j \in Job : Alone(j)
  BY JobsStep DEF Alone, Overlaps
<1>2. credential \in {Nil, vault}
  BY <1>1 DEF CredentialFits
<1>3. ASSUME NEW i \in Job, RemoveVault(i) PROVE credential' = Nil
  <2>1. i \in Active /\ i \in Uninstalls /\ job[i].pc = "data"
    BY <1>3, Kinds DEF RemoveVault, Active, Over, Uninstalls, HostTypeOK, AnyJob
  <2> QED
    BY <1>1, <1>3, <2>1 DEF StoppedAndForgotten, RemoveVault
<1>4. ASSUME NEW i \in Job, Publish(i) PROVE credential' = Nil
  BY <1>2, <1>4 DEF Publish, Publishes
<1>5. ASSUME NEW i \in Job, StorePassword(i) PROVE credential' = vault'
  BY <1>1, <1>5 DEF StorePassword, Step, StoresItsVault
<1> QED
  BY <1>2, <1>3, <1>4, <1>5, CredentialStep, VaultStep

-----------------------------------------------------------------------------
LEMMA HostInitInv == HostInit => HostInv
<1> SUFFICES ASSUME HostInit PROVE HostInv
  OBVIOUS
<1>1. /\ \A j \in Job : job[j].pc = "new" /\ job[j] \in InitJob /\ beside[j] = {}
      /\ removed = {} /\ orphans = {} /\ credential = Nil /\ ghosted = "no"
      /\ daemon.state = "none" /\ daemon \in Daemons
  BY DEF HostInit, NoJob, InitJob, NoDaemon, Daemons
<1>2. Active = {} /\ ~Serving /\ \A j \in Job : Alone(j)
  BY <1>1 DEF Active, Over, Serving, Alone
<1>3. HostTypeOK
  BY <1>1 DEF HostInit, HostTypeOK, Vaults
<1> QED
  BY <1>1, <1>2, <1>3 DEF HostInv, RemovesWhatItProved, GhostNeedsOverlap, CredentialFits, Overlaps,
     ServesItsVault, StoppedAndForgotten, StoresItsVault, ProvedOrMadeMeanwhile, RemovedLast

LEMMA HostInvStep == ASSUME HostInv, [HostNext]_hostVars PROVE HostInv'
<1>1. CASE HostNext
  BY <1>1, HostTypeStep, OverlapsStep, ServesStep, StoppedStep, StoresStep, ProvedStep, RemovedStep,
     GhostStep, CredentialFitsStep DEF HostInv
<1>2. CASE UNCHANGED hostVars
  <2>1. UNCHANGED <<vault, temps, marker, credential, daemon, orphans, job, beside, removed, ghosted>>
    BY <1>2 DEF hostVars
  <2> QED
    BY <2>1 DEF HostInv, HostTypeOK, RemovesWhatItProved, GhostNeedsOverlap, CredentialFits, Overlaps,
     ServesItsVault, StoppedAndForgotten, StoresItsVault, ProvedOrMadeMeanwhile, RemovedLast,
     Active, Uninstalls, Alone, Serving
<1> QED
  BY <1>1, <1>2

\* However many commands overlap, fail or are killed: a vault is removed by an uninstall
\* that has proved its password and backed it up, with the exceptions the property names
\* (remove_dir_all after verify and export, main.rs); a daemon outlives its vault or its
\* runtime directory only if a job ran beside an uninstall; and without overlaps the
\* password store fits the vault.
THEOREM MachineSafety == HostSpec => []HostInv
<1>1. HostInit => HostInv
  BY HostInitInv
<1>2. HostInv /\ [HostNext]_hostVars => HostInv'
  BY HostInvStep
<1> QED
  BY <1>1, <1>2, PTL DEF HostSpec

\* Of inits that run at once one publishes its vault, and a vault that is there is only
\* ever removed (publish_no_replace).
THEOREM OneVaultPublished == HostSpec => PublishedOnce
<1>1. [HostNext]_hostVars => [vault # Nil => vault' \in {vault, Nil}]_hostVars
  BY VaultStep
<1> QED
  BY <1>1, PTL DEF HostSpec, PublishedOnce

\* An uninstall that ends and that no job ran beside has removed everything, whatever
\* earlier jobs had left half done (cmd_uninstall).
THEOREM NoTraceLeft == HostSpec => LeavesNoTrace
<1>1. HostInv /\ [HostNext]_hostVars =>
        [\A j \in Job : (job[j].pc = "data" /\ job'[j].pc = "done" /\ Alone(j)) =>
           /\ vault' = Nil /\ temps' = {} /\ marker' = "no" /\ credential' = Nil
           /\ ~Serving']_hostVars
  <2> SUFFICES ASSUME HostInv, HostNext, NEW j \in Job,
                      job[j].pc = "data", job'[j].pc = "done", Alone(j)
               PROVE  /\ vault' = Nil /\ temps' = {} /\ marker' = "no" /\ credential' = Nil
                      /\ ~Serving'
    OBVIOUS
  <2>1. Uninstalled(j)
    <3>1. Advance(j)
      BY JobsStep, Enters DEF HostInv, Begins
    <3>2. ~Fail(j)
      BY Moves DEF Fail, Active, HostInv
    <3> QED
      BY <3>1, <3>2 DEF Advance, Step, BuildVault, Publish, PublishRefused, Tidy, Spawn, StorePassword,
       WriteMarker, DeletePassword, RemoveMarker, StartForUninstall, AdminUnlock, Backup, SkipBackup,
       StopDaemon, RemoveRuntime, RemoveVault, RemoveOther
  <2>2. j \in Active /\ j \in Uninstalls
    BY Kinds DEF Active, Over, Uninstalls, HostInv, HostTypeOK, AnyJob
  <2>3. credential = Nil /\ ~Serving
    BY <2>2 DEF HostInv, StoppedAndForgotten
  <2> QED
    BY <2>1, <2>3 DEF Uninstalled, Serving
<1> QED
  BY <1>1, MachineSafety, PTL DEF HostSpec, LeavesNoTrace

-----------------------------------------------------------------------------
(* What refreshing does to what is shown.                                  *)

\* One list and its highlight change, or the refresh failed and is noted.
LEMMA RefreshShows ==
  ASSUME ScreensTypeOK, NEW t \in Table, NEW rs, Refresh(t, rs)
  PROVE  /\ DOMAIN list' = DOMAIN list /\ DOMAIN selected' = DOMAIN selected
         /\ \A u \in DOMAIN list \ {t} : list'[u] = list[u] /\ selected'[u] = selected[u]
         /\ lapse' = lapse \/ lapse' = "yes"
BY DEF ScreensTypeOK, Refresh, Show, RefreshFails, Table

\* The versions that are fetched are those of the highlighted secret.
LEMMA RefreshVersionsShows ==
  ASSUME ScreensTypeOK, RefreshVersions
  PROVE  /\ DOMAIN list' = DOMAIN list /\ DOMAIN selected' = DOMAIN selected
         /\ lapse' = lapse \/ lapse' = "yes"
         /\ Highlighted("secrets")' = Highlighted("secrets")
         /\ lapse' = "no" => \A s \in Highlighted("secrets") : \A i \in DOMAIN list'["versions"] :
                                  list'["versions"][i].of = s.name
<1>1. CASE Highlighted("secrets") = {} /\ list' = [list EXCEPT !["versions"] = <<>>]
           /\ UNCHANGED <<selected, lapse>>
  BY <1>1 DEF ScreensTypeOK, Highlighted
<1>2. ASSUME NEW s \in Highlighted("secrets"), NEW r \in Named("secrets", s.name),
             Show("versions", [v \in 1 .. r.versions |-> [of |-> s.name, version |-> v]]),
             UNCHANGED lapse
      PROVE  /\ DOMAIN list' = DOMAIN list /\ DOMAIN selected' = DOMAIN selected
             /\ Highlighted("secrets")' = Highlighted("secrets")
             /\ \A i \in DOMAIN list'["versions"] : list'["versions"][i].of = s.name
             /\ Highlighted("secrets") = {s}
  <2>1. /\ list' = [list EXCEPT !["versions"] = [v \in 1 .. r.versions |-> [of |-> s.name, version |-> v]]]
        /\ \E k : selected' = [selected EXCEPT !["versions"] = k]
    BY <1>2 DEF Show
  <2>2. /\ list'["secrets"] = list["secrets"] /\ selected'["secrets"] = selected["secrets"]
        /\ list'["versions"] = [v \in 1 .. r.versions |-> [of |-> s.name, version |-> v]]
        /\ DOMAIN list' = DOMAIN list /\ DOMAIN selected' = DOMAIN selected
    BY <2>1 DEF ScreensTypeOK
  <2>3. Highlighted("secrets") = {s} /\ Highlighted("secrets")' = Highlighted("secrets")
    BY <1>2, <2>2 DEF Highlighted
  <2> QED
    BY <2>2, <2>3
<1>3. CASE RefreshFails
  BY <1>3 DEF RefreshFails, Highlighted
<1> QED
  BY <1>1, <1>2, <1>3 DEF RefreshVersions

-----------------------------------------------------------------------------
LEMMA ScreensInitInv == ScreensInit => ScreensInv
<1> SUFFICES ASSUME ScreensInit PROVE ScreensInv
  OBVIOUS
<1>1. ScreensTypeOK
  BY DEF ScreensInit, ScreensTypeOK
<1> QED
  BY <1>1 DEF ScreensInit, ScreensInv, PreviewIsOfChoice, NoPlanTwice, RevealsWhatIsListed,
     Captured, SentBefore, VersionsOfSelected, IsInjective

\* The steps that change nothing but the mode, and what they capture.
LEMMA ModeInv ==
  ASSUME ScreensInv, NEW m, SetMode(m), "at" \in DOMAIN m, m.at # "reveal",
         m.at \in {"text", "confirm"} =>
            /\ "op" \in DOMAIN m
            /\ m.op \notin {"lock", "commit", "import", "export"} =>
                  "table" \in DOMAIN m /\ m.table = screen /\ screen \in Table
            /\ m.op = "import" => m.at = "text" /\ m.kind = choice.kind
            /\ m.op = "commit" => m.at = "confirm" /\ preview # Void /\ screen = "portability"
  PROVE  ScreensInv'
<1>1. mode' = m /\ UNCHANGED <<screen, list, selected, lapse, choice, preview, counts, sent>>
  BY DEF SetMode, shownVars, historyVars
<1>2. ScreensTypeOK' /\ Captured' /\ RevealsWhatIsListed'
  BY <1>1 DEF ScreensInv, ScreensTypeOK, Captured, RevealsWhatIsListed
<1>3. PreviewIsOfChoice' /\ NoPlanTwice' /\ SentBefore'
  BY <1>1 DEF ScreensInv, PreviewIsOfChoice, NoPlanTwice, SentBefore
<1>4. VersionsOfSelected'
  BY <1>1 DEF ScreensInv, VersionsOfSelected, Highlighted
<1> QED
  BY <1>2, <1>3, <1>4 DEF ScreensInv

LEMMA KeyModesInv ==
  ASSUME ScreensInv,
         OpenUnlock \/ ArmLock \/ Arm \/ OpenImport \/ OpenExport \/ ArmCommit
         \/ Close \/ SubmitText \/ SubmitExport \/ ConfirmExport
  PROVE  ScreensInv'
<1>1. CASE OpenUnlock
  <2>1. SetMode([at |-> "unlock"])
    BY <1>1 DEF OpenUnlock
  <2> QED
    BY <2>1, ModeInv
<1>2. CASE ArmLock
  <2>1. SetMode([at |-> "confirm", op |-> "lock"])
    BY <1>2 DEF ArmLock
  <2> QED
    BY <2>1, ModeInv
<1>3. CASE Arm
  <2>1. screen \in Table
    BY <1>3 DEF Arm
  <2>2. ASSUME NEW op \in SelectedOps[screen], NEW r,
               SetMode([at |-> IF op \in {"rename", "describe"} THEN "text" ELSE "confirm",
                        op |-> op, table |-> screen, target |-> r, name |-> r.name])
        PROVE  ScreensInv'
    <3> DEFINE m == [at |-> IF op \in {"rename", "describe"} THEN "text" ELSE "confirm",
                     op |-> op, table |-> screen, target |-> r, name |-> r.name]
    <3>1. op \in {"rename", "delete", "activate", "describe", "generate"}
      BY <2>1, <2>2 DEF SelectedOps, Table
    <3>2. /\ "at" \in DOMAIN m /\ "op" \in DOMAIN m /\ "table" \in DOMAIN m
          /\ m.at \in {"text", "confirm"} /\ m.op = op /\ m.table = screen
      OBVIOUS
    <3>3. SetMode(m)
      BY <2>2
    <3> HIDE DEF m
    <3> QED
      BY <2>1, <3>1, <3>2, <3>3, ModeInv
  <2>3. ASSUME SetMode([at |-> "text", op |-> "create", table |-> screen])
        PROVE  ScreensInv'
    BY <2>1, <2>3, ModeInv
  <2> QED
    BY <1>3, <2>2, <2>3 DEF Arm
<1>4. CASE OpenImport
  <2>1. SetMode([at |-> "text", op |-> "import", kind |-> choice.kind])
    BY <1>4 DEF OpenImport
  <2> QED
    BY <2>1, ModeInv
<1>5. CASE OpenExport
  <2>1. SetMode([at |-> "text", op |-> "export", kind |-> choice.kind])
    BY <1>5 DEF OpenExport
  <2> QED
    BY <2>1, ModeInv
<1>6. CASE ArmCommit
  <2>1. SetMode([at |-> "confirm", op |-> "commit", plan |-> preview.id])
        /\ preview # Void /\ screen = "portability"
    BY <1>6 DEF ArmCommit
  <2> QED
    BY <2>1, ModeInv
<1>7. CASE Close \/ ConfirmExport
  <2>1. SetMode([at |-> "normal"])
    BY <1>7 DEF Close, ConfirmExport, Normal
  <2> QED
    BY <2>1, ModeInv
<1>8. CASE SubmitText \/ SubmitExport
  <2>1. /\ "at" \in DOMAIN mode /\ "op" \in DOMAIN mode /\ mode.at = "text"
        /\ mode.op # "export" => "table" \in DOMAIN mode /\ mode.table = screen /\ screen \in Table
    BY <1>8 DEF ScreensInv, ScreensTypeOK, Captured, SubmitText, SubmitExport
  <2> PICK m : /\ SetMode(m)
               /\ \/ m = [mode EXCEPT !.at = "confirm"] /\ mode.op \in {"describe", "export"}
                  \/ /\ \E n \in Label : m = [f \in DOMAIN mode \cup {"new"} |->
                           CASE f = "new" -> n [] f = "at" -> "confirm" [] OTHER -> mode[f]]
                     /\ mode.op \in {"create", "rename"}
    BY <1>8 DEF SubmitText, SubmitExport
  <2>2. /\ "at" \in DOMAIN m /\ m.at = "confirm" /\ "op" \in DOMAIN m /\ m.op = mode.op
        /\ mode.op # "export" => "table" \in DOMAIN m /\ m.table = mode.table
    <3>1. CASE m = [mode EXCEPT !.at = "confirm"]
      BY <2>1, <3>1
    <3>2. CASE \E n \in Label : m = [f \in DOMAIN mode \cup {"new"} |->
                  CASE f = "new" -> n [] f = "at" -> "confirm" [] OTHER -> mode[f]]
      BY <2>1, <3>2
    <3> QED
      BY <3>1, <3>2
  <2> QED
    BY <2>1, <2>2, ModeInv
<1> QED
  BY <1>1, <1>2, <1>3, <1>4, <1>5, <1>6, <1>7, <1>8

-----------------------------------------------------------------------------
(* The steps that do more.                                                 *)

\* A screen that is opened is fetched; nothing is captured at that time.
LEMMA GoToInv ==
  ASSUME ScreensInv, NEW s \in Screen, GoTo(s)
  PROVE  ScreensInv'
<1> USE DEF ScreensInv
<1>1. /\ mode.at = "normal" /\ screen' = s
      /\ UNCHANGED <<mode, choice, preview, counts, sent>>
  BY DEF GoTo, AtKeys, historyVars
<1>2. /\ DOMAIN list' = DOMAIN list /\ DOMAIN selected' = DOMAIN selected
      /\ lapse' = lapse \/ lapse' = "yes"
  <2>1. CASE s \in Table
    BY <2>1, RefreshShows DEF GoTo, Table
  <2>2. CASE s = "versions"
    BY <2>2, RefreshVersionsShows DEF GoTo, Table
  <2>3. CASE s \notin Table \cup {"versions"}
    BY <2>3 DEF GoTo, shownVars
  <2> QED
    BY <2>1, <2>2, <2>3
<1>3. ScreensTypeOK' /\ RevealsWhatIsListed' /\ Captured'
  BY <1>1, <1>2 DEF ScreensTypeOK, RevealsWhatIsListed, Captured
<1>4. PreviewIsOfChoice' /\ NoPlanTwice' /\ SentBefore'
  BY <1>1 DEF PreviewIsOfChoice, NoPlanTwice, SentBefore
<1>5. VersionsOfSelected'
  <2>1. CASE s = "versions"
    <3>1. RefreshVersions
      BY <2>1 DEF GoTo, Table
    <3> QED
      BY <3>1, RefreshVersionsShows DEF VersionsOfSelected
  <2>2. CASE s # "versions"
    BY <1>1, <2>2 DEF VersionsOfSelected
  <2> QED
    BY <2>1, <2>2
<1> QED
  BY <1>3, <1>4, <1>5

\* Moving the highlight on one screen leaves those of the others.
LEMMA MoveInv == ASSUME ScreensInv, Move PROVE ScreensInv'
<1> USE DEF ScreensInv
<1>1. /\ mode.at = "normal"
      /\ UNCHANGED <<screen, mode, list, lapse, choice, preview, counts, sent>>
      /\ \E i : selected' = [selected EXCEPT ![screen] = i]
  BY DEF Move, AtKeys, historyVars
<1>2. DOMAIN selected' = DOMAIN selected
      /\ (screen = "versions" => selected'["secrets"] = selected["secrets"])
  BY <1>1 DEF ScreensTypeOK
<1>3. ScreensTypeOK' /\ RevealsWhatIsListed' /\ Captured'
  BY <1>1, <1>2 DEF ScreensTypeOK, RevealsWhatIsListed, Captured
<1>4. PreviewIsOfChoice' /\ NoPlanTwice' /\ SentBefore'
  BY <1>1 DEF PreviewIsOfChoice, NoPlanTwice, SentBefore
<1>5. VersionsOfSelected'
  BY <1>1, <1>2 DEF VersionsOfSelected, Highlighted
<1> QED
  BY <1>3, <1>4, <1>5

\* A change of the kind or the strategy takes the preview away.
LEMMA ChooseInv == ASSUME ScreensInv, Choose PROVE ScreensInv'
<1> USE DEF ScreensInv
<1>1. /\ mode.at = "normal" /\ preview' = Void
      /\ UNCHANGED <<screen, mode, list, selected, lapse, counts, sent>>
  BY DEF Choose, AtKeys, NextKind, NextStrategy, shownVars, historyVars
<1>2. ScreensTypeOK' /\ RevealsWhatIsListed' /\ Captured'
  BY <1>1 DEF ScreensTypeOK, RevealsWhatIsListed, Captured
<1>3. PreviewIsOfChoice' /\ NoPlanTwice' /\ SentBefore'
  BY <1>1 DEF PreviewIsOfChoice, NoPlanTwice, SentBefore
<1>4. VersionsOfSelected'
  BY <1>1 DEF VersionsOfSelected, Highlighted
<1> QED
  BY <1>2, <1>3, <1>4

\* A value is revealed of the latest version, or of one that the versions screen lists.
LEMMA RevealInv == ASSUME ScreensInv, Reveal PROVE ScreensInv'
<1> USE DEF ScreensInv
<1>1. UNCHANGED <<screen, list, selected, lapse, choice, preview, counts, sent>>
  BY DEF Reveal, shownVars
<1>0. \E s \in Highlighted("secrets") : \E v :
         /\ \/ screen = "secrets" /\ v.of = s.name
            \/ screen = "versions" /\ v \in Highlighted("versions")
         /\ mode' = [at |-> "reveal", name |-> s.name, listed |-> v.of, version |-> v.version]
  BY DEF Reveal
<1> PICK s \in Highlighted("secrets") : \E v :
         /\ \/ screen = "secrets" /\ v.of = s.name
            \/ screen = "versions" /\ v \in Highlighted("versions")
         /\ mode' = [at |-> "reveal", name |-> s.name, listed |-> v.of, version |-> v.version]
  BY <1>0
<1> PICK v :
         /\ \/ screen = "secrets" /\ v.of = s.name
            \/ screen = "versions" /\ v \in Highlighted("versions")
         /\ mode' = [at |-> "reveal", name |-> s.name, listed |-> v.of, version |-> v.version]
  OBVIOUS
<1>2. RevealsWhatIsListed'
  <2>1. mode'.listed = v.of /\ mode'.name = s.name
    OBVIOUS
  <2>2. CASE screen = "secrets"
    BY <2>1, <2>2 DEF RevealsWhatIsListed
  <2>3. CASE screen # "secrets"
    <3>1. screen = "versions" /\ v \in Highlighted("versions")
      BY <2>3
    <3>2. \E i \in DOMAIN list["versions"] : v = list["versions"][i]
      BY <3>1 DEF Highlighted
    <3>3. lapse = "no" => v.of = s.name
      BY <3>1, <3>2 DEF VersionsOfSelected
    <3> QED
      BY <1>1, <2>1, <3>3 DEF RevealsWhatIsListed
  <2> QED
    BY <2>2, <2>3
<1>3. "at" \in DOMAIN mode' /\ mode'.at = "reveal"
  OBVIOUS
<1>4. ScreensTypeOK' /\ Captured'
  BY <1>1, <1>3 DEF ScreensTypeOK, Captured
<1>5. PreviewIsOfChoice' /\ NoPlanTwice' /\ SentBefore'
  BY <1>1 DEF PreviewIsOfChoice, NoPlanTwice, SentBefore
<1>6. VersionsOfSelected'
  BY <1>1 DEF VersionsOfSelected, Highlighted
<1> QED
  BY <1>2, <1>4, <1>5, <1>6

\* The mode returns to normal and nothing is shown or captured that was not before; what
\* other clients do is not seen at once.
LEMMA QuietInv ==
  ASSUME ScreensInv, SubmitUnlock \/ ConfirmLock \/ OthersChange \/ LeaseChanges
  PROVE  ScreensInv'
<1> USE DEF ScreensInv
<1>1. /\ mode' = mode \/ mode' = [at |-> "normal"]
      /\ UNCHANGED <<screen, list, selected, lapse, choice, preview, sent>>
      /\ counts' = counts \/ counts' = [counts EXCEPT !.others = @ + 1]
  BY DEF SubmitUnlock, ConfirmLock, OthersChange, LeaseChanges, ByOthers, Normal, shownVars, historyVars
<1>2. counts' \in [previews : Nat, others : Nat] /\ counts'.previews = counts.previews
  BY <1>1 DEF ScreensTypeOK
<1>3. ScreensTypeOK' /\ RevealsWhatIsListed' /\ Captured'
  <2>1. CASE mode' = mode
    BY <1>1, <1>2, <2>1 DEF ScreensTypeOK, RevealsWhatIsListed, Captured
  <2>2. CASE mode' = [at |-> "normal"]
    BY <1>1, <1>2, <2>2 DEF ScreensTypeOK, RevealsWhatIsListed, Captured
  <2> QED
    BY <1>1, <2>1, <2>2
<1>4. PreviewIsOfChoice' /\ NoPlanTwice' /\ SentBefore'
  BY <1>1, <1>2 DEF PreviewIsOfChoice, NoPlanTwice, SentBefore
<1>5. VersionsOfSelected'
  BY <1>1 DEF VersionsOfSelected, Highlighted
<1> QED
  BY <1>3, <1>4, <1>5

\* A preview answers the kind that was captured with the prompt, and the strategy.
LEMMA RequestPreviewInv == ASSUME ScreensInv, RequestPreview PROVE ScreensInv'
<1> USE DEF ScreensInv
<1>1. /\ mode' = [at |-> "normal"] /\ mode.kind = choice.kind
      /\ UNCHANGED <<screen, list, selected, lapse, choice, sent>>
      /\ \/ preview' = Void /\ counts' = counts
         \/ /\ counts' = [counts EXCEPT !.previews = @ + 1]
            /\ preview' = [id |-> counts'.previews, kind |-> mode.kind, strategy |-> choice.strategy]
  BY DEF RequestPreview, Normal, shownVars, Captured
<1>2. CASE preview' = Void /\ counts' = counts
  BY <1>1, <1>2 DEF ScreensTypeOK, PreviewIsOfChoice, NoPlanTwice, RevealsWhatIsListed, Captured,
     SentBefore, VersionsOfSelected, Highlighted
<1>3. ASSUME counts' = [counts EXCEPT !.previews = @ + 1],
             preview' = [id |-> counts'.previews, kind |-> mode.kind, strategy |-> choice.strategy]
      PROVE  ScreensInv'
  <2>1. counts' \in [previews : Nat, others : Nat] /\ counts'.previews = counts.previews + 1
    BY <1>3 DEF ScreensTypeOK
  <2>2. ScreensTypeOK' /\ RevealsWhatIsListed' /\ Captured'
    BY <1>1, <2>1 DEF ScreensTypeOK, RevealsWhatIsListed, Captured
  <2>3. PreviewIsOfChoice' /\ NoPlanTwice'
    BY <1>1, <1>3 DEF PreviewIsOfChoice, NoPlanTwice
  <2>4. SentBefore'
    <3>1. \A i \in DOMAIN sent : sent[i] \in Nat /\ sent[i] <= counts.previews
      BY DEF SentBefore, ScreensTypeOK
    <3>2. counts.previews \in Nat
      BY DEF ScreensTypeOK
    <3> QED
      BY <1>1, <2>1, <3>1, <3>2 DEF SentBefore
  <2>5. VersionsOfSelected'
    BY <1>1 DEF VersionsOfSelected, Highlighted
  <2> QED
    BY <2>2, <2>3, <2>4, <2>5
<1> QED
  BY <1>1, <1>2, <1>3

\* A confirmed change refreshes the list of its own screen.
LEMMA ConfirmChangeInv == ASSUME ScreensInv, ConfirmChange PROVE ScreensInv'
<1> USE DEF ScreensInv
<1>1. /\ mode' = [at |-> "normal"] /\ UNCHANGED <<screen, choice, preview, counts, sent>>
      /\ screen \in Table /\ mode.table = screen
      /\ UNCHANGED <<list, selected, lapse>> \/ \E rs : Refresh(mode.table, rs)
  BY DEF ConfirmChange, Normal, shownVars, Captured
<1>2. /\ DOMAIN list' = DOMAIN list /\ DOMAIN selected' = DOMAIN selected
      /\ lapse' = lapse \/ lapse' = "yes"
  BY <1>1, RefreshShows
<1>3. ScreensTypeOK' /\ RevealsWhatIsListed' /\ Captured'
  BY <1>1, <1>2 DEF ScreensTypeOK, RevealsWhatIsListed, Captured
<1>4. PreviewIsOfChoice' /\ NoPlanTwice' /\ SentBefore'
  BY <1>1 DEF PreviewIsOfChoice, NoPlanTwice, SentBefore
<1>5. VersionsOfSelected'
  BY <1>1 DEF VersionsOfSelected, Table
<1> QED
  BY <1>3, <1>4, <1>5

\* A plan is sent with the preview taken away: the next one is of a later preview.
LEMMA ConfirmCommitInv == ASSUME ScreensInv, ConfirmCommit PROVE ScreensInv'
<1> USE DEF ScreensInv
<1>1. /\ mode' = [at |-> "normal"] /\ UNCHANGED <<screen, choice, counts>>
      /\ preview' = Void /\ sent' = Append(sent, preview.id)
      /\ screen = "portability" /\ preview # Void
      /\ UNCHANGED <<list, selected, lapse>> \/ \E t \in Table : \E rs : Refresh(t, rs)
  BY DEF ConfirmCommit, Normal, shownVars, Captured, Taken, Table
<1>2. /\ DOMAIN list' = DOMAIN list /\ DOMAIN selected' = DOMAIN selected
      /\ lapse' = lapse \/ lapse' = "yes"
  BY <1>1, RefreshShows
<1>3. /\ preview.id = counts.previews /\ counts.previews \in Nat
      /\ \A i \in DOMAIN sent : sent[i] \in Nat /\ sent[i] < counts.previews
  BY <1>1 DEF PreviewIsOfChoice, ScreensTypeOK, SentBefore
<1>4. /\ sent' \in Seq(Nat) /\ DOMAIN sent' = 1 .. Len(sent) + 1 /\ DOMAIN sent = 1 .. Len(sent)
      /\ Len(sent) \in Nat
      /\ sent'[Len(sent) + 1] = counts.previews /\ \A i \in DOMAIN sent : sent'[i] = sent[i]
  BY <1>1, <1>3 DEF ScreensTypeOK
<1>5. ScreensTypeOK' /\ RevealsWhatIsListed' /\ Captured'
  BY <1>1, <1>2, <1>4 DEF ScreensTypeOK, RevealsWhatIsListed, Captured
<1>6. \A i \in DOMAIN sent' : i \in DOMAIN sent \/ i = Len(sent) + 1
  BY <1>4
<1>7. PreviewIsOfChoice' /\ SentBefore'
  BY <1>1, <1>3, <1>4, <1>6 DEF PreviewIsOfChoice, SentBefore
<1>8. NoPlanTwice'
  <2>1. \A i, k \in DOMAIN sent : sent[i] = sent[k] => i = k
    BY DEF NoPlanTwice, IsInjective
  <2>2. \A i \in DOMAIN sent : sent'[i] # sent'[Len(sent) + 1]
    BY <1>3, <1>4
  <2>3. \A i, k \in DOMAIN sent' : sent'[i] = sent'[k] => i = k
    BY <1>4, <1>6, <2>1, <2>2
  <2> QED
    BY <2>3 DEF NoPlanTwice, IsInjective
<1>9. VersionsOfSelected'
  BY <1>1 DEF VersionsOfSelected
<1> QED
  BY <1>5, <1>7, <1>8, <1>9

-----------------------------------------------------------------------------
\* Whatever keys are pressed and whatever other clients do meanwhile: the preview on display
\* is of the choice on display (app.rs clears it with every change), no plan is committed
\* twice (execute_portability_commit takes the preview first), and a version that is
\* revealed was listed for that secret.
THEOREM WhatIsShown == ScreensSpec => []ScreensInv
<1>1. ScreensInit => ScreensInv
  BY ScreensInitInv
<1>2. ScreensInv /\ [ScreensNext]_screenVars => ScreensInv'
  <2> SUFFICES ASSUME ScreensInv, [ScreensNext]_screenVars PROVE ScreensInv'
    OBVIOUS
  <2>1. CASE UNCHANGED screenVars
    <3>1. UNCHANGED <<screen, mode, list, selected, choice, preview, counts, sent, lapse>>
      BY <2>1 DEF screenVars
    <3> QED
      BY <3>1 DEF ScreensInv, ScreensTypeOK, PreviewIsOfChoice, NoPlanTwice, RevealsWhatIsListed,
         Captured, SentBefore, VersionsOfSelected, Highlighted
  <2>2. CASE ScreensNext
    BY <2>2, GoToInv, MoveInv, KeyModesInv, ChooseInv, RevealInv, QuietInv, RequestPreviewInv,
       ConfirmChangeInv, ConfirmCommitInv DEF ScreensNext
  <2> QED
    BY <2>1, <2>2
<1> QED
  BY <1>1, <1>2, PTL DEF ScreensSpec
=============================================================================
