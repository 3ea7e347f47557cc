----------------------------- MODULE RateLimit -----------------------------
(***************************************************************************)
(* The rate windows of RuntimeState (daemon.rs): every connection and      *)
(* every password attempt is counted globally and for the login session    *)
(* (peer) it comes from, in fixed windows of a minute; the windows of at   *)
(* most MaxWindows peers are kept.                                         *)
(*                                                                         *)
(* Time is relative: a window has an age in ticks, Minute means stale, and *)
(* so no clock has to be bounded.                                          *)
(***************************************************************************)
EXTENDS Naturals, FiniteSets

CONSTANTS
    Kind,        \* what is counted: requests, authentication attempts
    Peer,        \* keys of rate_limits: login sessions of the owner
    Global,      \* the key of global_rate_limit
    Minute,      \* ticks of a window
    PeerLimit,   \* per kind, REQUESTS_ and AUTH_ATTEMPTS_PER_MINUTE
    GlobalLimit, \* per kind, the same with GLOBAL_
    MaxWindows   \* MAX_RATE_WINDOWS

ASSUME RateAssumption ==
    /\ IsFiniteSet(Peer)
    /\ Global \notin Peer
    /\ Minute \in Nat \ {0}
    /\ PeerLimit \in [Kind -> Nat \ {0}]
    /\ GlobalLimit \in [Kind -> Nat \ {0}]
    /\ MaxWindows \in Nat \ {0}

VARIABLES
    live,   \* the peers with a window in rate_limits
    age,    \* RateWindow.started, as the ticks since then, at most Minute
    used,   \* RateWindow.requests and authentication_attempts
    recent, \* history: what was counted in the last n ticks, the running one too
    last    \* history: the last check and its answer

windows == <<live, age, used>>
vars == <<windows, recent, last>>

Key == Peer \cup {Global}
Span == 1 .. Minute
NoCheck == [kind |-> "none", peer |-> Global, answer |-> "none"]

Init ==
    /\ live = {}
    /\ age = [x \in Key |-> 0]
    /\ used = [k \in Kind |-> [x \in Key |-> 0]]
    /\ recent = [k \in Kind |-> [x \in Key |-> [n \in Span |-> 0]]]
    /\ last = NoCheck

-----------------------------------------------------------------------------
\* A window that counts nothing: it is a minute old, or yet to be made.
Stale(x) == age[x] = Minute \/ x \in Peer \ live

\* Mutant: the counter is looked at before the window is refreshed.
UsedNow_Old(k, x) == used[k][x]

\* The counter as refresh() or RateWindow::new() leaves it.
UsedNow(k, x) == IF Stale(x) THEN 0 ELSE used[k][x]

\* Mutant: the limit is reached one count late.
Full_OneMore(k, x) == UsedNow(k, x) > IF x = Global THEN GlobalLimit[k] ELSE PeerLimit[k]

Full(k, x) == UsedNow(k, x) >= IF x = Global THEN GlobalLimit[k] ELSE PeerLimit[k]

\* The windows X are refreshed and those in C count one more of kind k.
Touch(k, X, C) ==
    /\ age' = [x \in Key |-> IF x \in X /\ Stale(x) THEN 0 ELSE age[x]]
    /\ used' = [j \in Kind |-> [x \in Key |->
                   (IF x \in X /\ Stale(x) THEN 0 ELSE used[j][x])
                   + (IF j = k /\ x \in C THEN 1 ELSE 0)]]
    /\ recent' = [j \in Kind |-> [x \in Key |->
                   [n \in Span |-> recent[j][x][n] + (IF j = k /\ x \in C THEN 1 ELSE 0)]]]

Answer(k, p, a) == last' = [kind |-> k, peer |-> p, answer |-> a]

\* Mutant: every other window makes room, stale or not.
Kept_Nothing(p) == IF p \in live THEN live ELSE {}

\* The windows rate_window keeps when it looks for p: if p has none, stale ones
\* make room first.
Kept(p) == IF p \in live THEN live ELSE {q \in live : ~Stale(q)}
HasRoom(p) == p \in live \/ Cardinality(Kept(p)) < MaxWindows

\* check_connection_rate and check_authentication_rate: the global window
\* counts first, also what the peer's window then refuses.
Check(k, p) ==
    \/ /\ Full(k, Global)
       /\ Answer(k, p, "refused")
       /\ UNCHANGED <<windows, recent>>
    \/ /\ ~Full(k, Global)
       /\ ~HasRoom(p)
       /\ live' = Kept(p)
       /\ Touch(k, {Global}, {Global})
       /\ Answer(k, p, "refused")
    \/ /\ ~Full(k, Global)
       /\ HasRoom(p)
       /\ live' = Kept(p) \cup {p}
       /\ IF Full(k, p)
          THEN Touch(k, {Global, p}, {Global}) /\ Answer(k, p, "refused")
          ELSE Touch(k, {Global, p}, {Global, p}) /\ Answer(k, p, "granted")

TimePasses ==
    /\ age' = [x \in Key |-> IF age[x] = Minute THEN Minute ELSE age[x] + 1]
    /\ recent' = [k \in Kind |-> [x \in Key |->
                     [n \in Span |-> IF n = 1 THEN 0 ELSE recent[k][x][n - 1]]]]
    /\ last' = NoCheck
    /\ UNCHANGED <<live, used>>

Next == TimePasses \/ \E k \in Kind, p \in Peer : Check(k, p)

Spec == Init /\ [][Next]_vars

-----------------------------------------------------------------------------
(* Properties.                                                             *)

TypeOK ==
    /\ live \in SUBSET Peer
    /\ age \in [Key -> 0 .. Minute]
    /\ used \in [Kind -> [Key -> Nat]]
    /\ recent \in [Kind -> [Key -> [Span -> Nat]]]

\* Whatever the sessions do, the state kept about them is bounded: counters by
\* their limits, windows by MAX_RATE_WINDOWS.
StateBounded ==
    /\ \A k \in Kind, p \in Peer : used[k][p] <= PeerLimit[k]
    /\ \A k \in Kind : used[k][Global] <= GlobalLimit[k]
    /\ Cardinality(live) <= MaxWindows

\* What a window says of the past: its counter covers what was counted since it
\* began, the one before it at most a limit more, and a window that counts nothing
\* has seen nothing yet in this tick.
Allowed(k, x) == IF x = Global THEN GlobalLimit[k] ELSE PeerLimit[k]
Covers(k, x) ==
    /\ Stale(x) => recent[k][x][1] = 0
    /\ \A n \in Span :
          /\ Stale(x) => recent[k][x][n] <= Allowed(k, x)
          /\ ~Stale(x) /\ n <= age[x] + 1 => recent[k][x][n] <= used[k][x]
          /\ ~Stale(x) /\ n >= age[x] + 1 => /\ recent[k][x][n] >= used[k][x]
                                           /\ recent[k][x][n] <= used[k][x] + Allowed(k, x)

\* The inductive invariant.
RateInv == TypeOK /\ StateBounded /\ \A k \in Kind, x \in Key : Covers(k, x)

Recent(k, x) == recent[k][x][Minute]

\* In no minute, wherever it starts, more than twice a limit is counted: fixed
\* windows allow the double, and making room never gives a session a fresh
\* window while its old one counts.
SlidingBound ==
    \A k \in Kind :
        /\ \A p \in Peer : Recent(k, p) <= 2 * PeerLimit[k]
        /\ Recent(k, Global) <= 2 * GlobalLimit[k]

\* A refusal has a cause in the minute before it: the global budget, the session's
\* own, or as many other sessions as windows are kept.
RefusedForCause ==
    last.answer = "refused" =>
        LET k == last.kind
            p == last.peer
        IN  \/ Recent(k, Global) >= GlobalLimit[k]
            \/ Recent(k, p) >= PeerLimit[k]
            \/ Cardinality({q \in live \ {p} : ~Stale(q)}) >= MaxWindows
=============================================================================
