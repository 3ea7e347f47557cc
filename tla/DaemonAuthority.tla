--------------------------- MODULE DaemonAuthority ---------------------------
(* The daemon's state as Authority sees it.                                 *)
EXTENDS Daemon

\* A lease past its deadline grants nothing while nobody has looked at it, and a
\* digest that is still on it is worth nothing.
GrantedNow == IF AdminGranted THEN TRUE ELSE FALSE
ProofNow == IF AdminGranted THEN digest ELSE NoToken

EffectName == [AdminUnlock |-> "granted", IssueRevealToken |-> "proved", Mutate |-> "changed",
               Portability |-> "changed", Reveal |-> "revealed", Http |-> "sent",
               AdminLock |-> "given back", Lock |-> "closed", Stop |-> "closed"]
EffectNow == [c \in Conn |-> IF c \in applied THEN EffectName[req[c].op] ELSE "none"]

A == INSTANCE Authority
         WITH Client <- Conn, open <- vault = "unlocked", granted <- GrantedNow,
              proof <- ProofNow, effect <- EffectNow

\* The daemon keeps what Authority promises, through every wait for the mutex, the
\* permit, a blocking thread or a client, and through shutdown.
KeepsAuthority == A!Spec
=============================================================================
