------------------------------ MODULE MCDaemon ------------------------------
(* Daemon for TLC: connection slots are interchangeable.                   *)
EXTENDS DaemonAuthority, TLC

Symmetry == Permutations(Conn)
=============================================================================
