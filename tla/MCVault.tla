------------------------------ MODULE MCVault ------------------------------
(* Vault for TLC: the ids other than Base, and names, are interchangeable.  *)
EXTENDS Vault, TLC

Symmetry == Permutations(Pid \ {Base}) \cup Permutations(Sid)
            \cup Permutations(SName) \cup Permutations(PName \ {BaseName})

\* Bounds of the run: once there was a secret, no profile but base starts with the
\* vault, none has a description and there is no workspace; while there is a workspace,
\* none has a description.
Described == \E p \in Pid : desc[p] # NoDesc
Apart ==
    /\ drawnSecrets # {} => auto = {Base} /\ workspaces = {} /\ ~Described
    /\ workspaces # {} => ~Described
=============================================================================
