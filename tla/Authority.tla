------------------------------ MODULE Authority ------------------------------
(***************************************************************************)
(* What the daemon promises about authority, without mutexes, permits,     *)
(* blocking threads or connections: a vault that is open until it is       *)
(* closed for good, a grant that one proof of the password brings and any  *)
(* of several events ends, and a second proof that lasts no longer than    *)
(* the grant it was made under.  Each client's request has at most one     *)
(* effect, and has it in one step.  Daemon implements it.                  *)
(***************************************************************************)
EXTENDS Naturals

CONSTANT Client

VARIABLES
    open,    \* the vault
    granted, \* admin authority
    proof,   \* the second proof made under it, by its number; 0 is none
    effect   \* what the last request of each client has brought about

authorityVars == <<open, granted, proof, effect>>

Has(c, e) == effect' = [effect EXCEPT ![c] = e]

Init ==
    /\ open = TRUE
    /\ granted = FALSE
    /\ proof = 0
    /\ effect = [c \in Client |-> "none"]

\* A client's next request.
Ask(c) == Has(c, "none") /\ UNCHANGED <<open, granted, proof>>

\* A new grant starts without a second proof.
Grant(c) ==
    /\ open
    /\ granted' = TRUE /\ proof' = 0
    /\ Has(c, "granted") /\ UNCHANGED open
Prove(c) ==
    /\ granted
    /\ proof' \in Nat \ {0, proof}
    /\ Has(c, "proved") /\ UNCHANGED <<open, granted>>

\* A change of the vault's contents, or an export.
Change(c) == granted /\ Has(c, "changed") /\ UNCHANGED <<open, granted, proof>>
Reveal(c) == granted /\ proof # 0 /\ Has(c, "revealed") /\ UNCHANGED <<open, granted, proof>>

\* A brokered request, the only effect that may come after the vault was closed.
Send(c) == Has(c, "sent") /\ UNCHANGED <<open, granted, proof>>

\* The end of a grant: its time is over, it is given back, or the vault is closed.
Lapse == granted' = FALSE /\ proof' = 0 /\ UNCHANGED <<open, effect>>
GiveBack(c) ==
    /\ granted
    /\ granted' = FALSE /\ proof' = 0
    /\ Has(c, "given back") /\ UNCHANGED open
Close == open' = FALSE /\ granted' = FALSE /\ proof' = 0
CloseFor(c) == Close /\ Has(c, "closed")
CloseAtExit == Close /\ UNCHANGED effect

Next ==
    \/ \E c \in Client :
           \/ Ask(c) \/ Grant(c) \/ Prove(c) \/ Change(c) \/ Reveal(c) \/ Send(c)
           \/ GiveBack(c) \/ CloseFor(c)
    \/ Lapse \/ CloseAtExit

Spec == Init /\ [][Next]_authorityVars
=============================================================================
