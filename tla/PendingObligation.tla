------------------------- MODULE PendingObligation -------------------------
(***************************************************************************)
(* What the back office expects of one deferred leg of an operation (a     *)
(* pending item): money is owed, it is paid in one or several instalments  *)
(* that never exceed the debt, and the debt ends in exactly one of three   *)
(* ways: settled in cash, waived without cash, or annulled together with   *)
(* its operation, in which case the net cash moved is zero.                *)
(*                                                                         *)
(* Pendings implements this module when requests do not overlap.           *)
(***************************************************************************)
EXTENDS Integers

CONSTANTS Movements, MaxAmount

VARIABLES
    phase,  \* where the obligation of a movement stands
    owed,   \* what is still to be paid
    paid    \* net cash moved on its account

vars == <<phase, owed, paid>>

Phases == {"NONE", "OPEN", "SETTLED", "WAIVED", "ANNULLED"}

Init ==
    /\ phase = [m \in Movements |-> "NONE"]
    /\ owed  = [m \in Movements |-> 0]
    /\ paid  = [m \in Movements |-> 0]

Register(m, amount) ==
    /\ phase[m] = "NONE"
    /\ phase' = [phase EXCEPT ![m] = "OPEN"]
    /\ owed'  = [owed EXCEPT ![m] = amount]
    /\ UNCHANGED paid

Pay(m, amount) ==
    /\ phase[m] = "OPEN"
    /\ amount <= owed[m]
    /\ owed'  = [owed EXCEPT ![m] = @ - amount]
    /\ paid'  = [paid EXCEPT ![m] = @ + amount]
    /\ phase' = [phase EXCEPT ![m] = IF amount = owed[m] THEN "SETTLED" ELSE "OPEN"]

Waive(m) ==
    /\ phase[m] = "OPEN"
    /\ phase' = [phase EXCEPT ![m] = "WAIVED"]
    /\ owed'  = [owed EXCEPT ![m] = 0]
    /\ UNCHANGED paid

Annul(m) ==
    /\ phase[m] \in {"OPEN", "SETTLED", "WAIVED"}
    /\ phase' = [phase EXCEPT ![m] = "ANNULLED"]
    /\ owed'  = [owed EXCEPT ![m] = 0]
    /\ paid'  = [paid EXCEPT ![m] = 0]

Next ==
    \E m \in Movements :
        \/ \E a \in 1..MaxAmount : Register(m, a) \/ Pay(m, a)
        \/ Waive(m)
        \/ Annul(m)

Spec == Init /\ [][Next]_vars
=============================================================================
