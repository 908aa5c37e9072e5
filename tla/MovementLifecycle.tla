------------------------- MODULE MovementLifecycle -------------------------
(***************************************************************************)
(* What the house expects of its book of movements.  A movement is opened, *)
(* it is dropped without a trace or it is confirmed once, and a standing   *)
(* movement is annulled once, alone or in the same instant in which its    *)
(* correction is confirmed.  What a standing movement adds to the current  *)
(* accounts is exactly what its annulment takes back, and nothing else     *)
(* moves them.                                                             *)
(*                                                                         *)
(* Movements implements this module when requests do not overlap.          *)
(***************************************************************************)
EXTENDS Integers

CONSTANTS Movements, Clients, Amounts

VARIABLES
    stage,   \* where a movement stands
    effect,  \* what it adds to the account of each client
    ledger   \* the account of each client

vars == <<stage, effect, ledger>>

Nothing == [c \in Clients |-> 0]

Init ==
    /\ stage  = [m \in Movements |-> "UNUSED"]
    /\ effect = [m \in Movements |-> Nothing]
    /\ ledger = Nothing

Open(m) ==
    /\ stage[m] = "UNUSED"
    /\ stage' = [stage EXCEPT ![m] = "DRAFT"]
    /\ UNCHANGED <<effect, ledger>>

Drop(m) ==
    /\ stage[m] = "DRAFT"
    /\ stage' = [stage EXCEPT ![m] = "DROPPED"]
    /\ UNCHANGED <<effect, ledger>>

Confirm(m, client, amount) ==
    /\ stage[m] = "DRAFT"
    /\ stage'  = [stage EXCEPT ![m] = "STANDING"]
    /\ effect' = [effect EXCEPT ![m][client] = amount]
    /\ ledger' = [ledger EXCEPT ![client] = @ + amount]

Annul(m) ==
    /\ stage[m] = "STANDING"
    /\ stage'  = [stage EXCEPT ![m] = "ANNULLED"]
    /\ effect' = [effect EXCEPT ![m] = Nothing]
    /\ ledger' = [c \in Clients |-> ledger[c] - effect[m][c]]

Replace(source, m, client, amount) ==
    /\ stage[source] = "STANDING"
    /\ stage[m] = "DRAFT"
    /\ stage'  = [stage EXCEPT ![source] = "ANNULLED", ![m] = "STANDING"]
    /\ effect' = [effect EXCEPT ![source] = Nothing, ![m][client] = amount]
    /\ ledger' = [c \in Clients |->
                    ledger[c] - effect[source][c] + IF c = client THEN amount ELSE 0]

Next ==
    \E m \in Movements :
        \/ Open(m)
        \/ Drop(m)
        \/ Annul(m)
        \/ \E c \in Clients, a \in Amounts :
              \/ Confirm(m, c, a)
              \/ \E source \in Movements : Replace(source, m, c, a)

Spec == Init /\ [][Next]_vars
=============================================================================
