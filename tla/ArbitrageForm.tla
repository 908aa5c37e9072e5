--------------------------- MODULE ArbitrageForm ---------------------------
(***************************************************************************)
(* The form of an arbitrage (ArbitrajeForm.tsx): what it costs, what is    *)
(* collected, and the profit, which the form works out while both are in   *)
(* one currency and the user does not override it.                         *)
(*                                                                         *)
(* Its two clients are the wizard's; here they are chosen or not.  The     *)
(* profit may be negative.                                                 *)
(***************************************************************************)
EXTENDS FormLegs, Integers

ArbitrajeForm == [legs : [1..3 -> Legs], lines : {<<>>}, override : BOOLEAN, clients : BOOLEAN]
ArbitrajeBlank == [legs |-> <<EmptyLeg, EmptyLeg, EmptyLeg>>, lines |-> <<>>,
                   override |-> FALSE, clients |-> FALSE]

SameCurrency(f) == f.legs[1].currency # "" /\ f.legs[1].currency = f.legs[2].currency

\* The effect that gives the profit the currency collected.  legs[3].amount is
\* what the user typed as profit.
ProfitCurrency(old, new) ==
    IF /\ <<old.legs[2].currency, old.override>> # <<new.legs[2].currency, new.override>>
       /\ new.legs[2].currency # "" /\ ~new.override
    THEN [new EXCEPT !.legs[3].currency = new.legs[2].currency]
    ELSE new

ArbitrajeRendered(old, new) ==
    [ProfitCurrency(old, new) EXCEPT
        !.legs = [i \in DOMAIN @ |-> Aligned(ListAsked(old.legs[i], @[i]))]]

----------------------------------------------------------------------------
(* Inputs                                                                  *)

\* Another account for the profit leaves its currency; without a list any is offered.
ProfitPlaces(leg) ==
    {[leg EXCEPT !.account = a] : a \in Maybe(Accounts) \ {leg.account}}
      \cup CurrenciesFor(leg, IF Shown(leg.list) = {} THEN Currencies ELSE Shown(leg.list))
      \cup FormatsFor(leg, leg.currency)

\* A profit typed while both currencies are one overrides what the form works out.
ProfitAmounts(f) ==
    {[f EXCEPT !.legs[3] = leg,
               !.override = IF SameCurrency(f) THEN leg.amount > 0 ELSE @] :
        leg \in AmountsFor(f.legs[3])}

\* Back to automatic.
ProfitAutomatic(f) ==
    IF f.override /\ SameCurrency(f)
    THEN {[f EXCEPT !.override = FALSE, !.legs[3].amount = 0]}
    ELSE {}

ArbitrajeInputs(f) ==
    {[f EXCEPT !.legs[1] = leg] : leg \in LegInputs(f.legs[1]) \cup TicksFor(f.legs[1])}
      \cup {[f EXCEPT !.legs[2] = leg] : leg \in LegInputs(f.legs[2]) \cup TicksFor(f.legs[2])}
      \cup {[f EXCEPT !.legs[3] = leg] : leg \in ProfitPlaces(f.legs[3])}
      \cup ProfitAmounts(f) \cup ProfitAutomatic(f) \cup {[f EXCEPT !.clients = ~@]}

----------------------------------------------------------------------------
(* Drafts and requests                                                     *)

ArbitrajeData(f) == [f EXCEPT !.legs = [i \in DOMAIN @ |-> Kept(@[i])]]

\* A draft with clients gives them back to the wizard.
ArbitrajeRestored(f, d) ==
    [d EXCEPT !.legs = [i \in DOMAIN @ |-> Refilled(f.legs[i], @[i])],
              !.clients = @ \/ f.clients]

ArbitrajeCleared(f) ==
    [ArbitrajeBlank EXCEPT !.legs = [i \in DOMAIN @ |-> [@[i] EXCEPT !.asked = f.legs[i].asked]],
                           !.clients = f.clients]

Manual(f) == f.override \/ ~SameCurrency(f)
Profit(f) == IF Manual(f) THEN f.legs[3].amount ELSE f.legs[2].amount - f.legs[1].amount

ArbitrajeSubmits(f) ==
    /\ f.clients
    /\ \A i \in {1, 2} : f.legs[i].account # "" /\ f.legs[i].currency # "" /\ f.legs[i].amount > 0
    /\ f.legs[3].account # "" /\ f.legs[3].currency # ""
    /\ Manual(f) => f.legs[3].amount > 0

Part(leg) == [account |-> leg.account, currency |-> leg.currency, format |-> leg.format,
              amount |-> leg.amount, pending |-> leg.pending /\ leg.format = "CASH"]

ArbitrajeRequest(f) ==
    [costo |-> Part(f.legs[1]), cobrado |-> Part(f.legs[2]),
     profit |-> [Part(f.legs[3]) EXCEPT !.amount = Profit(f)], manual_override |-> Manual(f)]

ArbitrajeAccepts(r) ==
    /\ r.costo.amount > 0 /\ r.cobrado.amount > 0
    /\ \A leg \in {r.costo, r.cobrado, r.profit} :
          leg.account # "" /\ leg.currency # "" /\ PairTakes(leg.account, leg.currency, leg.format)
=============================================================================
