---------------------------- MODULE SimpleForms ----------------------------
(***************************************************************************)
(* The operation forms without a quote: capital in and out and expenses    *)
(* (IngresoCapitalForm.tsx, RetiroCapitalForm.tsx, GastoForm.tsx), the     *)
(* crossed payment (PagoCCCruzadoForm.tsx), the transfer of a debt         *)
(* (TraspasoDeudaCCForm.tsx) and the transfer between accounts             *)
(* (TransferenciaEntreCuentasForm.tsx).                                    *)
(*                                                                         *)
(* For each form: Blank, what is shown at first; Rendered, the form after  *)
(* a render and its effects; Inputs, the forms one input may lead to;      *)
(* Data and Restored, what a draft keeps and gives back; Cleared, what     *)
(* Limpiar leaves; Submits, the checks before the request; Request, what   *)
(* is sent; Accepts, what the server demands of it.  A note is there or    *)
(* not.                                                                    *)
(***************************************************************************)
EXTENDS FormLegs

CONSTANTS Clients,    \* clients a debt may move to, the one in the header among them
          Debtor,     \* the client in the header
          Owed        \* currencies with a balance in the current account of Debtor

ASSUME SimpleFormsAssumption ==
    Debtor \in Clients /\ "" \notin Clients /\ Owed \subseteq Currencies

\* The legs after a render: lists asked for, formats aligned.
LegsRendered(old, new) ==
    [i \in DOMAIN new |-> Aligned(ListAsked(old[i], new[i]))]

LegsKept(legs) == [i \in DOMAIN legs |-> Kept(legs[i])]
LegsRefilled(legs, kept) == [i \in DOMAIN kept |-> Refilled(legs[i], kept[i])]
\* Requests under way still answer after Limpiar.
LegsCleared(legs) == [i \in DOMAIN legs |-> [EmptyLeg EXCEPT !.asked = legs[i].asked]]

Filled1(leg) == leg.account # "" /\ leg.currency # "" /\ leg.amount > 0

----------------------------------------------------------------------------
(* Capital in                                                              *)

CapitalForm == [legs : [1..1 -> Legs], lines : {<<>>}, note : BOOLEAN]
CapitalBlank == [legs |-> <<EmptyLeg>>, lines |-> <<>>, note |-> FALSE]

IngresoRendered(old, new) == [new EXCEPT !.legs = LegsRendered(old.legs, @)]

IngresoInputs(f) ==
    {[f EXCEPT !.legs[1] = leg] : leg \in LegInputs(f.legs[1])} \cup {[f EXCEPT !.note = ~@]}

IngresoData(f) == [f EXCEPT !.legs = LegsKept(@)]

IngresoRestored(f, d) == [d EXCEPT !.legs = LegsRefilled(f.legs, @)]

IngresoCleared(f) == [CapitalBlank EXCEPT !.legs = LegsCleared(f.legs)]

IngresoSubmits(f) == Filled1(f.legs[1])

SentCapital(f) == [account |-> f.legs[1].account, currency |-> f.legs[1].currency,
                   format |-> f.legs[1].format, amount |-> f.legs[1].amount, note |-> f.note]

IngresoRequest(f) == SentCapital(f)

IngresoAccepts(r) == r.amount > 0 /\ PairTakes(r.account, r.currency, r.format)

----------------------------------------------------------------------------
(* Capital out: the format of the leg is never aligned                     *)

RetiroRendered(old, new) ==
    [new EXCEPT !.legs = <<ListAsked(old.legs[1], new.legs[1])>>]

RetiroInputs(f) == IngresoInputs(f)
RetiroData(f) == IngresoData(f)
RetiroRestored(f, d) == IngresoRestored(f, d)
RetiroCleared(f) == IngresoCleared(f)
RetiroSubmits(f) == Filled1(f.legs[1])
RetiroRequest(f) == SentCapital(f)
RetiroAccepts(r) == r.amount > 0 /\ PairTakes(r.account, r.currency, r.format)

----------------------------------------------------------------------------
(* An expense: its note is mandatory                                       *)

GastoRendered(old, new) == IngresoRendered(old, new)
GastoInputs(f) == IngresoInputs(f)
GastoData(f) == IngresoData(f)
GastoRestored(f, d) == IngresoRestored(f, d)
GastoCleared(f) == IngresoCleared(f)
GastoSubmits(f) == Filled1(f.legs[1]) /\ f.note
GastoRequest(f) == SentCapital(f)
GastoAccepts(r) == r.amount > 0 /\ PairTakes(r.account, r.currency, r.format)

----------------------------------------------------------------------------
(* Crossed payment: what is paid, and the debt it cancels                  *)

PagoForm == [legs : [1..1 -> Legs], lines : {<<>>}, mode : {"ENTRA", "SALE"},
             debt : Maybe(Currencies), cancel : Nat]
PagoBlank == [legs |-> <<EmptyLeg>>, lines |-> <<>>, mode |-> "ENTRA",
              debt |-> "", cancel |-> 0]

PagoRendered(old, new) == [new EXCEPT !.legs = LegsRendered(old.legs, @)]

PagoInputs(f) ==
    {[f EXCEPT !.legs[1] = leg] : leg \in LegInputs(f.legs[1])}
      \cup {[f EXCEPT !.debt = c] : c \in Maybe(Currencies) \ {f.debt}}
      \cup {[f EXCEPT !.cancel = x] : x \in Typed \ {f.cancel}}
      \cup {[f EXCEPT !.mode = m] : m \in {"ENTRA", "SALE"} \ {f.mode}}

PagoData(f) == [f EXCEPT !.legs = LegsKept(@)]

PagoRestored(f, d) == [d EXCEPT !.legs = LegsRefilled(f.legs, @)]

PagoCleared(f) == [PagoBlank EXCEPT !.legs = LegsCleared(f.legs)]

\* One currency, one amount; and a balance to cancel.
PagoSubmits(f) ==
    /\ Filled1(f.legs[1]) /\ f.debt # "" /\ f.cancel > 0
    /\ f.legs[1].currency = f.debt => f.legs[1].amount = f.cancel
    /\ f.debt \in Owed

PagoRequest(f) ==
    [payment |-> SentCapital([legs |-> f.legs, note |-> FALSE]),
     cancel |-> [currency |-> f.debt, amount |-> f.cancel], mode |-> f.mode]

PagoAccepts(r) ==
    /\ r.mode \in {"ENTRA", "SALE"} /\ r.payment.amount > 0 /\ r.cancel.amount > 0
    /\ PairTakes(r.payment.account, r.payment.currency, r.payment.format)
    /\ r.payment.currency = r.cancel.currency => r.payment.amount = r.cancel.amount
    /\ r.cancel.currency \in Owed

----------------------------------------------------------------------------
(* Transfer of a debt to another client                                    *)

TraspasoForm == [legs : {<<>>}, lines : {<<>>}, client : Maybe(Clients),
                 currency : Maybe(Currencies), amount : Nat, note : BOOLEAN]
TraspasoBlank == [legs |-> <<>>, lines |-> <<>>, client |-> "", currency |-> "",
                  amount |-> 0, note |-> FALSE]

TraspasoRendered(old, new) == new

TraspasoInputs(f) ==
    {[f EXCEPT !.client = c] : c \in Maybe(Clients \ {Debtor}) \ {f.client}}
      \cup {[f EXCEPT !.currency = c] : c \in Maybe(Currencies) \ {f.currency}}
      \cup {[f EXCEPT !.amount = x] : x \in Typed \ {f.amount}}
      \cup {[f EXCEPT !.note = ~@]}

TraspasoData(f) == f
TraspasoRestored(f, d) == d
TraspasoCleared(f) == TraspasoBlank

TraspasoSubmits(f) ==
    f.client # "" /\ f.currency # "" /\ f.amount > 0 /\ f.client # Debtor

TraspasoRequest(f) == [to_client |-> f.client, currency |-> f.currency,
                       amount |-> f.amount, note |-> f.note]

TraspasoAccepts(r) == r.to_client \in Clients \ {Debtor} /\ r.currency \in Currencies /\ r.amount > 0

----------------------------------------------------------------------------
(* Transfer between accounts: one currency, that of the first leg          *)

CuentasForm == [legs : [1..2 -> Legs], lines : {<<>>}]
CuentasBlank == [legs |-> <<EmptyLeg, EmptyLeg>>, lines |-> <<>>]

\* Mutant of CuentasRendered: the destination keeps its format.
CuentasRenderedByOrigin(old, new) ==
    [new EXCEPT !.legs = <<Aligned(ListAsked(old.legs[1], @[1])),
                           ListAsked(old.legs[2], @[2])>>]

\* The destination is aligned to the currency of the origin.
CuentasRendered(old, new) ==
    [new EXCEPT !.legs = <<Aligned(ListAsked(old.legs[1], @[1])),
                           AlignedTo(ListAsked(old.legs[2], @[2]), @[1].currency)>>]

\* The destination is chosen among the other accounts, the origin among all.
CuentasInputs(f) ==
    LET from == f.legs[1]
        to == f.legs[2]
    IN {[f EXCEPT !.legs[1] = leg] : leg \in LegInputs(from)}
         \cup {[f EXCEPT !.legs[2] = leg] :
                 leg \in AccountsFor(to, Accounts \ {from.account})
                           \cup (IF to.account = "" THEN {} ELSE FormatsFor(to, from.currency))}

CuentasData(f) == [f EXCEPT !.legs = LegsKept(@)]

CuentasRestored(f, d) == [d EXCEPT !.legs = LegsRefilled(f.legs, @)]

CuentasCleared(f) == [CuentasBlank EXCEPT !.legs = LegsCleared(f.legs)]

CuentasSubmits(f) ==
    /\ Filled1(f.legs[1]) /\ f.legs[2].account \notin {"", f.legs[1].account}
    /\ f.legs[1].currency \in Shown(f.legs[2].list)

CuentasRequest(f) ==
    [from |-> SentCapital([legs |-> f.legs, note |-> FALSE]),
     to |-> [account |-> f.legs[2].account, format |-> f.legs[2].format]]

CuentasAccepts(r) ==
    /\ r.from.account # r.to.account /\ r.from.amount > 0
    /\ PairTakes(r.from.account, r.from.currency, r.from.format)
    /\ PairTakes(r.to.account, r.from.currency, r.to.format)
=============================================================================
