---------------------------- MODULE TransferForm ----------------------------
(***************************************************************************)
(* The transfer between the client and the house in the web client         *)
(* (TransferenciaForm.tsx): two legs, one of which the user fills in       *)
(* first, a fee, and a quote when the legs cross the functional currency.  *)
(* Until the user types it, the amount of the second leg is suggested.     *)
(*                                                                         *)
(* The form keeps itself consistent by effects that run after each render  *)
(* and may bring about another one.  A pass is one such render: every      *)
(* effect reads what that render showed, and writes in the order in which  *)
(* the effects are declared.  The passes follow an input or an answer at   *)
(* once, so a step of the form is the input and its passes.                *)
(*                                                                         *)
(* The currencies of an account are asked for once and shared by the legs  *)
(* and the fee; a failed request leaves the account without currencies.    *)
(* Drafts of the older shape of the operation are left out.                *)
(***************************************************************************)
EXTENDS QuoteAmounts, Integers

CONSTANTS Functional,   \* the functional currency of the system
          FeeValues,    \* what a user may type as a fee: a percentage or cents
          Rates,        \* what a user may type as a rate
          Stored,       \* drafts a user saved before
          MaxActs,      \* bound on what the user does and on the requests that fail
          MaxAsked,     \* bound on the requests for one account under way
          Passes        \* bound on the passes after an input

VARIABLES form,     \* what the form shows
          load,     \* where the loading of the draft is
          saving,   \* the draft being sent, or NoData
          sending,  \* the operation being sent, or NoData
          server,   \* the stored draft and whether the operation was executed
          cache,    \* the draft in the sessionStorage of the tab
          local,    \* the draft in localStorage
          loaded,   \* history: the stored draft shown, while the user changes nothing
          touched,  \* history: the user changed something since the form opened
          acts      \* what the user did and the requests that failed so far

vars == <<form, load, saving, sending, server, cache, local, loaded, touched, acts>>

NoData == [kind |-> "none"]
Saved(data, rest) == [kind |-> "draft", data |-> data, rest |-> rest]

\* An amount not typed; one that is suggested may be 0.
Unset == 0 - 1

Sides == {"out", "in"}
Other(side) == IF side = "out" THEN "in" ELSE "out"

\* A format is one the account was given for the currency.
TransferLegs == {leg \in [account : Maybe(Accounts), currency : Maybe(Currencies), format : Maybe(Formats),
                  amount : Nat \cup {Unset}, pending : BOOLEAN] :
           /\ leg.account = "" => leg.currency = ""
           /\ leg.currency = "" => leg.format = ""
           /\ leg.format # "" => PairTakes(leg.account, leg.currency, leg.format)}
Fees == {fee \in [on : BOOLEAN, mode : {"PERCENT", "FIXED"}, value : Nat,
                  treatment : {"APARTE", "INCLUIDA"}, payer : {"CLIENTE_PAGA", "NOSOTROS_PAGAMOS"},
                  pending : BOOLEAN, currency : Maybe(Currencies), account : Maybe(Accounts),
                  format : Maybe(Formats)] : fee.treatment = "INCLUIDA" => ~fee.pending}
Drafts == [legs : [Sides -> TransferLegs], fee : Fees, rate : Nat, mode : {"MULTIPLY", "DIVIDE"}]

\* The fee of a draft is in the currency of an outgoing leg that has its format; at
\* rest it goes through the account of that leg.
FeeOfOut(d) ==
    d.fee.on /\ d.fee.currency = d.legs["out"].currency /\ d.legs["out"].format # ""
FeeIsAtHome(d) ==
    FeeOfOut(d) => /\ d.fee.account = d.legs["out"].account
                   /\ d.fee.format = d.legs["out"].format

\* What the constants must satisfy.
ConstantsAreFit ==
    /\ FormLegsAssumption /\ QuoteAmountsAssumption
    /\ Functional \in Currencies
    /\ FeeValues \cup Rates \subseteq Nat \ {0}
    /\ Stored \subseteq Drafts
    /\ MaxActs \in Nat /\ MaxAsked \in Nat \ {0} /\ Passes \in Nat \ {0}

BlankLeg == [account |-> "", currency |-> "", format |-> "", amount |-> Unset, pending |-> FALSE]
BlankFee == [on |-> FALSE, mode |-> "PERCENT", value |-> 0, treatment |-> "APARTE",
             payer |-> "CLIENTE_PAGA", pending |-> FALSE,
             currency |-> "", account |-> "", format |-> ""]

\* What the form shows: a draft; which leg is filled in first; edited, the second
\* amount is the user's; and what arrived of the currencies.
Blank == [legs |-> [side \in Sides |-> BlankLeg], fee |-> BlankFee, rate |-> 0, mode |-> "MULTIPLY",
          first |-> "out", edited |-> FALSE, functional |-> "", fx |-> TRUE,
          lists |-> [a \in Accounts |-> "absent"], asked |-> [a \in Accounts |-> 0]]

----------------------------------------------------------------------------
(* What the form derives                                                   *)

Sum(f) == f.legs[f.first].amount
Second(f) == Other(f.first)
CurrencyOf(f, side) == f.legs[side].currency

\* The list of an account as FormLegs takes it: "" without one.
List(f, account) == IF account # "" /\ f.lists[account] = "here" THEN account ELSE ""
formatsFor(f, account, currency) == AllowedFormats(List(f, account), currency)
FirstFormat(formats) ==
    IF formats = {} THEN "" ELSE IF "CASH" \in formats THEN "CASH" ELSE "DIGITAL"

feeLegCurrencyOptions(f) ==
    UNION {Shown(List(f, a)) : a \in {f.legs["out"].account, f.legs["in"].account, f.fee.account}}

SameCurrency(f) == CurrencyOf(f, "out") # "" /\ CurrencyOf(f, "out") = CurrencyOf(f, "in")

\* The legs cross the functional currency, once it is known.
needsFxQuote(f) ==
    /\ "" \notin {CurrencyOf(f, side) : side \in Sides} /\ ~SameCurrency(f)
    /\ f.functional # "" /\ f.functional \in {CurrencyOf(f, side) : side \in Sides}

\* The leg whose account and format the fee takes, the outgoing one before.
FeeSides(f) == {side \in Sides : f.fee.currency # "" /\ f.fee.currency = CurrencyOf(f, side)}
feeAccountDerivesFromLeg(f) == FeeSides(f) # {}
Abs(amount) == IF amount = Unset THEN 0 ELSE amount
PercentOf(amount, value) == RoundedByClient(amount, value, 100)

\* A percentage is taken of the outgoing leg if the fee is in its currency.
expectedFee(f) ==
    IF ~f.fee.on THEN 0
    ELSE IF f.fee.mode = "FIXED" THEN f.fee.value
    ELSE PercentOf(Abs(f.legs[IF f.fee.currency = CurrencyOf(f, "out") THEN "out" ELSE "in"].amount),
                   f.fee.value)

----------------------------------------------------------------------------
(* Suggested amounts                                                       *)

\* For the suggestion a percentage in the currency of the first leg is taken of it.
FeeForSuggestion(f) ==
    IF /\ f.fee.on /\ f.fee.treatment = "APARTE" /\ f.fee.mode = "PERCENT" /\ f.fee.value > 0
       /\ f.fee.currency # "" /\ f.fee.currency = CurrencyOf(f, f.first)
    THEN PercentOf(Sum(f), f.fee.value)
    ELSE expectedFee(f)

FeeInBothLegs(f) == FeeSides(f) = Sides

computeSuggestedSecondLegAmount(f) ==
    LET fee == FeeForSuggestion(f)
    IN IF ~f.fee.on \/ f.fee.treatment = "INCLUIDA" \/ (f.fee.pending /\ FeeInBothLegs(f))
       THEN Sum(f)
       ELSE IF f.fee.pending THEN Sum(f) + fee
       ELSE IF f.fee.payer = "NOSOTROS_PAGAMOS" THEN Sum(f)
       ELSE IF f.first = "in" THEN Sum(f) + fee
       ELSE IF Sum(f) > fee THEN Sum(f) - fee ELSE 0

\* Mutant of computeCounterpartFromAnchor: the mode is not inverted.
CounterpartOneWay(f) == calculateEquivalent(Sum(f), f.rate, f.mode)

\* The quote goes from the traded currency to the functional one.
computeCounterpartFromAnchor(f) ==
    calculateEquivalent(Sum(f), f.rate,
        IF CurrencyOf(f, f.first) = f.functional THEN InverseMode(f.mode) ELSE f.mode)

----------------------------------------------------------------------------
(* Effects: what f shows, written over g                                   *)

\* An included fee is never pending.
IncludedIsReal(f, g) ==
    IF f.fee.treatment = "INCLUIDA" /\ f.fee.pending THEN [g EXCEPT !.fee.pending = FALSE] ELSE g

Ready(leg) == leg.account # "" /\ leg.format # ""

\* Mutant of FollowLeg: an account the fee has already stays.
FollowLegOnce(f, g) ==
    LET sides == {side \in FeeSides(f) : Ready(f.legs[side])}
        leg == f.legs[IF "out" \in sides THEN "out" ELSE "in"]
    IN IF ~f.fee.on \/ sides = {} \/ f.fee.account # "" THEN g
       ELSE [g EXCEPT !.fee.account = leg.account, !.fee.format = leg.format]

\* The fee takes the account and the format of a leg in its currency.
FollowLeg(f, g) ==
    LET sides == {side \in FeeSides(f) : Ready(f.legs[side])}
        leg == f.legs[IF "out" \in sides THEN "out" ELSE "in"]
    IN IF ~f.fee.on \/ sides = {} THEN g
       ELSE [g EXCEPT !.fee.account = leg.account, !.fee.format = leg.format]

\* A fee in a currency its account is not known to have loses it.
DropCurrency(f, g) ==
    IF /\ f.fee.account # "" /\ f.fee.currency # ""
       /\ f.fee.currency \notin Shown(List(f, f.fee.account))
    THEN [g EXCEPT !.fee.currency = "", !.fee.format = ""] ELSE g

\* Mutant of Suggests: the amount the user typed is replaced as well.
SuggestsAlways(f) == Sum(f) > 0

Suggests(f) == ~f.edited /\ Sum(f) > 0

\* The second amount, from the quote or from the first amount and the fee.
SuggestByQuote(f, g) ==
    IF Suggests(f) /\ needsFxQuote(f) /\ f.rate > 0
    THEN [g EXCEPT !.legs[Second(f)].amount = computeCounterpartFromAnchor(f)] ELSE g

SuggestByFee(f, g) ==
    IF Suggests(f) /\ SameCurrency(f)
    THEN [g EXCEPT !.legs[Second(f)].amount = computeSuggestedSecondLegAmount(f)] ELSE g

\* A fee without a currency takes that of the first leg.
DefaultCurrency(f, g) ==
    LET currency == CurrencyOf(f, f.first)
        side == IF currency = CurrencyOf(f, "out") /\ f.legs["out"].account # "" THEN "out" ELSE "in"
    IN IF ~f.fee.on \/ f.fee.currency # "" \/ currency \notin feeLegCurrencyOptions(f) THEN g
       ELSE [g EXCEPT !.fee.currency = currency,
                      !.fee.format = FirstFormat(formatsFor(f, f.legs[side].account, currency))]

Places(f) == {f.legs["out"].account, f.legs["in"].account, f.fee.account} \ {""}

\* The accounts without a list are asked for, those under way once more.
Asking(f, g) ==
    [g EXCEPT !.asked = [a \in Accounts |->
        IF a \in Places(f) /\ f.lists[a] = "absent" /\ f.asked[a] < MaxAsked
        THEN f.asked[a] + 1 ELSE f.asked[a]]]

\* One pass; lists are asked for when an account changed.
Pass(old, f) ==
    LET g == DefaultCurrency(f, SuggestByFee(f, SuggestByQuote(f,
                 DropCurrency(f, FollowLeg(f, IncludedIsReal(f, f))))))
    IN IF <<old.legs["out"].account, old.legs["in"].account, old.fee.account>>
            = <<f.legs["out"].account, f.legs["in"].account, f.fee.account>>
       THEN g ELSE Asking(f, g)

\* The form after an input or an answer turned old into new, and the passes; when
\* they do not end the next input finds it in one of two states.
Rendered(old, new) ==
    LET pass[n \in 0..(Passes + 1)] ==
            IF n = 0 THEN {<<old, new>>} ELSE {<<p[2], Pass(p[1], p[2])>> : p \in pass[n - 1]}
    IN {p[2] : p \in pass[Passes] \cup pass[Passes + 1]}

\* The passes never end.
Stuck(f) == Pass(f, f) # f

----------------------------------------------------------------------------
(* Inputs                                                                  *)

\* Another account takes currency and format away, a currency brings its first format.
LegsFor(f, side) ==
    LET leg == f.legs[side]
    IN {[leg EXCEPT !.account = a, !.currency = "", !.format = ""] :
            a \in Maybe(Accounts) \ {leg.account}}
         \cup {[leg EXCEPT !.currency = c, !.format = FirstFormat(formatsFor(f, leg.account, c))] :
                 c \in Maybe(Shown(List(f, leg.account))) \ {leg.currency}}
         \cup (IF leg.account = "" \/ leg.currency = "" THEN {}
               ELSE {[leg EXCEPT !.format = x] :
                       x \in Maybe(formatsFor(f, leg.account, leg.currency)) \ {leg.format}})
         \cup {[leg EXCEPT !.pending = ~@]}

\* The second amount is the user's once typed, and a suggestion again once the first is.
LegAmounts(f, side) ==
    {[f EXCEPT !.legs[side].amount = x, !.edited = side # f.first] :
        x \in Amounts \cup {Unset}} \ {f}

Quotes(f) ==
    IF ~needsFxQuote(f) THEN {}
    ELSE {[f EXCEPT !.rate = r, !.edited = FALSE] : r \in (Rates \cup {0}) \ {f.rate}}
           \cup {[f EXCEPT !.mode = InverseMode(@), !.edited = FALSE]}

FeeAccounts(f) ==
    IF feeAccountDerivesFromLeg(f) THEN {}
    ELSE {[f EXCEPT !.fee = IF f.fee.currency \in Shown(List(f, a)) THEN [@ EXCEPT !.account = a]
                            ELSE [@ EXCEPT !.account = a, !.currency = "", !.format = ""],
                    !.edited = FALSE] : a \in Maybe(Accounts) \ {f.fee.account}}

FeeCurrencies(f) ==
    LET accountFor(c) == IF c = CurrencyOf(f, "out") THEN f.legs["out"].account
                         ELSE IF c = CurrencyOf(f, "in") THEN f.legs["in"].account
                         ELSE f.fee.account
    IN IF feeLegCurrencyOptions(f) = {} THEN {}
       ELSE {[f EXCEPT !.fee.currency = c, !.fee.format = FirstFormat(formatsFor(f, accountFor(c), c)),
                       !.edited = FALSE] :
               c \in Maybe(feeLegCurrencyOptions(f)) \ {f.fee.currency}}

FeeFormats(f) ==
    IF f.fee.account = "" \/ f.fee.currency = "" \/ feeAccountDerivesFromLeg(f) THEN {}
    ELSE {[f EXCEPT !.fee.format = x, !.edited = FALSE] :
            x \in Maybe(formatsFor(f, f.fee.account, f.fee.currency)) \ {f.fee.format}}

\* Who pays is the one setting that leaves a typed second amount alone.
FeeSettings(f) ==
    {[f EXCEPT !.fee.payer = p] : p \in {"CLIENTE_PAGA", "NOSOTROS_PAGAMOS"} \ {f.fee.payer}}
      \cup {[f EXCEPT !.fee.mode = m, !.edited = FALSE] : m \in {"PERCENT", "FIXED"} \ {f.fee.mode}}
      \cup {[f EXCEPT !.fee.treatment = t, !.edited = FALSE] :
               t \in {"APARTE", "INCLUIDA"} \ {f.fee.treatment}}
      \cup {[f EXCEPT !.fee.value = v, !.edited = FALSE] : v \in (FeeValues \cup {0}) \ {f.fee.value}}
      \cup (IF f.fee.treatment = "INCLUIDA" THEN {}
            ELSE {[f EXCEPT !.fee.pending = ~@, !.edited = FALSE]})

Inputs(f) ==
    (UNION {LegAmounts(f, side) \cup {[f EXCEPT !.legs[side] = leg] : leg \in LegsFor(f, side)} :
              side \in Sides})
      \cup {[f EXCEPT !.first = Other(@), !.edited = FALSE],
            [f EXCEPT !.fee.on = ~@, !.edited = FALSE]}
      \cup Quotes(f)
      \cup (IF f.fee.on THEN FeeAccounts(f) \cup FeeCurrencies(f) \cup FeeFormats(f) \cup FeeSettings(f)
            ELSE {})

----------------------------------------------------------------------------
(* Drafts and requests                                                     *)

\* The quote is kept while it is needed.
buildDraftData(f) ==
    [legs |-> f.legs, fee |-> f.fee,
     rate |-> IF needsFxQuote(f) THEN f.rate ELSE 0,
     mode |-> IF needsFxQuote(f) /\ f.rate > 0 THEN f.mode ELSE "MULTIPLY"]

\* A draft in place of what the form shows, its outgoing leg first; lists and currency stay.
WithDraft(f, d, edited) ==
    [f EXCEPT !.legs = d.legs, !.fee = d.fee, !.rate = d.rate, !.mode = d.mode,
              !.first = "out", !.edited = edited]

\* Mutant of Restored: the second amount of a draft is a suggestion again.
RestoredUnedited(f, d) == WithDraft(f, d, FALSE)

\* The second amount of a draft is the user's if both are there and differ.
TwoAmounts(d) ==
    /\ d.legs["out"].amount # d.legs["in"].amount
    /\ \A side \in Sides : d.legs[side].amount # Unset
Restored(f, d) == WithDraft(f, d, TwoAmounts(d))

\* Limpiar.
Cleared(f) == WithDraft(f, Blank, FALSE)

SameLeg(f) == [f.legs["out"] EXCEPT !.amount = 0, !.pending = FALSE]
                = [f.legs["in"] EXCEPT !.amount = 0, !.pending = FALSE]

\* What is left of the outgoing amount with an included fee.
includedNetAmount(f) == Abs(f.legs["out"].amount) - expectedFee(f)

FeeSubmits(f) ==
    /\ f.fee.treatment = "INCLUIDA" => ~f.fee.pending /\ includedNetAmount(f) > 0
    /\ feeAccountDerivesFromLeg(f) \/ f.fee.account # ""
    /\ f.fee.currency # "" /\ f.fee.format # ""
    /\ f.fee.mode = "PERCENT" => feeAccountDerivesFromLeg(f)

\* The checks before the request.
Submits(f) ==
    /\ \A side \in Sides : /\ f.legs[side].account # "" /\ f.legs[side].currency # ""
                           /\ f.legs[side].format # "" /\ f.legs[side].amount > 0
    /\ ~SameLeg(f)
    /\ needsFxQuote(f) => f.rate > 0
    /\ f.fee.on => FeeSubmits(f)

\* What is sent, and the fee the screen announces.
Request(f) ==
    [legs |-> f.legs, fee |-> f.fee, quoted |-> needsFxQuote(f), functional |-> f.functional,
     rate |-> f.rate, mode |-> f.mode, shown |-> expectedFee(f)]

\* The fee the server books, in hundredths of a cent.
Booked(r) ==
    IF ~r.fee.on THEN 0
    ELSE IF r.fee.mode = "FIXED" THEN 100 * r.fee.value
    ELSE r.fee.value * r.legs[IF r.fee.currency = r.legs["in"].currency THEN "in" ELSE "out"].amount

\* The leg in the traded currency.
Traded(r) == IF r.legs["out"].currency = Functional THEN "in" ELSE "out"

\* The quote squares the amount traded with the functional one.
CrossAccepts(r) ==
    r.legs["out"].currency # r.legs["in"].currency =>
        /\ r.quoted /\ r.rate > 0 /\ r.functional = Functional
        /\ r.legs[Other(Traded(r))].currency = Functional
        /\ CuadreOk(r.legs[Traded(r)].amount, r.legs[Other(Traded(r))].amount, r.rate, r.mode)

\* A blank account or format of the fee is that of a leg in its currency.
FeeAccepts(r) ==
    LET sides == {side \in Sides : r.legs[side].currency = r.fee.currency}
        leg == r.legs[IF "out" \in sides THEN "out" ELSE "in"]
        derived == r.fee.account = "" /\ sides # {}
        account == IF derived THEN leg.account ELSE r.fee.account
        format == IF derived /\ r.fee.format = "" THEN leg.format ELSE r.fee.format
    IN /\ r.fee.currency # "" /\ account # "" /\ format # ""
       /\ PairTakes(account, r.fee.currency, format)
       /\ r.fee.mode = "PERCENT" /\ r.fee.value > 0 => sides # {}

Accepts(r) ==
    /\ \A side \in Sides : /\ r.legs[side].amount > 0
                           /\ PairTakes(r.legs[side].account, r.legs[side].currency, r.legs[side].format)
    /\ ~SameLeg(r)
    /\ ~(r.fee.treatment = "INCLUIDA" /\ r.fee.pending)
    /\ CrossAccepts(r)
    /\ r.fee.on => FeeAccepts(r)

----------------------------------------------------------------------------
(* State                                                                   *)

\* Nothing to wait for, and the lists of the accounts shown arrived.
AtRest ==
    /\ load = "none" /\ ~form.fx /\ form.functional # "" /\ ~Stuck(form)
    /\ \A a \in Places(form) : form.lists[a] = "here"
    /\ \A a \in Accounts : form.asked[a] = 0

BlockMain == saving # NoData \/ sending # NoData \/ load # "none"
BlockClear == saving # NoData \/ sending # NoData

TypeOK ==
    /\ load \in {"none", "first", "retry"}
    /\ DOMAIN form = DOMAIN Blank
    /\ \A side \in Sides :
          LET leg == form.legs[side]
          IN /\ leg.account \in Maybe(Accounts) /\ leg.format \in Maybe(Formats)
             /\ leg.currency \in Maybe(Currencies) /\ leg.amount \in Nat \cup {Unset}
             /\ leg.account = "" => leg.currency = ""
             /\ leg.currency = "" => leg.format = ""
    /\ form.fee.treatment = "INCLUIDA" => ~form.fee.pending
    /\ form.asked \in [Accounts -> 0..MaxAsked]
    /\ server.status \in {"BORRADOR", "CONFIRMADA"}
    /\ acts \in 0..MaxActs

Init ==
    /\ form = Blank
    /\ load = "first" /\ saving = NoData /\ sending = NoData
    /\ server \in [status : {"BORRADOR"},
                   draft : {NoData} \cup {Saved(d, FeeIsAtHome(d)) : d \in Stored}]
    /\ cache = NoData /\ local = NoData /\ loaded = NoData /\ touched = FALSE
    /\ acts = 0

----------------------------------------------------------------------------
(* The form                                                                *)

Act == acts < MaxActs /\ acts' = acts + 1
\* A failure counts as an act; it is one outcome of every request.
Outcome(ok) == IF ok THEN acts' = acts ELSE Act

Render(new) == form' \in Rendered(form, new)

\* One input; fields are open even while the draft loads.
Edit ==
    /\ Act
    /\ loaded' = NoData /\ touched' = TRUE
    /\ UNCHANGED <<load, saving, sending, server, cache, local>>
    /\ \E new \in Inputs(form) : Render(new)

\* Limpiar: the copy in localStorage goes, the drafts of the tab and the server stay.
Clear ==
    /\ Act /\ ~BlockClear
    /\ local' = NoData /\ loaded' = NoData /\ touched' = TRUE
    /\ UNCHANGED <<load, saving, sending, server, cache>>
    /\ Render(Cleared(form))

\* The list of an account, or none for good; accounts still without one are asked again.
AnswerList(a, ok) ==
    /\ form.asked[a] > 0
    /\ Outcome(ok)
    /\ UNCHANGED <<load, saving, sending, server, cache, local, loaded, touched>>
    /\ LET new == [form EXCEPT !.asked[a] = @ - 1, !.lists[a] = IF ok THEN "here" ELSE "failed"]
       IN Render(Asking(new, new))

\* The functional currency; without the list of currencies there is none.
AnswerFunctional(ok) ==
    /\ form.fx
    /\ Outcome(ok)
    /\ UNCHANGED <<load, saving, sending, server, cache, local, loaded, touched>>
    /\ Render([form EXCEPT !.fx = FALSE, !.functional = IF ok THEN Functional ELSE ""])

\* The form closes and opens again, in this tab or in another one.
Reopen ==
    /\ Act
    /\ form' = Blank /\ load' = "first" /\ loaded' = NoData /\ touched' = FALSE
    /\ cache' \in {cache, NoData}
    /\ UNCHANGED <<saving, sending, server, local>>

----------------------------------------------------------------------------
(* Loading, saving and sending                                             *)

\* Twice without a draft of the server: the one of the tab, else that of the browser.
LoadFails ==
    LET found == IF cache # NoData THEN cache ELSE local
    IN /\ UNCHANGED <<cache, loaded>>
       /\ IF load = "first" THEN load' = "retry" /\ UNCHANGED <<form, local>>
          ELSE /\ load' = "none" /\ local' = found
               /\ IF found = NoData THEN UNCHANGED form ELSE Render(Restored(form, found.data))

\* The draft of the server: whatever the form shows by then is replaced.
LoadDraft ==
    /\ load' = "none"
    /\ cache' = server.draft /\ local' = server.draft /\ loaded' = server.draft
    /\ Render(Restored(form, server.draft.data))

AnswerLoad(ok) ==
    /\ load # "none"
    /\ Outcome(ok)
    /\ IF ok /\ server.draft # NoData THEN LoadDraft ELSE LoadFails
    /\ UNCHANGED <<saving, sending, server, touched>>

\* Guardar borrador.
SaveDraft ==
    /\ Act /\ ~BlockMain
    /\ saving' = Saved(buildDraftData(form), AtRest)
    /\ UNCHANGED <<form, load, sending, server, cache, local, loaded, touched>>

\* A draft is stored while the movement is one; both copies follow the answer.
AnswerSave(ok) ==
    /\ saving # NoData
    /\ Outcome(ok)
    /\ saving' = NoData
    /\ \/ /\ server.status = "BORRADOR"
          /\ server' = [server EXCEPT !.draft = saving]
          /\ cache' = (IF ok THEN saving ELSE cache) /\ local' = (IF ok THEN saving ELSE local)
       \/ /\ ~ok \/ server.status # "BORRADOR"
          /\ UNCHANGED <<server, cache, local>>
    /\ UNCHANGED <<form, load, sending, loaded, touched>>

\* At rest, with suggested amounts across currencies, one of them the functional one
\* (the form sends two others without a quote), and a fee format its select shows.
Fair ==
    /\ AtRest
    /\ SameCurrency(form) \/ needsFxQuote(form)
    /\ needsFxQuote(form) => ~form.edited
    /\ form.fee.on /\ ~feeAccountDerivesFromLeg(form) =>
          form.fee.format \in formatsFor(form, form.fee.account, form.fee.currency)

\* Guardar, once the form is valid.
Submit ==
    /\ Act /\ ~BlockMain /\ Submits(form)
    /\ sending' = [kind |-> "request", body |-> Request(form), fair |-> Fair]
    /\ UNCHANGED <<form, load, saving, server, cache, local, loaded, touched>>

\* The server executes a draft once; a good answer drops the copy of the browser.
AnswerSubmit(ok) ==
    /\ sending # NoData
    /\ Outcome(ok)
    /\ sending' = NoData
    /\ \/ /\ server.status = "BORRADOR" /\ Accepts(sending.body)
          /\ server' = [server EXCEPT !.status = "CONFIRMADA"]
          /\ local' = IF ok THEN NoData ELSE local
       \/ /\ ~ok \/ server.status # "BORRADOR" \/ ~Accepts(sending.body)
          /\ UNCHANGED <<server, local>>
    /\ UNCHANGED <<form, load, saving, cache, loaded, touched>>

Answers ==
    \/ \E a \in Accounts, ok \in BOOLEAN : AnswerList(a, ok)
    \/ \E ok \in BOOLEAN : \/ AnswerFunctional(ok) \/ AnswerLoad(ok)
                          \/ AnswerSave(ok) \/ AnswerSubmit(ok)

Next == Edit \/ Clear \/ Reopen \/ SaveDraft \/ Submit \/ Answers

Spec == Init /\ [][Next]_vars

----------------------------------------------------------------------------
(* Properties                                                              *)

\* The effects of the form feed each other: they come to rest after every input
\* and every answer, as soon as the lists of the accounts shown are there, the
\* first leg has its format and a percentage is in the currency of a leg.  Until
\* then the currency of the fee may come and go, or a suggestion and the
\* percentage taken of it may chase each other.
EffectsComeToRest ==
    Stuck(form) =>
        /\ form.fee.on
        /\ \/ form.legs[form.first].format = ""
           \/ \E a \in Places(form) : form.lists[a] # "here"
           \/ form.fee.mode = "PERCENT" /\ ~feeAccountDerivesFromLeg(form)

\* The screen comes to rest, and on the way no leg keeps a currency or a format its
\* account was not given, nor an included fee its tick.
ScreenComesToRest == TypeOK /\ EffectsComeToRest

\* The amounts at which the suggestion and the service part.
MissesHalfCent(r) ==
    r.quoted /\ HalfCentMissed(r.legs[Traded(r)].amount, r.legs[Other(Traded(r))].amount, r.rate, r.mode)

\* A transfer at rest whose second amount is a suggestion is one the server
\* accepts: the amounts square at the quote and the fee goes through an account
\* that takes it, unless the suggestion missed a half cent.
SentIsAccepted ==
    sending # NoData /\ sending.fair => Accepts(sending.body) \/ MissesHalfCent(sending.body)

\* The fee the screen announces is the one booked, to the cent and at a missed half
\* cent too; the two take a percentage of different legs when both are in the
\* currency of the fee.
FeeShownIsBooked ==
    sending # NoData /\ sending.fair
      /\ sending.body.legs["out"].currency # sending.body.legs["in"].currency =>
        2 * (100 * sending.body.shown - Booked(sending.body)) \in -100..100

\* What is sent is accepted, but for a missed half cent, and booked with the fee the
\* screen announced.
SentIsAsShown == SentIsAccepted /\ FeeShownIsBooked

SameButAmounts(d, e) ==
    \A side \in Sides : [d.legs[side] EXCEPT !.amount = 0] = [e.legs[side] EXCEPT !.amount = 0]

\* A draft saved at rest comes back as it was, once the form is at rest again
\* and nobody touched it: its legs, its quote, amounts that differ, and a fee in
\* the currency of an outgoing leg that has its format.
DraftComesBack ==
    loaded # NoData /\ loaded.rest /\ ~touched /\ AtRest =>
        LET d == loaded.data
        IN /\ SameButAmounts(d, form)
           /\ form.rate = d.rate /\ form.mode = d.mode
           /\ TwoAmounts(d) => form.legs = d.legs
           /\ FeeOfOut(d) => form.fee = d.fee

KeepsTyped ==
    acts' = acts /\ load' = load =>
        /\ form'.legs[form.first].amount = Sum(form)
        /\ form.edited => form'.legs = form.legs

\* No answer changes the first amount, nor the second one once the user typed it.
TypedAmountsStay == [][KeepsTyped]_vars
=============================================================================
