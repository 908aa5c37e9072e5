------------------------------ MODULE FormLegs ------------------------------
(***************************************************************************)
(* The legs the operation forms of the web client are made of              *)
(* (components/operations/*.tsx): an account, a currency, a format, an     *)
(* amount, a pending tick, and the list of currencies of an account that   *)
(* the form last received.                                                 *)
(*                                                                         *)
(* A form has legs, which choose a currency, and lines, whose currency is  *)
(* that of the quote.  The operators are pure: what a user may do to a leg *)
(* is the set of legs it may become.  An amount is a number of cents, 0    *)
(* when the field is empty; an account or a currency is "" when none is    *)
(* chosen.                                                                 *)
(***************************************************************************)
EXTENDS Naturals, Sequences, SequencesExt

CONSTANTS Accounts, Currencies,
          Offers,    \* formats enabled for each account and currency
          Amounts    \* what a user may type as an amount, in cents

ASSUME FormLegsAssumption ==
    /\ "" \notin Accounts \cup Currencies
    /\ Offers \in [Accounts \X Currencies -> SUBSET {"CASH", "DIGITAL"}]
    /\ Amounts \subseteq Nat \ {0}

Maybe(S) == S \cup {""}
Typed == Amounts \cup {0}
Formats == {"CASH", "DIGITAL"}

\* list: the account whose currencies are shown; asked: those still to be answered.
EmptyLeg == [account |-> "", currency |-> "", format |-> "CASH", amount |-> 0,
             pending |-> FALSE, list |-> "", asked |-> {}]

Legs == [account : Maybe(Accounts), currency : Maybe(Currencies), format : Formats,
         amount : Nat, pending : BOOLEAN, list : Maybe(Accounts), asked : SUBSET Accounts]

\* What a leg stores in a draft, and what a draft gives it back.
Kept(leg) == [leg EXCEPT !.list = "", !.asked = {}]
Refilled(leg, kept) == [kept EXCEPT !.list = leg.list, !.asked = leg.asked]

----------------------------------------------------------------------------
(* Formats                                                                 *)

\* The formats of a currency in the list shown, none when it is not there.
AllowedFormats(list, currency) ==
    IF list = "" \/ currency = "" THEN {} ELSE Offers[list, currency]

Shown(list) == {c \in Currencies : AllowedFormats(list, c) # {}}

\* Mutant of ResolveFormat: the first format of the pair, whatever the current one.
ResolveToFirst(allowed, current) == IF "CASH" \in allowed THEN "CASH" ELSE "DIGITAL"

\* The current format if it is allowed, else the first one that is.
ResolveFormat(allowed, current) ==
    IF current \in allowed THEN current
    ELSE IF "CASH" \in allowed THEN "CASH" ELSE "DIGITAL"

\* The effect that keeps the format of a leg among those allowed for a currency.
AlignedTo(leg, currency) ==
    LET allowed == AllowedFormats(leg.list, currency)
        next == ResolveFormat(allowed, leg.format)
    IN IF allowed = {} THEN leg
       ELSE [leg EXCEPT !.format = next, !.pending = @ /\ next = "CASH"]

Aligned(leg) == AlignedTo(leg, leg.currency)

----------------------------------------------------------------------------
(* Lists                                                                   *)

\* The effect of a changed account: its list is asked for.
ListAsked(old, new) ==
    IF new.account = old.account THEN new
    ELSE IF new.account = "" THEN [new EXCEPT !.list = ""]
    ELSE [new EXCEPT !.asked = @ \cup {new.account}]

\* The list of account a arrives, or its request fails: no guard on the account.
ListAnswered(leg, a, ok) ==
    [leg EXCEPT !.list = IF ok THEN a ELSE "", !.asked = @ \ {a}]

\* A line keeps what it has when the request fails.
LineListAnswered(line, a, ok) ==
    [line EXCEPT !.list = IF ok THEN a ELSE @, !.asked = @ \ {a}]

Bare(lines) == [i \in DOMAIN lines |-> [lines[i] EXCEPT !.asked = {}]]

\* The effect that asks for the list a line lacks, whenever lines or lists changed.
LineAsked(old, new, i) ==
    IF Bare(old) # Bare(new) /\ new[i].account # "" /\ new[i].list = ""
    THEN [new[i] EXCEPT !.asked = @ \cup {new[i].account}]
    ELSE new[i]

----------------------------------------------------------------------------
(* What a user may do to a leg                                             *)

\* Another account: the currency is chosen again.
AccountsFor(leg, accounts) ==
    {[leg EXCEPT !.account = a, !.currency = ""] : a \in Maybe(accounts) \ {leg.account}}

CurrenciesFor(leg, currencies) ==
    {[leg EXCEPT !.currency = c] : c \in Maybe(currencies) \ {leg.currency}}

FormatsFor(leg, currency) ==
    {[leg EXCEPT !.format = f, !.pending = @ /\ f = "CASH"] :
        f \in AllowedFormats(leg.list, currency) \ {leg.format}}

AmountsFor(leg) == {[leg EXCEPT !.amount = x] : x \in Typed \ {leg.amount}}

\* Delivery is left pending for cash only.
TicksFor(leg) == IF leg.format = "CASH" THEN {[leg EXCEPT !.pending = ~@]} ELSE {}

\* A leg with account, currency of that account, format and amount.
LegInputs(leg) ==
    AccountsFor(leg, Accounts) \cup CurrenciesFor(leg, Shown(leg.list))
      \cup FormatsFor(leg, leg.currency) \cup AmountsFor(leg)

----------------------------------------------------------------------------
(* The server's check of a leg, and sums                                   *)

\* ValidateAccountCurrencyFormat, over the accounts and currencies that are active.
PairTakes(account, currency, format) == format \in Offers[account, currency]

AmountsOf(lines) == [i \in DOMAIN lines |-> lines[i].amount]
Total(amounts) == FoldLeft(LAMBDA sum, amount : sum + amount, 0, amounts)
SumOf(lines) == Total(AmountsOf(lines))
=============================================================================
