---------------------------- MODULE QuoteAmounts ----------------------------
(***************************************************************************)
(* What an amount is worth at a quote, for the web client (utils/money.ts, *)
(* utils/fx.ts) and for the service (fx_quote_mode.go).                    *)
(*                                                                         *)
(* Both round half a cent away from zero, the service a fraction and the   *)
(* client a double.  A double errs by far less than what keeps a quotient  *)
(* from half a cent when it does not fall on it; when it does, the double  *)
(* may lie a little short: 2.01 / 2 is 1.005, and times 100 it is          *)
(* 100.49999999999999, a cent less than the service makes of it.  Which    *)
(* quotients these are depends on the digits of the operands and on the    *)
(* function that rounds, so they are a constant.                           *)
(***************************************************************************)
EXTENDS FormLegs

CONSTANTS RateUnit,      \* a rate of one: a rate counts decimals of it
          ShortOfHalf    \* <<amount, times, by>> whose quotient as a double lies below the exact one

ASSUME QuoteAmountsAssumption == RateUnit \in Nat \ {0}

InverseMode(mode) == IF mode = "MULTIPLY" THEN "DIVIDE" ELSE "MULTIPLY"

----------------------------------------------------------------------------
(* The service                                                             *)

\* amount * times / by to the cent, half away from zero.
Rounded(amount, times, by) == (2 * amount * times + by) \div (2 * by)

\* What an amount is worth at a rate; 0 when one of them is missing.
Equivalent(amount, rate, mode) ==
    IF amount = 0 \/ rate = 0 THEN 0
    ELSE IF mode = "DIVIDE" THEN Rounded(amount, RateUnit, rate)
    ELSE Rounded(amount, rate, RateUnit)

\* The amount a total is worth the other way.
ImpliedBase(total, rate, mode) == Equivalent(total, rate, InverseMode(mode))

\* The amounts square in one of the two directions.
CuadreOk(amount, total, rate, mode) ==
    \/ Equivalent(amount, rate, mode) = total
    \/ total > 0 /\ ImpliedBase(total, rate, mode) = amount

----------------------------------------------------------------------------
(* The client                                                              *)

\* The same, but that half a cent may be missed.
RoundedByClient(amount, times, by) ==
    (2 * amount * times + by - (IF <<amount, times, by>> \in ShortOfHalf THEN 1 ELSE 0)) \div (2 * by)

calculateEquivalent(amount, rate, mode) ==
    IF amount = 0 \/ rate = 0 THEN 0
    ELSE IF mode = "DIVIDE" THEN RoundedByClient(amount, RateUnit, rate)
    ELSE RoundedByClient(amount, rate, RateUnit)

impliedBaseFromQuoteTotal(total, rate, mode) == calculateEquivalent(total, rate, InverseMode(mode))

\* Before a sale or a purchase is sent.
CuadreOkForClient(amount, total, rate, mode) ==
    \/ calculateEquivalent(amount, rate, mode) = total
    \/ total > 0 /\ impliedBaseFromQuoteTotal(total, rate, mode) = amount

\* A half cent at which client and service part.
HalfCentMissed(amount, total, rate, mode) ==
    \/ calculateEquivalent(amount, rate, mode) # Equivalent(amount, rate, mode)
    \/ impliedBaseFromQuoteTotal(total, rate, mode) # ImpliedBase(total, rate, mode)
=============================================================================
