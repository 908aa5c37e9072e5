------------------------------ MODULE MCForms ------------------------------
(***************************************************************************)
(* An instance for TLC of the ten operation forms of the web client.       *)
(***************************************************************************)
EXTENDS Forms

----------------------------------------------------------------------------
(* The nine forms: the till takes cash in both currencies and transfers in *)
(* pesos, the bank takes pesos and dollars by transfer only.               *)

MCOffers ==
    [p \in Accounts \X Currencies |->
        CASE p = <<"caja", "usd">> -> {"CASH"}
          [] p = <<"caja", "ars">> -> {"CASH", "DIGITAL"}
          [] OTHER -> {"DIGITAL"}]

MCLeg(account, currency, format, amount) ==
    [EmptyLeg EXCEPT !.account = account, !.currency = currency,
                     !.format = format, !.amount = amount]

MCLine(account, format, amount) ==
    [BlankLine(0) EXCEPT !.account = account, !.format = format, !.amount = amount]

\* 2.01 / 2 is 1.005, which the forms round to 1.00 in doubles.
MCShortOfHalf == {<<201, 10, 20>>}

\* One line filled in by the form, and two typed by the user.
MCQuotes ==
    LET one == [VentaBlank EXCEPT !.legs = <<MCLeg("caja", "usd", "CASH", 201)>>,
                    !.rate = 20, !.quote = "ars", !.lines = <<MCLine("bank", "DIGITAL", 402)>>]
    IN {one, [one EXCEPT !.first = "MANUAL",
                         !.lines = <<MCLine("bank", "DIGITAL", 201),
                                     [MCLine("caja", "CASH", 201) EXCEPT !.pending = TRUE]>>]}

\* A line typed by the user, worth half a cent more than the leg.
MCHalfCent ==
    [VentaBlank EXCEPT !.legs = <<MCLeg("caja", "usd", "CASH", 100)>>, !.rate = 20, !.quote = "ars",
                       !.lines = <<MCLine("bank", "DIGITAL", 201)>>, !.first = "MANUAL"]

MCCapital == {[CapitalBlank EXCEPT !.legs = <<MCLeg("caja", "ars", "DIGITAL", 201)>>, !.note = TRUE]}

MCStored ==
    [k \in Kinds |->
        CASE k = "VENTA" -> MCQuotes
          [] k = "COMPRA" -> {MCHalfCent}
          [] k \in {"INGRESO_CAPITAL", "RETIRO_CAPITAL", "GASTO"} -> MCCapital
          [] k = "PAGO_CC_CRUZADO" ->
                {[PagoBlank EXCEPT !.legs = <<MCLeg("caja", "ars", "CASH", 201)>>,
                                   !.debt = "ars", !.cancel = 201]}
          [] k = "TRASPASO_DEUDA_CC" ->
                {[TraspasoBlank EXCEPT !.client = "bea", !.currency = "usd", !.amount = 201]}
          [] k = "TRANSFERENCIA_ENTRE_CUENTAS" ->
                {[CuentasBlank EXCEPT !.legs = <<MCLeg("caja", "ars", "CASH", 201),
                                                 MCLeg("bank", "", "DIGITAL", 0)>>]}
          [] k = "ARBITRAJE" ->
                {[ArbitrajeBlank EXCEPT
                    !.legs = <<MCLeg("caja", "usd", "CASH", 201), MCLeg("bank", "ars", "DIGITAL", 402),
                               MCLeg("caja", "ars", "CASH", 201)>>,
                    !.clients = TRUE]}]

\* Shorter runs for the forms that repeat another one, and for the arbitrage, which
\* has three legs.
MCActs ==
    [k \in Kinds |-> IF k \in {"COMPRA", "ARBITRAJE", "RETIRO_CAPITAL", "GASTO"} THEN 2 ELSE 3]

----------------------------------------------------------------------------
(* The transfer: the bank takes pesos only.                                *)

MCTransferOffers ==
    [p \in Accounts \X Currencies |->
        IF p = <<"bank", "usd">> THEN {} ELSE MCOffers[p]]

\* 10.03 / 2 and half of 10.03 are 5.015, which the form rounds to 5.01 in doubles; and the
\* other amounts a run may meet.
MCTransferShortOfHalf ==
    UNION {{<<amount, 10, 20>>, <<amount, 50, 100>>} : amount \in {477, 903, 953, 1003, 1965}}

\* Pesos from the till to the bank, with a fee aside and a second amount of the
\* user's, once with the format of the till still to choose; dollars against pesos at
\* a quote, with a fee in one currency or the other.
MCTransferStored ==
    LET leg(account, currency, format, amount) ==
            [account |-> account, currency |-> currency, format |-> format,
             amount |-> amount, pending |-> FALSE]
        fee(mode, value, account, currency, format) ==
            [on |-> TRUE, mode |-> mode, value |-> value, treatment |-> "APARTE",
             payer |-> "CLIENTE_PAGA", pending |-> FALSE,
             currency |-> currency, account |-> account, format |-> format]
        draft(out, in, f, rate) ==
            [legs |-> [out |-> out, in |-> in], fee |-> f, rate |-> rate, mode |-> "MULTIPLY"]
        bank(amount) == leg("bank", "ars", "DIGITAL", amount)
        till == leg("caja", "usd", "CASH", 1003)
    IN {draft(leg("caja", "ars", "CASH", 2006), bank(800), fee("PERCENT", 50, "caja", "ars", "CASH"), 0),
        draft(till, bank(2006), fee("FIXED", 1, "caja", "usd", "CASH"), 20),
        draft(leg("caja", "ars", "", 2006), bank(2005), fee("FIXED", 1, "caja", "ars", "DIGITAL"), 0),
        draft(till, bank(2006), fee("PERCENT", 50, "bank", "ars", "DIGITAL"), 20)}
=============================================================================
