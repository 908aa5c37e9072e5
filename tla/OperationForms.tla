--------------------------- MODULE OperationForms ---------------------------
(***************************************************************************)
(* An operation form of the web client at work, against the server: its    *)
(* draft is loaded, edited, saved, cleared and sent, while the lists of    *)
(* the accounts arrive whenever they do.  The step common to the nine      *)
(* forms is here; what each form is made of is in QuoteForms, SimpleForms  *)
(* and ArbitrageForm.                                                      *)
(*                                                                         *)
(* One draft movement, of a type fixed at the start.  The list of accounts *)
(* and that of currencies are there from the start.  A request fails or is *)
(* answered; one that failed may have been carried out.                    *)
(***************************************************************************)
EXTENDS QuoteForms, SimpleForms, ArbitrageForm

CONSTANTS Kinds,     \* the types of operation
          Stored,    \* per kind, drafts a user saved before
          MaxActs    \* per kind, bound on what the user does and on the requests that fail

VARIABLES kind,
          form,     \* what the form shows
          load,     \* where the loading of the draft is
          saving,   \* the draft being sent, or NoData
          sending,  \* the operation being sent, or NoData
          server,   \* the stored draft and whether the operation was executed
          cache,    \* the draft in sessionStorage
          loaded,   \* history: the stored draft shown, while the user changes nothing
          touched,  \* history: the user changed something since the form opened
          acts      \* what the user did and the requests that failed so far

operationVars == <<kind, form, load, saving, sending, server, cache, loaded, touched, acts>>

\* What a form of each type, or its draft, may be.
FormOf(k) ==
    CASE k \in {"VENTA", "COMPRA"} -> {f \in QuoteForm : Len(f.lines) \in 1..MaxLines}
      [] k \in {"INGRESO_CAPITAL", "RETIRO_CAPITAL", "GASTO"} -> CapitalForm
      [] k = "PAGO_CC_CRUZADO" -> PagoForm
      [] k = "TRASPASO_DEUDA_CC" -> TraspasoForm
      [] k = "TRANSFERENCIA_ENTRE_CUENTAS" -> CuentasForm
      [] k = "ARBITRAJE" -> ArbitrajeForm

LegsOf(f) == {f.legs[i] : i \in DOMAIN f.legs}
LinesOf(f) == {f.lines[i] : i \in DOMAIN f.lines}

\* Only cash is left pending.
Ticked(f) == \A leg \in LegsOf(f) \cup LinesOf(f) : leg.pending => leg.format = "CASH"

ASSUME OperationFormsAssumption ==
    /\ Kinds \subseteq {"VENTA", "COMPRA", "INGRESO_CAPITAL", "RETIRO_CAPITAL", "GASTO",
                        "PAGO_CC_CRUZADO", "TRASPASO_DEUDA_CC", "TRANSFERENCIA_ENTRE_CUENTAS",
                        "ARBITRAJE"}
    /\ \A k \in Kinds : MaxActs[k] \in Nat /\ \A d \in Stored[k] : d \in FormOf(k) /\ Ticked(d)

\* The format is one the account has for a currency, if it has any.
Takes(leg, currency) ==
    \/ AllowedFormats(leg.account, currency) = {}
    \/ leg.format \in AllowedFormats(leg.account, currency)

\* The currency of a leg.
InCurrency(k, f, i) ==
    f.legs[IF k = "TRANSFERENCIA_ENTRE_CUENTAS" THEN 1 ELSE i].currency

\* A draft as one saved while no effect was pending: no list, no key, no timer; formats the
\* accounts have; and in a single automatic line the equivalent or nothing.
SavedAtRest(k, d) ==
    /\ \A i \in DOMAIN d.legs :
          /\ d.legs[i] = Kept(d.legs[i])
          /\ k # "RETIRO_CAPITAL" => Takes(d.legs[i], InCurrency(k, d, i))
    /\ k \in {"VENTA", "COMPRA"} =>
          /\ \A i \in DOMAIN d.lines :
                d.lines[i] = [Kept(d.lines[i]) EXCEPT !.key = 0] /\ Takes(d.lines[i], d.quote)
          /\ d.settled = 0
          /\ Len(d.lines) = 1 => /\ d.first = "AUTO" => d.lines[1].amount \in {0, Worth(d)}
                                 /\ d.lines[1].amount = 0 => d.first = "AUTO"

\* rest: it was saved when no effect was pending.
NoData == [kind |-> "none"]
Saved(data, rest) == [kind |-> "draft", data |-> data, rest |-> rest]

----------------------------------------------------------------------------
(* The form of each type                                                   *)

Blank ==
    CASE kind \in {"VENTA", "COMPRA"} -> IF kind = "VENTA" THEN VentaBlank ELSE CompraBlank
      [] kind \in {"INGRESO_CAPITAL", "RETIRO_CAPITAL", "GASTO"} -> CapitalBlank
      [] kind = "PAGO_CC_CRUZADO" -> PagoBlank
      [] kind = "TRASPASO_DEUDA_CC" -> TraspasoBlank
      [] kind = "TRANSFERENCIA_ENTRE_CUENTAS" -> CuentasBlank
      [] kind = "ARBITRAJE" -> ArbitrajeBlank

Rendered(old, new) ==
    CASE kind = "VENTA" -> VentaRendered(old, new)
      [] kind = "COMPRA" -> CompraRendered(old, new)
      [] kind = "INGRESO_CAPITAL" -> IngresoRendered(old, new)
      [] kind = "RETIRO_CAPITAL" -> RetiroRendered(old, new)
      [] kind = "GASTO" -> GastoRendered(old, new)
      [] kind = "PAGO_CC_CRUZADO" -> PagoRendered(old, new)
      [] kind = "TRASPASO_DEUDA_CC" -> TraspasoRendered(old, new)
      [] kind = "TRANSFERENCIA_ENTRE_CUENTAS" -> CuentasRendered(old, new)
      [] kind = "ARBITRAJE" -> ArbitrajeRendered(old, new)

Inputs(f) ==
    CASE kind = "VENTA" -> VentaInputs(f)
      [] kind = "COMPRA" -> CompraInputs(f)
      [] kind = "INGRESO_CAPITAL" -> IngresoInputs(f)
      [] kind = "RETIRO_CAPITAL" -> RetiroInputs(f)
      [] kind = "GASTO" -> GastoInputs(f)
      [] kind = "PAGO_CC_CRUZADO" -> PagoInputs(f)
      [] kind = "TRASPASO_DEUDA_CC" -> TraspasoInputs(f)
      [] kind = "TRANSFERENCIA_ENTRE_CUENTAS" -> CuentasInputs(f)
      [] kind = "ARBITRAJE" -> ArbitrajeInputs(f)

Data(f) ==
    CASE kind = "VENTA" -> VentaData(f)
      [] kind = "COMPRA" -> CompraData(f)
      [] kind = "INGRESO_CAPITAL" -> IngresoData(f)
      [] kind = "RETIRO_CAPITAL" -> RetiroData(f)
      [] kind = "GASTO" -> GastoData(f)
      [] kind = "PAGO_CC_CRUZADO" -> PagoData(f)
      [] kind = "TRASPASO_DEUDA_CC" -> TraspasoData(f)
      [] kind = "TRANSFERENCIA_ENTRE_CUENTAS" -> CuentasData(f)
      [] kind = "ARBITRAJE" -> ArbitrajeData(f)

Restored(f, d) ==
    CASE kind = "VENTA" -> VentaRestored(f, d)
      [] kind = "COMPRA" -> CompraRestored(f, d)
      [] kind = "INGRESO_CAPITAL" -> IngresoRestored(f, d)
      [] kind = "RETIRO_CAPITAL" -> RetiroRestored(f, d)
      [] kind = "GASTO" -> GastoRestored(f, d)
      [] kind = "PAGO_CC_CRUZADO" -> PagoRestored(f, d)
      [] kind = "TRASPASO_DEUDA_CC" -> TraspasoRestored(f, d)
      [] kind = "TRANSFERENCIA_ENTRE_CUENTAS" -> CuentasRestored(f, d)
      [] kind = "ARBITRAJE" -> ArbitrajeRestored(f, d)

Emptied(f) ==
    CASE kind = "VENTA" -> VentaCleared(f)
      [] kind = "COMPRA" -> CompraCleared(f)
      [] kind = "INGRESO_CAPITAL" -> IngresoCleared(f)
      [] kind = "RETIRO_CAPITAL" -> RetiroCleared(f)
      [] kind = "GASTO" -> GastoCleared(f)
      [] kind = "PAGO_CC_CRUZADO" -> PagoCleared(f)
      [] kind = "TRASPASO_DEUDA_CC" -> TraspasoCleared(f)
      [] kind = "TRANSFERENCIA_ENTRE_CUENTAS" -> CuentasCleared(f)
      [] kind = "ARBITRAJE" -> ArbitrajeCleared(f)

Submits(f) ==
    CASE kind = "VENTA" -> VentaSubmits(f)
      [] kind = "COMPRA" -> CompraSubmits(f)
      [] kind = "INGRESO_CAPITAL" -> IngresoSubmits(f)
      [] kind = "RETIRO_CAPITAL" -> RetiroSubmits(f)
      [] kind = "GASTO" -> GastoSubmits(f)
      [] kind = "PAGO_CC_CRUZADO" -> PagoSubmits(f)
      [] kind = "TRASPASO_DEUDA_CC" -> TraspasoSubmits(f)
      [] kind = "TRANSFERENCIA_ENTRE_CUENTAS" -> CuentasSubmits(f)
      [] kind = "ARBITRAJE" -> ArbitrajeSubmits(f)

Request(f) ==
    CASE kind = "VENTA" -> VentaRequest(f)
      [] kind = "COMPRA" -> CompraRequest(f)
      [] kind = "INGRESO_CAPITAL" -> IngresoRequest(f)
      [] kind = "RETIRO_CAPITAL" -> RetiroRequest(f)
      [] kind = "GASTO" -> GastoRequest(f)
      [] kind = "PAGO_CC_CRUZADO" -> PagoRequest(f)
      [] kind = "TRASPASO_DEUDA_CC" -> TraspasoRequest(f)
      [] kind = "TRANSFERENCIA_ENTRE_CUENTAS" -> CuentasRequest(f)
      [] kind = "ARBITRAJE" -> ArbitrajeRequest(f)

Accepts(r) ==
    CASE kind = "VENTA" -> VentaAccepts(r)
      [] kind = "COMPRA" -> CompraAccepts(r)
      [] kind = "INGRESO_CAPITAL" -> IngresoAccepts(r)
      [] kind = "RETIRO_CAPITAL" -> RetiroAccepts(r)
      [] kind = "GASTO" -> GastoAccepts(r)
      [] kind = "PAGO_CC_CRUZADO" -> PagoAccepts(r)
      [] kind = "TRASPASO_DEUDA_CC" -> TraspasoAccepts(r)
      [] kind = "TRANSFERENCIA_ENTRE_CUENTAS" -> CuentasAccepts(r)
      [] kind = "ARBITRAJE" -> ArbitrajeAccepts(r)

----------------------------------------------------------------------------
(* State                                                                   *)

Quoted == kind \in {"VENTA", "COMPRA"}

\* No list to wait for, every account with its own, and no timer running.
AtRest ==
    /\ load = "none"
    /\ \A leg \in LegsOf(form) \cup LinesOf(form) : leg.asked = {} /\ leg.list = leg.account
    /\ Quoted => form.settled = Worth(form)

BlockMain == saving # NoData \/ sending # NoData \/ load # "none"
BlockClear == saving # NoData \/ sending # NoData

OperationTypes ==
    /\ kind \in Kinds
    /\ load \in {"none", "first", "retry"}
    /\ form \in FormOf(kind)
    /\ \A i, j \in DOMAIN form.lines : form.lines[i].key = form.lines[j].key => i = j
    /\ server.status \in {"BORRADOR", "CONFIRMADA"}
    /\ acts \in 0..MaxActs[kind]

OperationInit ==
    /\ kind \in Kinds
    /\ form = Blank
    /\ load = "first" /\ saving = NoData /\ sending = NoData
    /\ server \in [status : {"BORRADOR"},
                   draft : {NoData} \cup {Saved(d, SavedAtRest(kind, d)) : d \in Stored[kind]}]
    /\ cache = NoData /\ loaded = NoData /\ touched = FALSE
    /\ acts = 0

----------------------------------------------------------------------------
(* The form                                                                *)

Act == acts < MaxActs[kind] /\ acts' = acts + 1

Render(g) == \E new \in {g} : form' = Rendered(form, new)

\* One input: fields are open even while the draft loads.
Edit ==
    /\ Act
    /\ loaded' = NoData /\ touched' = TRUE
    /\ UNCHANGED <<kind, load, saving, sending, server, cache>>
    /\ \E g \in Inputs(form) : Render(g)

\* Limpiar: it does not wait for the draft either.
Clear ==
    /\ Act /\ ~BlockClear
    /\ Render(Emptied(form))
    /\ loaded' = NoData /\ touched' = TRUE
    /\ UNCHANGED <<kind, load, saving, sending, server, cache>>

\* 300 ms without a change of the equivalent.
Settle ==
    /\ Quoted /\ form.settled # Worth(form)
    /\ UNCHANGED <<kind, load, saving, sending, server, cache, loaded, touched, acts>>
    /\ Render(Settling(form))

\* A failure counts as an act; it is one outcome of every request.
Outcome(ok) == IF ok THEN acts' = acts ELSE Act

\* The list of an account a leg has or had.
AnswerList(i, a, ok) ==
    /\ a \in form.legs[i].asked
    /\ Outcome(ok)
    /\ UNCHANGED <<kind, load, saving, sending, server, cache, loaded, touched>>
    /\ Render([form EXCEPT !.legs[i] = ListAnswered(@, a, ok)])

AnswerLineList(i, a, ok) ==
    /\ a \in form.lines[i].asked
    /\ Outcome(ok)
    /\ UNCHANGED <<kind, load, saving, sending, server, cache, loaded, touched>>
    /\ Render([form EXCEPT !.lines[i] = LineListAnswered(@, a, ok)])

AnswerLists ==
    \E a \in Accounts, ok \in BOOLEAN :
        \/ \E i \in DOMAIN form.legs : AnswerList(i, a, ok)
        \/ \E i \in DOMAIN form.lines : AnswerLineList(i, a, ok)

\* The form closes, and opens again: what it asked for answers nobody, what it
\* sent is still carried out.
Reopen ==
    /\ Act
    /\ form' = Blank /\ load' = "first" /\ loaded' = NoData /\ touched' = FALSE
    /\ UNCHANGED <<kind, saving, sending, server, cache>>

----------------------------------------------------------------------------
(* Loading, saving and sending                                             *)

\* Twice without a draft of the server, it takes the one of this tab.
LoadFails ==
    /\ IF load = "first" THEN load' = "retry" /\ UNCHANGED form
       ELSE /\ load' = "none"
            /\ IF cache = NoData THEN UNCHANGED form ELSE Render(Restored(form, cache.data))
    /\ UNCHANGED <<cache, loaded>>

\* The draft of the server: whatever the form shows by then is replaced.
LoadDraft ==
    /\ load' = "none"
    /\ cache' = server.draft /\ loaded' = server.draft
    /\ Render(Restored(form, server.draft.data))

AnswerLoad(ok) ==
    /\ load # "none"
    /\ Outcome(ok)
    /\ IF ok /\ server.draft # NoData THEN LoadDraft ELSE LoadFails
    /\ UNCHANGED <<kind, saving, sending, server, touched>>

\* Guardar borrador.
SaveDraft ==
    /\ Act /\ ~BlockMain
    /\ saving' = Saved(Data(form), AtRest)
    /\ UNCHANGED <<kind, form, load, sending, server, cache, loaded, touched>>

\* A draft is stored while the movement is one; the cache follows the answer.
AnswerSave(ok) ==
    /\ saving # NoData
    /\ Outcome(ok)
    /\ saving' = NoData
    /\ \/ /\ server.status = "BORRADOR"
          /\ server' = [server EXCEPT !.draft = saving]
          /\ cache' = IF ok THEN saving ELSE cache
       \/ /\ ~ok \/ server.status # "BORRADOR"
          /\ UNCHANGED <<server, cache>>
    /\ UNCHANGED <<kind, form, load, sending, loaded, touched>>

\* Every leg and line has an account whose list offers its currency.
Offered ==
    /\ \A leg \in LegsOf(form) :
          kind # "TRANSFERENCIA_ENTRE_CUENTAS" => leg.currency \in Shown(leg.list)
    /\ \A line \in LinesOf(form) : form.quote \in Shown(line.list)
    /\ kind = "TRANSFERENCIA_ENTRE_CUENTAS" =>
          \A leg \in LegsOf(form) : form.legs[1].currency \in Shown(leg.list)

\* Guardar, once the form is valid.
Submit ==
    /\ Act /\ ~BlockMain /\ Submits(form)
    /\ sending' = [kind |-> "request", body |-> Request(form), fair |-> AtRest /\ Offered]
    /\ UNCHANGED <<kind, form, load, saving, server, cache, loaded, touched>>

\* The server executes a draft once, if it accepts what was sent.
AnswerSubmit(ok) ==
    /\ sending # NoData
    /\ Outcome(ok)
    /\ sending' = NoData
    /\ \/ /\ server.status = "BORRADOR" /\ Accepts(sending.body)
          /\ server' = [server EXCEPT !.status = "CONFIRMADA"]
       \/ /\ ~ok \/ server.status # "BORRADOR" \/ ~Accepts(sending.body)
          /\ UNCHANGED server
    /\ UNCHANGED <<kind, form, load, saving, cache, loaded, touched>>

Answers ==
    \/ AnswerLists
    \/ \E ok \in BOOLEAN : AnswerLoad(ok) \/ AnswerSave(ok) \/ AnswerSubmit(ok)

OperationNext == Edit \/ Clear \/ Settle \/ Reopen \/ SaveDraft \/ Submit \/ Answers

OperationSpec == OperationInit /\ [][OperationNext]_operationVars

----------------------------------------------------------------------------
(* Properties                                                              *)

\* Only cash is left pending: whatever the lists, the drafts and the inputs
\* did to the format of a leg, its tick went with it.
PendingIsCash == Ticked(form)

\* A single automatic line shows the equivalent that last settled, or nothing.
AutoLineIsTheEquivalent ==
    Quoted /\ Len(form.lines) = 1 /\ form.first = "AUTO" =>
        form.lines[1].amount \in {0, form.settled}

\* Inputs, lists, drafts and timers agree on what the screen shows: one line per
\* key, ticks with their formats, the automatic line with the quote.
ScreenIsConsistent == OperationTypes /\ PendingIsCash /\ AutoLineIsTheEquivalent

\* The amounts of a sale or a purchase at which client and service part.
MissesHalfCent(r) ==
    \/ kind = "VENTA" /\ HalfCentMissed(r.out.amount, SumOf(r.ins), r.quote.rate, r.quote.mode)
    \/ kind = "COMPRA" /\ HalfCentMissed(r.in.amount, SumOf(r.outs), r.quote.rate, r.quote.mode)

\* A valid form at rest, in currencies its accounts offer, sends what the server
\* accepts: the checks of the client imply those of the server, whatever the
\* order in which lists and drafts arrived.  A withdrawal never aligns its format,
\* and a sale or a purchase is only refused where the doubles of the client missed
\* a half cent that the fractions of the service did not.
SentIsAccepted ==
    sending # NoData /\ sending.fair /\ kind # "RETIRO_CAPITAL" =>
        Accepts(sending.body) \/ MissesHalfCent(sending.body)

\* A blank automatic line is filled in again when it is loaded.
SameDraft(d, e) ==
    \/ d = e
    \/ /\ Quoted /\ Len(d.lines) = 1 /\ d.first = "AUTO" /\ d.lines[1].amount = 0
       /\ e = [d EXCEPT !.lines[1].amount = e.lines[1].amount]

\* A draft saved at rest and opened again comes back as it was, once the form is
\* at rest and nobody touched it.  The profit of an arbitrage is left out.
DraftComesBack ==
    loaded # NoData /\ loaded.rest /\ ~touched /\ AtRest /\ kind # "ARBITRAJE" =>
        SameDraft(loaded.data, Data(form))

KeepsTyped ==
    acts' = acts /\ load' = load =>
        /\ \A i \in DOMAIN form.legs : form'.legs[i].amount = form.legs[i].amount
        /\ \/ AmountsOf(form'.lines) = AmountsOf(form.lines)
           \/ Len(form.lines) = 1 /\ form.first = "AUTO"

\* No answer and no timer changes an amount the user typed; only a single
\* automatic line follows the quote.
TypedAmountsStay == [][KeepsTyped]_operationVars
=============================================================================
