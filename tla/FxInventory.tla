---------------------------- MODULE FxInventory ----------------------------
(***************************************************************************)
(* The exchange inventory: the stock of each traded currency and what it   *)
(* cost in the functional currency (fx_positions), and the ledger of what  *)
(* each purchase, sale or transfer did to it (fx_inventory_ledger).        *)
(*                                                                         *)
(* confirmMovementDraftTx books a movement in the transaction that makes   *)
(* it CONFIRMADA: the position is read under a row lock, so this is one    *)
(* step.  cancelMovementWithinTx reads the status and the ledger row       *)
(* without a lock and writes later: the annulment of a movement, alone or  *)
(* by the execution of its correction, is two steps.                       *)
(*                                                                         *)
(* Quantities are counted in units, costs in quanta of the last decimal    *)
(* the tables keep (12); every division is rounded to quanta, half away    *)
(* from zero.  Movements quoted in another currency than the functional    *)
(* one are refused and leave no trace, so they are left out.               *)
(***************************************************************************)
EXTENDS Integers, FiniteSetsExt, SequencesExt

CONSTANTS
    Movements,        \* identities of movements
    Currencies,       \* traded currencies
    Functional,       \* setting fx_functional_currency_code
    Kinds,            \* types of operation that trade
    Quantities,       \* amounts of a traded currency
    Quotes,           \* amounts of the functional currency
    Fees,             \* amounts of a transfer's fee
    RequireInventory, \* setting fx_venta_require_inventory
    Annulments,       \* annulments the server handles at the same time
    NoMovement        \* null reference

ASSUME FunctionalIsNotTraded == Functional \notin Currencies
ASSUME AmountsArePositive ==
    /\ Quantities \subseteq Nat \ {0}
    /\ Quotes \subseteq Nat \ {0}
    /\ Fees \subseteq Nat \ {0}
ASSUME RequirementIsBoolean == RequireInventory \in BOOLEAN
ASSUME KindsTrade == Kinds \subseteq {"COMPRA", "VENTA", "TRANSFERENCIA"}
ASSUME NoMovementIsNull == NoMovement \notin Movements
ASSUME FiniteBook == IsFiniteSet(Movements)

VARIABLES
    status,    \* movements.status
    lines,     \* the movement_lines that trade, as a set
    ledger,    \* the APPLY row of fx_inventory_ledger
    reversed,  \* movements with a REVERSE row
    position,  \* fx_positions
    annulling  \* the movement each annulment in flight has read

fxVars == <<status, lines, ledger, reversed, position, annulling>>

-----------------------------------------------------------------------------
(* Rows                                                                    *)

Line(leg, side, currency, amount) ==
    [leg |-> leg, side |-> side, currency |-> currency, amount |-> amount]

AmountsOf(currency) == IF currency = Functional THEN Quotes ELSE Quantities

\* The lines of an operation: what is exchanged and, in a transfer, a fee in
\* one of the two currencies, paid or collected.
Exchange(out, in) ==
    {{Line("OUT", "OUT", out, a), Line("IN", "IN", in, b)} :
        a \in AmountsOf(out), b \in AmountsOf(in)}

FeeLines(out, in) ==
    {Line("FEE", side, c, f) : side \in {"IN", "OUT"}, c \in {out, in}, f \in Fees}

TransferLines(out, in) ==
    Exchange(out, in) \cup {e \cup {f} : e \in Exchange(out, in), f \in FeeLines(out, in)}

LinesOf(kind) ==
    CASE kind = "COMPRA" -> UNION {Exchange(Functional, c) : c \in Currencies}
      [] kind = "VENTA"  -> UNION {Exchange(c, Functional) : c \in Currencies}
      [] kind = "TRANSFERENCIA" ->
            UNION {TransferLines(Functional, c) \cup TransferLines(c, Functional) :
                      c \in Currencies}

NoRow == [quantity |-> 0, cost |-> 0]
Rows  == [currency : Currencies, quantity : Int, cost : Int, realized : Int]

Empty == [quantity |-> 0, cost |-> 0]

\* One type invariant; the CHECKs of fx_positions are part of it.
FxTypeOK ==
    /\ status \in [Movements -> {"BORRADOR", "CONFIRMADA", "CANCELADA"}]
    /\ \A m \in Movements : \A l \in lines[m] : l.side \in {"IN", "OUT"} /\ l.amount \in Nat
    /\ ledger \in [Movements -> Rows \cup {NoRow}]
    /\ reversed \subseteq Movements
    /\ position \in [Currencies -> [quantity : Nat, cost : Nat]]
    /\ annulling \in [Annulments -> Movements \cup {NoMovement}]

FxInit ==
    /\ status = [m \in Movements |-> "BORRADOR"]
    /\ lines = [m \in Movements |-> {}]
    /\ ledger = [m \in Movements |-> NoRow]
    /\ reversed = {}
    /\ position = [c \in Currencies |-> Empty]
    /\ annulling = [r \in Annulments |-> NoMovement]

-----------------------------------------------------------------------------
(* Arithmetic                                                              *)

\* n / d to the nearest quantum, half away from zero (FloatString).
Rounded(n, d) ==
    IF n >= 0 THEN (2 * n + d) \div (2 * d) ELSE -((d - 2 * n) \div (2 * d))

\* A purchase adds its quantity and what was paid for it.
PurchaseRow(t) ==
    [currency |-> t.currency, quantity |-> t.quantity, cost |-> t.quote, realized |-> 0]

Purchased(p, t) == [quantity |-> p.quantity + t.quantity, cost |-> p.cost + t.quote]

\* Mutant of CostOf: takes the average out rounded to quanta.
CostOfRoundedAverage(p, quantity) == quantity * Rounded(p.cost, p.quantity)

\* A sale takes the average cost of its quantity out.
CostOf(p, quantity) == Rounded(quantity * p.cost, p.quantity)

\* Mutant of CostLeft: rounds the average first.
CostLeftRoundedAverage(p, quantity) == (p.quantity - quantity) * Rounded(p.cost, p.quantity)

\* What is left of the cost is rounded on its own: nothing if nothing is left.
CostLeft(p, quantity) == Rounded((p.quantity - quantity) * p.cost, p.quantity)

Realized(p, t) == Rounded(t.quote * p.quantity - t.quantity * p.cost, p.quantity)

SaleRow(p, t) ==
    [currency |-> t.currency, quantity |-> -t.quantity,
     cost |-> -CostOf(p, t.quantity), realized |-> Realized(p, t)]

Sold(p, t) == [quantity |-> p.quantity - t.quantity, cost |-> CostLeft(p, t.quantity)]

\* A reversal takes the row back; an empty position keeps no cost.
Undone(p, row) ==
    [quantity |-> p.quantity - row.quantity,
     cost     |-> IF p.quantity = row.quantity THEN 0 ELSE p.cost - row.cost]

MayUndo(p, row) == p.quantity >= row.quantity /\ p.cost >= row.cost

-----------------------------------------------------------------------------
(* What a movement trades                                                  *)

NoTrade == [kind |-> "NONE"]

Trade(kind, currency, quantity, quote) ==
    [kind |-> kind, currency |-> currency, quantity |-> quantity, quote |-> quote]

\* From the two lines: selling a traded currency or buying it.
TradeOf(out, in) ==
    CASE out.currency # Functional /\ in.currency = Functional ->
            Trade("SALE", out.currency, out.amount, in.amount)
      [] out.currency = Functional /\ in.currency # Functional ->
            Trade("PURCHASE", in.currency, in.amount, out.amount)
      [] OTHER -> NoTrade

LineOf(rows, leg) == CHOOSE l \in rows : l.leg = leg

\* What the operation agreed to exchange.
Principal(rows) == TradeOf(LineOf(rows, "OUT"), LineOf(rows, "IN"))

\* transferenciaPrincipalLegLines: the first outgoing line of the list, and
\* the first incoming one after it.
FirstOut(list) == SelectInSeq(list, LAMBDA l : l.side = "OUT")
FirstInAfter(list, i) == SelectInSubSeq(list, i + 1, Len(list), LAMBDA l : l.side = "IN")

PrincipalOf(list) ==
    LET i == FirstOut(list)
        j == FirstInAfter(list, i)
    IN IF i = 0 \/ j = 0 THEN NoTrade ELSE TradeOf(list[i], list[j])

\* The lines of a transaction have one created_at, and are listed in the order
\* of their random identifiers.  Purchases and sales add their lines up by
\* side, in whatever order; transfers look for the principal legs.
TradesListed(kind, rows) ==
    IF kind = "TRANSFERENCIA" THEN {PrincipalOf(list) : list \in SetToSeqs(rows)}
                              ELSE {Principal(rows)}

-----------------------------------------------------------------------------
(* Booking                                                                 *)

Short(p, t) == p.quantity < t.quantity

\* A sale without stock is refused, or confirmed without being booked: it
\* never consumes a part.
Covered(t, book) == t.kind = "SALE" => ~Short(book[t.currency], t)

Omitted(t, book) == ~Covered(t, book) /\ ~RequireInventory

BookIn(m, t, book) ==
    LET p == book[t.currency]
    IN \/ /\ t.kind = "PURCHASE"
          /\ position' = [book EXCEPT ![t.currency] = Purchased(p, t)]
          /\ ledger' = [ledger EXCEPT ![m] = PurchaseRow(t)]
       \/ /\ t.kind = "SALE"
          /\ position' = [book EXCEPT ![t.currency] = Sold(p, t)]
          /\ ledger' = [ledger EXCEPT ![m] = SaleRow(p, t)]

\* ApplyOnMovementConfirmed, over the positions the transaction has by then.
\* The ledger must not have an APPLY row of the movement yet.
Apply(m, kind, rows, book) ==
    /\ ledger[m] = NoRow
    /\ \E t \in TradesListed(kind, rows) :
          \/ /\ t # NoTrade
             /\ Covered(t, book)
             /\ BookIn(m, t, book)
          \/ /\ t = NoTrade \/ Omitted(t, book)
             /\ position' = book
             /\ UNCHANGED ledger

\* The execution of a draft inserts its lines and confirms it.
Confirm(m, kind, rows) ==
    /\ status[m] = "BORRADOR"
    /\ status' = [status EXCEPT ![m] = "CONFIRMADA"]
    /\ lines' = [lines EXCEPT ![m] = rows]
    /\ Apply(m, kind, rows, position)
    /\ UNCHANGED <<reversed, annulling>>

-----------------------------------------------------------------------------
(* Annulment                                                               *)

Finish(r) == annulling' = [annulling EXCEPT ![r] = NoMovement]

\* cancelMovementWithinTx asks for a confirmed movement, and the reversal for
\* an APPLY row without REVERSE, before anything is locked.
ReadForAnnulment(r, m) ==
    /\ annulling[r] = NoMovement
    /\ status[m] = "CONFIRMADA"
    /\ annulling' = [annulling EXCEPT ![r] = m]
    /\ UNCHANGED <<status, lines, ledger, reversed, position>>

\* The position under its lock must cover the reversal, and the ledger takes
\* one REVERSE row of a movement.
Reversible(m) ==
    ledger[m] # NoRow =>
        /\ m \notin reversed
        /\ MayUndo(position[ledger[m].currency], ledger[m])

Reverted(m) ==
    IF ledger[m] = NoRow THEN position
    ELSE [position EXCEPT ![ledger[m].currency] = Undone(@, ledger[m])]

Reversal(m) ==
    /\ Reversible(m)
    /\ reversed' = IF ledger[m] = NoRow THEN reversed ELSE reversed \cup {m}

\* The transition to CANCELADA asks for the status again.
Annul(r) ==
    LET m == annulling[r]
    IN /\ m # NoMovement
       /\ status[m] = "CONFIRMADA"
       /\ Reversal(m)
       /\ position' = Reverted(m)
       /\ status' = [status EXCEPT ![m] = "CANCELADA"]
       /\ Finish(r)
       /\ UNCHANGED <<lines, ledger>>

\* Mutant of Replace: books on the positions read before the reversal.
ReplaceOnStalePositions(r, d, kind, rows) ==
    LET m == annulling[r]
    IN /\ m # NoMovement
       /\ status[m] = "CONFIRMADA"
       /\ status[d] = "BORRADOR"
       /\ Reversal(m)
       /\ status' = [status EXCEPT ![m] = "CANCELADA", ![d] = "CONFIRMADA"]
       /\ lines' = [lines EXCEPT ![d] = rows]
       /\ Apply(d, kind, rows, position)
       /\ Finish(r)

\* The execution of a correction annuls its source, and then books its draft
\* on the positions the reversal left.
Replace(r, d, kind, rows) ==
    LET m == annulling[r]
    IN /\ m # NoMovement
       /\ status[m] = "CONFIRMADA"
       /\ status[d] = "BORRADOR"
       /\ Reversal(m)
       /\ status' = [status EXCEPT ![m] = "CANCELADA", ![d] = "CONFIRMADA"]
       /\ lines' = [lines EXCEPT ![d] = rows]
       /\ Apply(d, kind, rows, Reverted(m))
       /\ Finish(r)

\* Any error, and a deadlock between two positions, rolls back.
RollBackAnnulment(r) ==
    /\ annulling[r] # NoMovement
    /\ Finish(r)
    /\ UNCHANGED <<status, lines, ledger, reversed, position>>

-----------------------------------------------------------------------------
FxNext ==
    \/ \E m \in Movements, k \in Kinds : \E rows \in LinesOf(k) : Confirm(m, k, rows)
    \/ \E r \in Annulments :
          \/ \E m \in Movements : ReadForAnnulment(r, m)
          \/ \E d \in Movements, k \in Kinds : \E rows \in LinesOf(k) : Replace(r, d, k, rows)
          \/ Annul(r)
          \/ RollBackAnnulment(r)

FxSpec == FxInit /\ [][FxNext]_fxVars

-----------------------------------------------------------------------------
(* Properties                                                              *)

\* The movements whose effect on the inventory stands, by currency.
Standing(c) ==
    {m \in Movements : ledger[m] # NoRow /\ m \notin reversed /\ ledger[m].currency = c}

\* The stock of a currency is what its standing purchases, sales and transfers
\* left, to the unit, however their annulments and replacements overlap and in
\* whatever order they come; and a movement stands exactly while it is confirmed.
StockIsSumOfStanding ==
    /\ \A c \in Currencies :
          position[c].quantity =
              SumFunctionOnSet([m \in Movements |-> ledger[m].quantity], Standing(c))
    /\ \A m \in Movements :
          /\ ledger[m] # NoRow => status[m] # "BORRADOR"
          /\ m \in reversed <=> ledger[m] # NoRow /\ status[m] = "CANCELADA"

\* A currency that is out of stock has no cost: the last sale and the reversal
\* that empties the position leave no remainder to the next purchase.
EmptyHasNoCost ==
    \A c \in Currencies : position[c].quantity = 0 => position[c].cost = 0

Booked == {m \in Movements : ledger[m] # NoRow}

\* The stock is never valued above the cost of the standing movements, but for
\* the quanta that rounding may have added, one for each sale.
CostIsNotInvented ==
    \A c \in Currencies :
        position[c].cost <= SumFunctionOnSet([m \in Movements |-> ledger[m].cost], Standing(c))
                            + Cardinality({m \in Booked : ledger[m].quantity < 0})

\* What a sale cashed is its profit and the cost it took out, to the quantum.
SalesAddUp ==
    \A m \in Booked :
        LET row == ledger[m]
            t   == Principal(lines[m])
        IN row.quantity < 0 => row.realized - row.cost - t.quote \in {-1, 0, 1}

\* Annulling a sale right after it was confirmed gives the position back what
\* it had, to the quantum.
UndoRestores ==
    \A c \in Currencies, q \in Quantities :
        LET p == position[c]
            t == Trade("SALE", c, q, 0)
            u == Undone(Sold(p, t), SaleRow(p, t))
        IN ~Short(p, t) => u.quantity = p.quantity /\ u.cost - p.cost \in {0, 1}

\* The cost of the stock comes from what stands, goes where it was sold and comes
\* back with an annulment: no position falls below zero, an empty one keeps
\* nothing, none gains from rounding.
CostIsAccounted == FxTypeOK /\ EmptyHasNoCost /\ CostIsNotInvented /\ SalesAddUp /\ UndoRestores

\* A sale alone leaves the average cost of what remains as it was: off by half
\* a quantum of the position at most.
SaleKeepsAverage ==
    [][\A c \in Currencies :
          LET p == position[c]
              n == position'[c]
          IN reversed' = reversed /\ 0 < n.quantity /\ n.quantity < p.quantity =>
                2 * (n.cost * p.quantity - p.cost * n.quantity)
                    \in (-p.quantity)..p.quantity]_fxVars

\* A confirmed transfer between the functional and another currency is booked
\* as the exchange of its principal legs, whatever its fee
\* (transferenciaPrincipalLegLines: "para no mezclar fee en el agregado FX").
TransfersBookTheirLegs ==
    \A m \in Booked :
        LET t == Principal(lines[m])
        IN /\ ledger[m].currency = t.currency
           /\ ledger[m].quantity = IF t.kind = "SALE" THEN -t.quantity ELSE t.quantity
           /\ t.kind = "PURCHASE" => ledger[m].cost = t.quote
=============================================================================
