--------------------------- MODULE PendingsProofs ---------------------------
(***************************************************************************)
(* Theorems about Pendings, for every set of movements, clients and        *)
(* requests and every bound of the amounts.                                *)
(*                                                                         *)
(* The first section restates what each writing transaction does to the    *)
(* rows of one movement, with the row it leaves spelled out; the proofs of *)
(* the invariants use these lemmas and never open a request again.         *)
(***************************************************************************)
EXTENDS Pendings, SumTheorems, TLAPS

\* The sign of an amount keeps it an integer.
LEMMA SignedType ==
    ASSUME NEW side, NEW amount \in Int
    PROVE  Signed(side, amount) \in Int
BY DEF Signed

\* Nothing has no direction.
LEMMA SignedZero ==
    ASSUME NEW side
    PROVE  Signed(side, 0) = 0
<1>1. \A z \in Int : z + z = 0 => Signed(side, z) = 0
  BY DEF Signed
<1> QED
  BY <1>1

\* The net cash of a leg is an integer in each format.
LEMMA NetRealType ==
    ASSUME TypeOK, NEW m \in Movements
    PROVE  NetReal(m) \in [Formats -> Int]
BY SignedType DEF NetReal, TypeOK, Headers, Lines, Amounts

\* What a request in flight has read is told by its operation.
LEMMA RequestType ==
    ASSUME TypeOK, NEW r \in Requests
    PROVE  /\ request[r].op \in {"EXECUTE_TOTAL", "EXECUTE_PARTIAL"} => request[r] \in ExecutionRequests
           /\ request[r].op = "COMPENSATE" => request[r] \in CompensationRequests
           /\ request[r].op = "CANCEL" => request[r] \in CancelRequests
           /\ request[r].op = "ANNUL" => request[r] \in AnnulRequests
BY DEF TypeOK, Idle, ExecutionRequests, CompensationRequests, CancelRequests, AnnulRequests

-----------------------------------------------------------------------------
(* What the transactions write                                             *)

\* A deferred entry is nothing, or the signed amount executed.
Deferred(m, a, d) ==
    /\ d \in {0, Signed(header[m].side, a)}
    /\ entries' = [entries EXCEPT ![m] = @ + d]
    /\ balance' = [balance EXCEPT ![header[m].client] = @ + d]

\* A posting keeps entries and balances integers.
LEMMA BalanceType ==
    ASSUME TypeOK, NEW m \in Movements, NEW d \in Int
    PROVE  [balance EXCEPT ![header[m].client] = @ + d] \in [Clients -> Int]
<1>1. PICK c \in Clients : c = header[m].client
  BY DEF TypeOK, Headers
<1>2. [balance EXCEPT ![c] = @ + d] \in [Clients -> Int]
  BY DEF TypeOK
<1> QED
  BY <1>1, <1>2

\* The deferred entry of an execution is one of these two.
LEMMA DeferredEffect ==
    ASSUME TypeOK, NEW q \in ExecutionRequests, DeferredCC(q)
    PROVE  \E d \in Int : Deferred(q.movement, q.amount, d)
<1>1. q.amount \in Int
  BY DEF ExecutionRequests, Amounts
<1>2. PICK d \in Int : d = DeferredAmount(q)
  BY <1>1, SignedType DEF DeferredAmount
<1>3. d \in {0, Signed(header[q.movement].side, q.amount)}
  BY <1>2 DEF DeferredAmount
<1>4. entries' = [entries EXCEPT ![q.movement] = @ + d]
      /\ balance' = [balance EXCEPT ![header[q.movement].client] = @ + d]
  BY <1>2 DEF DeferredCC, BalanceUpsert
<1> QED
  BY <1>3, <1>4 DEF Deferred

\* The rows that the record updates of the handlers leave.
LEMMA ReducedRow ==
    ASSUME NEW row \in Lines, NEW a \in Int
    PROVE  Reduced(row, a) = [amount |-> row.amount - a, format |-> row.format,
                              isPending |-> row.isPending]
BY DEF Reduced, Lines

\* A cancelled item keeps everything but its status.
Cancelled(item) == [status |-> "CANCELADO", mode |-> item.mode,
                    amount |-> item.amount, ref |-> item.ref]

\* The updates of an item leave the columns they do not name.
LEMMA UpdatedItem ==
    ASSUME NEW item \in PendingItems, NEW a \in Int
    PROVE  /\ [item EXCEPT !.amount = @ - a] = [status |-> item.status, mode |-> item.mode,
                                               amount |-> item.amount - a, ref |-> item.ref]
           /\ [item EXCEPT !.status = "CANCELADO"] = Cancelled(item)
           /\ ClosedByAnnulment(item) = Cancelled(item)
BY DEF PendingItems, Cancelled, ClosedByAnnulment

\* The rows after a partial execution of an amount a of the leg m.
PartialRows(m, a, f) ==
    /\ line[m].isPending
    /\ line[m].amount > a
    /\ pending[m].amount > a
    /\ line' = [line EXCEPT ![m] = [amount |-> line[m].amount - a, format |-> line[m].format,
                                    isPending |-> line[m].isPending]]
    /\ pending' = [pending EXCEPT ![m] = [status |-> pending[m].status, mode |-> pending[m].mode,
                                          amount |-> pending[m].amount - a, ref |-> pending[m].ref]]
    /\ cash' = [cash EXCEPT ![m][f] = @ + Signed(header[m].side, a)]

\* What a partial execution writes, on the rows of one movement.
LEMMA PartialEffect ==
    ASSUME TypeOK, NEW r \in Requests, ExecutePartial(r)
    PROVE  \E m \in Movements, a \in Amounts, f \in Formats, d \in Int :
               /\ request[r] \in ExecutionRequests
               /\ m = request[r].movement /\ a = request[r].amount
               /\ PartialRows(m, a, f)
               /\ Deferred(m, a, d)
               /\ UNCHANGED <<status, header, ccEnabled>>
               /\ request' = [request EXCEPT ![r] = Idle]
<1>1. request[r] \in ExecutionRequests
  BY RequestType DEF ExecutePartial
<1>2. PICK m \in Movements, a \in Amounts, f \in Formats :
          m = request[r].movement /\ a = request[r].amount /\ f = request[r].format
  BY <1>1 DEF ExecutionRequests
<1>3. PICK d \in Int : Deferred(m, a, d)
  BY <1>1, <1>2, DeferredEffect DEF ExecutePartial
<1>4. /\ line[m].isPending
      /\ line[m].amount > a
      /\ pending[m].amount > a
      /\ line' = [line EXCEPT ![m] = Reduced(line[m], a)]
      /\ pending' = [pending EXCEPT ![m] = [pending[m] EXCEPT !.amount = @ - a]]
      /\ cash' = [cash EXCEPT ![m][f] = @ + Signed(header[m].side, a)]
  BY <1>2 DEF ExecutePartial, CanReduce, TypeOK
<1>5. Reduced(line[m], a) = [amount |-> line[m].amount - a, format |-> line[m].format,
                             isPending |-> line[m].isPending]
  BY ReducedRow DEF TypeOK, Amounts
<1>6. [pending[m] EXCEPT !.amount = @ - a]
          = [status |-> pending[m].status, mode |-> pending[m].mode,
             amount |-> pending[m].amount - a, ref |-> pending[m].ref]
  BY UpdatedItem DEF TypeOK, Amounts
<1>7. PartialRows(m, a, f)
  BY <1>4, <1>5, <1>6 DEF PartialRows
<1>8. UNCHANGED <<status, header, ccEnabled>> /\ request' = [request EXCEPT ![r] = Idle]
  BY DEF ExecutePartial, Finish
<1> QED
  BY <1>1, <1>2, <1>3, <1>7, <1>8

\* The rows after a total execution of an amount a of the leg m.
TotalRows(m, a, f) ==
    /\ line[m].isPending
    /\ line' = [line EXCEPT ![m] = [amount |-> a, format |-> f, isPending |-> FALSE]]
    /\ pending' = [pending EXCEPT ![m] = Resolved(pending[m], "REAL_EXECUTION", NoMovement)]

\* What a total execution writes, on the rows of one movement.
LEMMA TotalEffect ==
    ASSUME TypeOK, NEW r \in Requests, ExecuteTotal(r)
    PROVE  \E m \in Movements, a \in Amounts, f \in Formats, d \in Int :
               /\ request[r] \in ExecutionRequests
               /\ m = request[r].movement /\ a = request[r].amount
               /\ TotalRows(m, a, f)
               /\ Deferred(m, a, d)
               /\ UNCHANGED <<status, header, cash, ccEnabled>>
               /\ request' = [request EXCEPT ![r] = Idle]
<1>1. request[r] \in ExecutionRequests
  BY RequestType DEF ExecuteTotal
<1>2. PICK m \in Movements, a \in Amounts, f \in Formats :
          m = request[r].movement /\ a = request[r].amount /\ f = request[r].format
  BY <1>1 DEF ExecutionRequests
<1>3. PICK d \in Int : Deferred(m, a, d)
  BY <1>1, <1>2, DeferredEffect DEF ExecuteTotal
<1>4. /\ line[m].isPending
      /\ line' = [line EXCEPT ![m] = [amount |-> a, format |-> f, isPending |-> FALSE]]
      /\ pending' = [pending EXCEPT ![m] = Resolved(pending[m], "REAL_EXECUTION", NoMovement)]
  BY <1>2 DEF ExecuteTotal, RealLine
<1>5. TotalRows(m, a, f)
  BY <1>4 DEF TotalRows
<1>6. UNCHANGED <<status, header, cash, ccEnabled>> /\ request' = [request EXCEPT ![r] = Idle]
  BY DEF ExecuteTotal, Finish
<1> QED
  BY <1>1, <1>2, <1>3, <1>5, <1>6

\* What a compensation writes: the item alone.
LEMMA CompensateEffect ==
    ASSUME TypeOK, NEW r \in Requests, Compensate(r)
    PROVE  \E m \in Movements, ref \in Movements :
               /\ request[r] \in CompensationRequests /\ m = request[r].movement
               /\ pending' = [pending EXCEPT ![m] = Resolved(pending[m], "COMPENSATED", ref)]
               /\ UNCHANGED <<status, header, line, cash, entries, balance, ccEnabled>>
               /\ request' = [request EXCEPT ![r] = Idle]
<1>1. request[r] \in CompensationRequests
  BY RequestType DEF Compensate
<1>2. PICK m \in Movements, ref \in Movements : m = request[r].movement /\ ref = request[r].ref
  BY <1>1 DEF CompensationRequests
<1>3. pending' = [pending EXCEPT ![m] = Resolved(pending[m], "COMPENSATED", ref)]
  BY <1>2 DEF Compensate
<1>4. UNCHANGED <<status, header, line, cash, entries, balance, ccEnabled>>
      /\ request' = [request EXCEPT ![r] = Idle]
  BY DEF Compensate, Finish
<1> QED
  BY <1>1, <1>2, <1>3, <1>4

\* What a cancellation writes: the item alone.
LEMMA CancelEffect ==
    ASSUME TypeOK, NEW r \in Requests, CancelPending(r)
    PROVE  \E m \in Movements :
               /\ request[r] \in CancelRequests /\ m = request[r].movement
               /\ pending' = [pending EXCEPT ![m] = Cancelled(pending[m])]
               /\ UNCHANGED <<status, header, line, cash, entries, balance, ccEnabled>>
               /\ request' = [request EXCEPT ![r] = Idle]
<1>1. request[r] \in CancelRequests
  BY RequestType DEF CancelPending
<1>2. PICK m \in Movements : m = request[r].movement
  BY <1>1 DEF CancelRequests
<1>3. pending' = [pending EXCEPT ![m] = [pending[m] EXCEPT !.status = "CANCELADO"]]
  BY <1>2 DEF CancelPending, TypeOK
<1>4. [pending[m] EXCEPT !.status = "CANCELADO"] = Cancelled(pending[m])
  BY UpdatedItem DEF TypeOK
<1>5. UNCHANGED <<status, header, line, cash, entries, balance, ccEnabled>>
      /\ request' = [request EXCEPT ![r] = Idle]
  BY DEF CancelPending, Finish
<1> QED
  BY <1>1, <1>2, <1>3, <1>4, <1>5

\* What the annulment of a movement writes, on the rows of that movement.
LEMMA AnnulEffect ==
    ASSUME TypeOK, NEW r \in Requests, AnnulMovement(r)
    PROVE  \E m \in Movements, listed \in [Formats -> Int] :
               /\ request[r] \in AnnulRequests
               /\ m = request[r].movement /\ listed = request[r].listed
               /\ status[m] = "CONFIRMADA"
               /\ listed = NetReal(m)
               /\ status' = [status EXCEPT ![m] = "CANCELADA"]
               /\ cash' = [cash EXCEPT ![m] = [f \in Formats |-> cash[m][f] - listed[f]]]
               /\ entries' = [entries EXCEPT ![m] = 0]
               /\ balance' = [balance EXCEPT ![header[m].client] = @ + (-entries[m])]
               /\ pending' = [pending EXCEPT ![m] = Cancelled(pending[m])]
               /\ UNCHANGED <<header, line, ccEnabled>>
               /\ request' = [request EXCEPT ![r] = Idle]
<1>1. request[r] \in AnnulRequests
  BY RequestType DEF AnnulMovement
<1>2. PICK m \in Movements, listed \in [Formats -> Int] :
          m = request[r].movement /\ listed = request[r].listed
  BY <1>1 DEF AnnulRequests
<1>3. /\ status[m] = "CONFIRMADA"
      /\ \A f \in Formats : NetReal(m)[f] - listed[f] = 0
      /\ status' = [status EXCEPT ![m] = "CANCELADA"]
      /\ cash' = [cash EXCEPT ![m] = [f \in Formats |-> cash[m][f] - listed[f]]]
      /\ entries' = [entries EXCEPT ![m] = 0]
      /\ balance' = [balance EXCEPT ![header[m].client] = @ + (-entries[m])]
      /\ pending' = [pending EXCEPT ![m] = ClosedByAnnulment(pending[m])]
  BY <1>2 DEF AnnulMovement, BalanceUpsert
<1>4. listed = NetReal(m)
  <2>1. PICK real \in [Formats -> Int] : real = NetReal(m)
    BY NetRealType
  <2>2. \A f \in Formats : real[f] - listed[f] = 0
    BY <1>3, <2>1
  <2>3. \A f \in Formats : real[f] = listed[f]
    BY <2>2
  <2>4. real = listed
    BY <2>3
  <2> QED
    BY <2>1, <2>4
<1>5. ClosedByAnnulment(pending[m]) = Cancelled(pending[m])
  BY UpdatedItem DEF TypeOK
<1>6. UNCHANGED <<header, line, ccEnabled>> /\ request' = [request EXCEPT ![r] = Idle]
  BY DEF AnnulMovement, Finish
<1> QED
  BY <1>1, <1>2, <1>3, <1>4, <1>5, <1>6

-----------------------------------------------------------------------------
(* Types                                                                   *)

\* The empty tables have the type of their columns.
LEMMA TypeInit == Init => TypeOK
<1> SUFFICES ASSUME Init PROVE TypeOK
  OBVIOUS
<1>1. NoHeader \in Headers
  BY AmountBound, SomeClient DEF NoHeader, Headers, Kinds, Sides, Amounts
<1> QED
  BY <1>1 DEF Init, TypeOK, NoLine, Lines, Formats, NoPending, PendingItems, NoCash

\* Every transaction keeps the type of the columns it writes.
LEMMA TypeStep == TypeOK /\ [Next]_vars => TypeOK'
<1> SUFFICES ASSUME TypeOK, [Next]_vars PROVE TypeOK'
  OBVIOUS
<1> USE DEF TypeOK
<1>1. ASSUME NEW m \in Movements, NEW c \in Clients, NEW k \in Kinds, NEW s \in Sides,
             NEW a \in Amounts, NEW f \in Formats, OpenPending(m, c, k, s, a, f)
      PROVE  TypeOK'
  BY <1>1 DEF OpenPending, Headers, Lines, PendingItems, Amounts
<1>2. ASSUME NEW c \in Clients, ToggleCC(c)
      PROVE  TypeOK'
  BY <1>2 DEF ToggleCC
<1>3. ASSUME NEW r \in Requests, NEW m \in Movements, NEW a \in Amounts, NEW f \in Formats,
             ReadForExecution(r, m, a, f)
      PROVE  TypeOK'
  BY <1>3 DEF ReadForExecution, ExecutionRequests, AppliesCCOnResolve
<1>4. ASSUME NEW r \in Requests, NEW m \in Movements, NEW ref \in Movements,
             ReadForCompensation(r, m, ref)
      PROVE  TypeOK'
  BY <1>4 DEF ReadForCompensation, CompensationRequests
<1>5. ASSUME NEW r \in Requests, NEW m \in Movements, ReadForCancel(r, m)
      PROVE  TypeOK'
  BY <1>5 DEF ReadForCancel, CancelRequests
<1>6. ASSUME NEW r \in Requests, NEW m \in Movements, ReadForAnnulment(r, m)
      PROVE  TypeOK'
  BY <1>6, NetRealType DEF ReadForAnnulment, AnnulRequests
<1>7. ASSUME NEW r \in Requests, ExecutePartial(r)
      PROVE  TypeOK'
  <2>1. PICK m \in Movements, a \in Amounts, f \in Formats, d \in Int :
             /\ PartialRows(m, a, f)
             /\ Deferred(m, a, d)
             /\ UNCHANGED <<status, header, ccEnabled>>
             /\ request' = [request EXCEPT ![r] = Idle]
    BY <1>7, PartialEffect
  <2>2. Signed(header[m].side, a) \in Int
    BY SignedType DEF Amounts
  <2>3. line' \in [Movements -> Lines] /\ pending' \in [Movements -> PendingItems]
    BY <2>1 DEF PartialRows, Lines, PendingItems, Amounts
  <2>4. cash' \in [Movements -> [Formats -> Int]]
    BY <2>1, <2>2 DEF PartialRows
  <2>5. entries' \in [Movements -> Int] /\ balance' \in [Clients -> Int]
    BY <2>1, BalanceType DEF Deferred
  <2> QED
    BY <2>1, <2>3, <2>4, <2>5
<1>8. ASSUME NEW r \in Requests, ExecuteTotal(r)
      PROVE  TypeOK'
  <2>1. PICK m \in Movements, a \in Amounts, f \in Formats, d \in Int :
             /\ TotalRows(m, a, f)
             /\ Deferred(m, a, d)
             /\ UNCHANGED <<status, header, cash, ccEnabled>>
             /\ request' = [request EXCEPT ![r] = Idle]
    BY <1>8, TotalEffect
  <2>2. line' \in [Movements -> Lines] /\ pending' \in [Movements -> PendingItems]
    BY <2>1 DEF TotalRows, Lines, Resolved, PendingItems, Amounts
  <2>3. entries' \in [Movements -> Int] /\ balance' \in [Clients -> Int]
    BY <2>1, BalanceType DEF Deferred
  <2> QED
    BY <2>1, <2>2, <2>3
<1>9. ASSUME NEW r \in Requests, Compensate(r)
      PROVE  TypeOK'
  <2>1. PICK m \in Movements, ref \in Movements :
             /\ pending' = [pending EXCEPT ![m] = Resolved(pending[m], "COMPENSATED", ref)]
             /\ UNCHANGED <<status, header, line, cash, entries, balance, ccEnabled>>
             /\ request' = [request EXCEPT ![r] = Idle]
    BY <1>9, CompensateEffect
  <2>2. Resolved(pending[m], "COMPENSATED", ref) \in PendingItems
    BY DEF Resolved, PendingItems
  <2> QED
    BY <2>1, <2>2
<1>10. ASSUME NEW r \in Requests, CancelPending(r)
       PROVE  TypeOK'
  <2>1. PICK m \in Movements :
             /\ pending' = [pending EXCEPT ![m] = Cancelled(pending[m])]
             /\ UNCHANGED <<status, header, line, cash, entries, balance, ccEnabled>>
             /\ request' = [request EXCEPT ![r] = Idle]
    BY <1>10, CancelEffect
  <2>2. Cancelled(pending[m]) \in PendingItems
    BY DEF Cancelled, PendingItems
  <2> QED
    BY <2>1, <2>2
<1>11. ASSUME NEW r \in Requests, AnnulMovement(r)
       PROVE  TypeOK'
  <2>1. PICK m \in Movements, listed \in [Formats -> Int] :
             /\ status' = [status EXCEPT ![m] = "CANCELADA"]
             /\ cash' = [cash EXCEPT ![m] = [f \in Formats |-> cash[m][f] - listed[f]]]
             /\ entries' = [entries EXCEPT ![m] = 0]
             /\ balance' = [balance EXCEPT ![header[m].client] = @ + (-entries[m])]
             /\ pending' = [pending EXCEPT ![m] = Cancelled(pending[m])]
             /\ UNCHANGED <<header, line, ccEnabled>>
             /\ request' = [request EXCEPT ![r] = Idle]
    BY <1>11, AnnulEffect
  <2>2. Cancelled(pending[m]) \in PendingItems
    BY DEF Cancelled, PendingItems
  <2>3. cash' \in [Movements -> [Formats -> Int]]
    BY <2>1
  <2>4. entries' \in [Movements -> Int] /\ balance' \in [Clients -> Int]
    <3>1. -entries[m] \in Int
      OBVIOUS
    <3> QED
      BY <2>1, <3>1, BalanceType
  <2>5. status' \in [Movements -> {"NONE", "CONFIRMADA", "CANCELADA"}]
    BY <2>1
  <2> QED
    BY <2>1, <2>2, <2>3, <2>4, <2>5
<1>12. ASSUME NEW r \in Requests, RollBack(r)
       PROVE  TypeOK'
  BY <1>12 DEF RollBack, Finish
<1>13. CASE UNCHANGED vars
  BY <1>13 DEF vars
<1> QED
  BY <1>1, <1>2, <1>3, <1>4, <1>5, <1>6, <1>7, <1>8, <1>9, <1>10, <1>11, <1>12, <1>13 DEF Next

\* Every variable keeps the type of its columns: in particular no overlap of
\* requests drives the amount of a line or of a pending item below zero.
THEOREM TypeCorrect == Spec => []TypeOK
BY TypeInit, TypeStep, PTL DEF Spec

-----------------------------------------------------------------------------
(* Invariants that hold however requests overlap                           *)

\* Before its operation a movement has no real cash and no entry, and its line
\* is not pending.
NothingBefore ==
    \A m \in Movements :
        status[m] = "NONE" => line[m] = NoLine /\ cash[m] = NoCash /\ entries[m] = 0

\* What the leg h has moved, given its line and its other rows.
Moved(h, row, c) ==
    Signed(h.side, c["CASH"] + c["DIGITAL"]) + IF row.isPending THEN 0 ELSE row.amount

\* The executed amount, without the detour through formats.
LEMMA ExecutedSum ==
    ASSUME NEW h \in Headers, NEW row \in Lines, NEW c \in [Formats -> Int]
    PROVE  /\ Signed(h.side, (c["CASH"] + IF ~row.isPending /\ row.format = "CASH"
                                        THEN Signed(h.side, row.amount) ELSE 0)
                           + (c["DIGITAL"] + IF ~row.isPending /\ row.format = "DIGITAL"
                                        THEN Signed(h.side, row.amount) ELSE 0))
               = Moved(h, row, c)
           /\ Moved(h, row, c) \in Int
<1>1. h.side \in {"IN", "OUT"} /\ row.amount \in Int /\ row.format \in {"CASH", "DIGITAL"}
      /\ row.isPending \in BOOLEAN /\ c["CASH"] \in Int /\ c["DIGITAL"] \in Int
  BY DEF Headers, Sides, Lines, Formats
<1>2. CASE row.isPending
  BY <1>1, <1>2 DEF Signed, Moved
<1>3. CASE ~row.isPending /\ row.format = "CASH"
  BY <1>1, <1>3 DEF Signed, Moved
<1>4. CASE ~row.isPending /\ row.format = "DIGITAL"
  BY <1>1, <1>4 DEF Signed, Moved
<1> QED
  BY <1>1, <1>2, <1>3, <1>4

\* The executed amount of a leg in the current state.
LEMMA ExecutedNow ==
    ASSUME TypeOK, NEW m \in Movements
    PROVE  Executed(m) = Moved(header[m], line[m], cash[m]) /\ Executed(m) \in Int
BY ExecutedSum DEF Executed, NetReal, TypeOK, Formats

\* The executed amount of a leg in the next state.
LEMMA ExecutedNext ==
    ASSUME TypeOK', NEW m \in Movements
    PROVE  Executed(m)' = Moved(header'[m], line'[m], cash'[m])
BY ExecutedSum DEF Executed, NetReal, TypeOK, Formats

\* A partial execution moves its amount, in either format.
LEMMA PartialMoves ==
    ASSUME NEW h \in Headers, NEW row \in Lines, NEW new \in Lines, NEW c \in [Formats -> Int],
           NEW a \in Nat, NEW f \in Formats, row.isPending, new.isPending
    PROVE  Moved(h, new, [c EXCEPT ![f] = @ + Signed(h.side, a)]) = Moved(h, row, c) + a
<1>1. h.side \in {"IN", "OUT"} /\ c["CASH"] \in Int /\ c["DIGITAL"] \in Int
  BY DEF Headers, Sides, Formats
<1>2. CASE f = "CASH"
  BY <1>1, <1>2 DEF Moved, Signed, Formats
<1>3. CASE f = "DIGITAL"
  BY <1>1, <1>3 DEF Moved, Signed, Formats
<1> QED
  BY <1>2, <1>3 DEF Formats

\* A deferred entry adds nothing, or the amount executed, in the direction of
\* the leg.
LEMMA DeferredAdds ==
    ASSUME NEW h \in Headers, NEW e \in Int, NEW a \in Nat, NEW d \in {0, Signed(h.side, a)}
    PROVE  Signed(h.side, e + d) \in {Signed(h.side, e), Signed(h.side, e) + a}
BY DEF Headers, Sides, Signed

\* The reversal of what NetReal lists leaves a zero net in every format.
LEMMA NetRealAfterAnnulment ==
    ASSUME TypeOK, NEW m \in Movements,
           cash' = [cash EXCEPT ![m] = [f \in Formats |-> cash[m][f] - NetReal(m)[f]]],
           UNCHANGED <<header, line>>
    PROVE  NetReal(m)' = NoCash
<1>1. ASSUME NEW f \in Formats
      PROVE  cash'[m][f] + (IF ~line'[m].isPending /\ line'[m].format = f
                            THEN Signed(header'[m].side, line'[m].amount) ELSE 0) = 0
  <2>1. PICK x \in Int : x = cash[m][f]
    BY DEF TypeOK
  <2>2. PICK y \in Int : y = IF ~line[m].isPending /\ line[m].format = f
                             THEN Signed(header[m].side, line[m].amount) ELSE 0
    BY SignedType DEF TypeOK, Lines
  <2>3. NetReal(m)[f] = x + y
    BY <2>1, <2>2 DEF NetReal
  <2>4. cash'[m][f] = x - (x + y)
    BY <2>1, <2>3 DEF TypeOK
  <2> QED
    BY <2>2, <2>4
<1> QED
  BY <1>1 DEF NetReal, NoCash

\* The strengthening of CCWithinCash: what it needs to know of a movement that
\* does not exist yet.
CashInv == NothingBefore /\ CCWithinCash

\* Before the first operation there is neither cash nor entry.
LEMMA CashInit == Init => CashInv
<1> SUFFICES ASSUME Init PROVE CashInv
  OBVIOUS
<1>1. NothingBefore
  BY DEF Init, NothingBefore
<1>2. TypeOK
  BY TypeInit
<1>3. ASSUME NEW m \in Movements
      PROVE  Executed(m) = 0 /\ Signed(header[m].side, entries[m]) = 0
  <2>1. Executed(m) = Moved(header[m], line[m], cash[m])
    BY <1>2, ExecutedNow
  <2>2. line[m] = NoLine /\ cash[m] = NoCash /\ entries[m] = 0
    BY DEF Init
  <2>3. Moved(header[m], NoLine, NoCash) = 0
    BY SignedZero DEF Moved, NoLine, NoCash, Formats
  <2>4. Signed(header[m].side, 0) = 0
    BY SignedZero
  <2> QED
    BY <2>1, <2>2, <2>3, <2>4
<1> QED
  BY <1>1, <1>3 DEF CashInv, CCWithinCash

\* A step keeps CashInv if it keeps it for the only movement it writes.
LEMMA CashFrame ==
    ASSUME TypeOK, TypeOK', CashInv, NEW m \in Movements,
           \A n \in Movements \ {m} :
               /\ status'[n] = status[n] /\ header'[n] = header[n] /\ line'[n] = line[n]
               /\ cash'[n] = cash[n] /\ entries'[n] = entries[n],
           status'[m] # "NONE",
           0 <= Signed(header'[m].side, entries'[m]),
           Signed(header'[m].side, entries'[m]) <= Moved(header'[m], line'[m], cash'[m])
    PROVE  CashInv'
<1>1. NothingBefore'
  BY DEF CashInv, NothingBefore
<1>2. ASSUME NEW n \in Movements
      PROVE  0 <= Signed(header'[n].side, entries'[n])
             /\ Signed(header'[n].side, entries'[n]) <= Executed(n)'
  <2>1. Executed(n)' = Moved(header'[n], line'[n], cash'[n])
    BY ExecutedNext
  <2>2. Executed(n) = Moved(header[n], line[n], cash[n])
    BY ExecutedNow
  <2>3. 0 <= Signed(header[n].side, entries[n]) /\ Signed(header[n].side, entries[n]) <= Executed(n)
    BY DEF CashInv, CCWithinCash
  <2>4. CASE n = m
    BY <2>1, <2>4
  <2>5. CASE n # m
    BY <2>1, <2>2, <2>3, <2>5
  <2> QED
    BY <2>4, <2>5
<1>3. CCWithinCash'
  BY <1>2 DEF CCWithinCash
<1> QED
  BY <1>1, <1>3 DEF CashInv

\* A step that writes no line, no cash and no entry keeps CashInv.
LEMMA CashUntouched ==
    ASSUME TypeOK, TypeOK', CashInv, UNCHANGED <<status, header, line, cash, entries>>
    PROVE  CashInv'
<1>1. \A n \in Movements : Executed(n)' = Executed(n)
  BY ExecutedNow, ExecutedNext
<1> QED
  BY <1>1 DEF CashInv, NothingBefore, CCWithinCash

\* CashInv is inductive, relative to the types.
LEMMA CashStep == TypeOK /\ CashInv /\ [Next]_vars => CashInv'
<1> SUFFICES ASSUME TypeOK, CashInv, [Next]_vars PROVE CashInv'
  OBVIOUS
<1>a. TypeOK'
  BY TypeStep
<1>b. \A m \in Movements : line[m].isPending => status[m] # "NONE"
  BY DEF CashInv, NothingBefore, NoLine
<1>c. \A m \in Movements :
          0 <= Signed(header[m].side, entries[m])
          /\ Signed(header[m].side, entries[m]) <= Moved(header[m], line[m], cash[m])
  BY ExecutedNow DEF CashInv, CCWithinCash
<1>1. ASSUME NEW m \in Movements, NEW c \in Clients, NEW k \in Kinds, NEW s \in Sides,
             NEW a \in Amounts, NEW f \in Formats, OpenPending(m, c, k, s, a, f)
      PROVE  CashInv'
  <2>1. line'[m].isPending /\ cash'[m] = NoCash /\ entries'[m] = 0 /\ status'[m] # "NONE"
    BY <1>1 DEF OpenPending, CashInv, NothingBefore, TypeOK
  <2>2. Moved(header'[m], line'[m], cash'[m]) = 0 /\ Signed(header'[m].side, entries'[m]) = 0
    BY <2>1, SignedZero DEF Moved, NoCash, Formats
  <2>3. \A n \in Movements \ {m} :
            /\ status'[n] = status[n] /\ header'[n] = header[n] /\ line'[n] = line[n]
            /\ cash'[n] = cash[n] /\ entries'[n] = entries[n]
    BY <1>1 DEF OpenPending, TypeOK
  <2> QED
    BY <1>a, <2>1, <2>2, <2>3, CashFrame
<1>2. ASSUME NEW r \in Requests, ExecutePartial(r)
      PROVE  CashInv'
  <2>1. PICK m \in Movements, a \in Amounts, f \in Formats, d \in Int :
             /\ PartialRows(m, a, f)
             /\ Deferred(m, a, d)
             /\ UNCHANGED <<status, header, ccEnabled>>
    BY <1>2, PartialEffect
  <2>2. /\ line[m].isPending /\ line'[m].isPending
        /\ cash'[m] = [cash[m] EXCEPT ![f] = @ + Signed(header[m].side, a)]
        /\ entries'[m] = entries[m] + d
        /\ header'[m] = header[m] /\ status'[m] = status[m]
    BY <2>1 DEF PartialRows, Deferred, TypeOK
  <2>3. header[m] \in Headers /\ line[m] \in Lines /\ line'[m] \in Lines
        /\ cash[m] \in [Formats -> Int] /\ entries[m] \in Int /\ a \in Nat
    BY <1>a DEF TypeOK, Amounts
  <2>4. Moved(header'[m], line'[m], cash'[m]) = Moved(header[m], line[m], cash[m]) + a
    BY <2>2, <2>3, PartialMoves
  <2>5. Signed(header'[m].side, entries'[m])
            \in {Signed(header[m].side, entries[m]), Signed(header[m].side, entries[m]) + a}
    BY <2>1, <2>2, <2>3, DeferredAdds DEF Deferred
  <2>6. \A n \in Movements \ {m} :
            /\ status'[n] = status[n] /\ header'[n] = header[n] /\ line'[n] = line[n]
            /\ cash'[n] = cash[n] /\ entries'[n] = entries[n]
    BY <2>1 DEF PartialRows, Deferred, TypeOK
  <2>7. status'[m] # "NONE"
    BY <1>b, <2>2
  <2>8. Moved(header[m], line[m], cash[m]) \in Int /\ Signed(header[m].side, entries[m]) \in Int
    BY <2>3, ExecutedSum, SignedType
  <2>9. 0 <= Signed(header'[m].side, entries'[m])
        /\ Signed(header'[m].side, entries'[m]) <= Moved(header'[m], line'[m], cash'[m])
    BY <1>c, <2>3, <2>4, <2>5, <2>8
  <2> QED
    BY <1>a, <2>6, <2>7, <2>9, CashFrame
<1>3. ASSUME NEW r \in Requests, ExecuteTotal(r)
      PROVE  CashInv'
  <2>1. PICK m \in Movements, a \in Amounts, f \in Formats, d \in Int :
             /\ TotalRows(m, a, f)
             /\ Deferred(m, a, d)
             /\ UNCHANGED <<status, header, cash, ccEnabled>>
    BY <1>3, TotalEffect
  <2>2. /\ line[m].isPending /\ ~line'[m].isPending /\ line'[m].amount = a
        /\ entries'[m] = entries[m] + d
        /\ cash'[m] = cash[m] /\ header'[m] = header[m] /\ status'[m] = status[m]
    BY <2>1 DEF TotalRows, Deferred, TypeOK
  <2>3. header[m] \in Headers /\ line[m] \in Lines /\ cash[m] \in [Formats -> Int]
        /\ entries[m] \in Int /\ a \in Nat
    BY DEF TypeOK, Amounts
  <2>4. Moved(header'[m], line'[m], cash'[m]) = Moved(header[m], line[m], cash[m]) + a
    <3>1. Signed(header[m].side, cash[m]["CASH"] + cash[m]["DIGITAL"]) \in Int
      BY <2>3, SignedType DEF Formats
    <3> QED
      BY <2>2, <2>3, <3>1 DEF Moved
  <2>5. Signed(header'[m].side, entries'[m])
            \in {Signed(header[m].side, entries[m]), Signed(header[m].side, entries[m]) + a}
    BY <2>1, <2>2, <2>3, DeferredAdds DEF Deferred
  <2>6. \A n \in Movements \ {m} :
            /\ status'[n] = status[n] /\ header'[n] = header[n] /\ line'[n] = line[n]
            /\ cash'[n] = cash[n] /\ entries'[n] = entries[n]
    BY <2>1 DEF TotalRows, Deferred, TypeOK
  <2>7. status'[m] # "NONE"
    BY <1>b, <2>2
  <2>8. Moved(header[m], line[m], cash[m]) \in Int /\ Signed(header[m].side, entries[m]) \in Int
    BY <2>3, ExecutedSum, SignedType
  <2>9. 0 <= Signed(header'[m].side, entries'[m])
        /\ Signed(header'[m].side, entries'[m]) <= Moved(header'[m], line'[m], cash'[m])
    BY <1>c, <2>3, <2>4, <2>5, <2>8
  <2> QED
    BY <1>a, <2>6, <2>7, <2>9, CashFrame
<1>4. ASSUME NEW r \in Requests, AnnulMovement(r)
      PROVE  CashInv'
  <2>1. PICK m \in Movements, listed \in [Formats -> Int] :
             /\ listed = NetReal(m)
             /\ status' = [status EXCEPT ![m] = "CANCELADA"]
             /\ cash' = [cash EXCEPT ![m] = [f \in Formats |-> cash[m][f] - listed[f]]]
             /\ entries' = [entries EXCEPT ![m] = 0]
             /\ UNCHANGED <<header, line>>
    BY <1>4, AnnulEffect
  <2>2. NetReal(m)' = NoCash
    BY <2>1, NetRealAfterAnnulment
  <2>3. Executed(m)' = 0
    BY <2>2, SignedZero DEF Executed, NoCash, Formats
  <2>4. Moved(header'[m], line'[m], cash'[m]) = 0
    BY <1>a, <2>3, ExecutedNext
  <2>5. entries'[m] = 0 /\ status'[m] # "NONE"
    BY <2>1 DEF TypeOK
  <2>6. Signed(header'[m].side, entries'[m]) = 0
    BY <2>5, SignedZero
  <2>7. \A n \in Movements \ {m} :
            /\ status'[n] = status[n] /\ header'[n] = header[n] /\ line'[n] = line[n]
            /\ cash'[n] = cash[n] /\ entries'[n] = entries[n]
    BY <2>1 DEF TypeOK
  <2> QED
    BY <1>a, <2>4, <2>5, <2>6, <2>7, CashFrame
<1>5. ASSUME UNCHANGED <<status, header, line, cash, entries>>
      PROVE  CashInv'
  BY <1>5, <1>a, CashUntouched
<1> QED
  BY <1>1, <1>2, <1>3, <1>4, <1>5
  DEF Next, vars, ToggleCC, ReadForExecution, ReadForCompensation, ReadForCancel,
      ReadForAnnulment, Compensate, CancelPending, RollBack

\* However requests overlap, the current account never records more than the
\* cash that really moved for a leg, nor the opposite of it.
THEOREM DeferredNeverAheadOfCash == Spec => []CCWithinCash
<1>1. TypeOK /\ CashInv /\ [Next]_vars => TypeOK' /\ CashInv'
  BY TypeStep, CashStep
<1>2. CashInv => CCWithinCash
  BY DEF CashInv
<1> QED
  BY TypeInit, CashInit, <1>1, <1>2, PTL DEF Spec

-----------------------------------------------------------------------------
(* The two tables of a leg                                                 *)

\* A step keeps TablesAgree if it keeps it for the only leg it writes.
LEMMA TablesFrame ==
    ASSUME TablesAgree, NEW m \in Movements,
           \A n \in Movements \ {m} : line'[n] = line[n] /\ pending'[n] = pending[n],
           line'[m].isPending =>
               /\ pending'[m].amount = line'[m].amount
               /\ ~(pending'[m].status = "RESUELTO" /\ pending'[m].mode = "REAL_EXECUTION")
    PROVE  TablesAgree'
BY DEF TablesAgree, LineMatchesPending, RealExecutionHasRealLine

\* The agreement of both tables is inductive, relative to the types.
LEMMA TablesStep == TypeOK /\ TablesAgree /\ [Next]_vars => TablesAgree'
<1> SUFFICES ASSUME TypeOK, TablesAgree, [Next]_vars PROVE TablesAgree'
  OBVIOUS
<1>0. \A n \in Movements :
          line[n].isPending =>
              /\ pending[n].amount = line[n].amount
              /\ ~(pending[n].status = "RESUELTO" /\ pending[n].mode = "REAL_EXECUTION")
  BY DEF TablesAgree, LineMatchesPending, RealExecutionHasRealLine
<1>1. ASSUME NEW m \in Movements, NEW c \in Clients, NEW k \in Kinds, NEW s \in Sides,
             NEW a \in Amounts, NEW f \in Formats, OpenPending(m, c, k, s, a, f)
      PROVE  TablesAgree'
  <2>1. pending'[m].amount = line'[m].amount /\ pending'[m].status = "ABIERTO"
    BY <1>1 DEF OpenPending, TypeOK
  <2>2. \A n \in Movements \ {m} : line'[n] = line[n] /\ pending'[n] = pending[n]
    BY <1>1 DEF OpenPending, TypeOK
  <2> QED
    BY <2>1, <2>2, TablesFrame
<1>2. ASSUME NEW r \in Requests, ExecutePartial(r)
      PROVE  TablesAgree'
  <2>1. PICK m \in Movements, a \in Amounts, f \in Formats : PartialRows(m, a, f)
    BY <1>2, PartialEffect
  <2>2. /\ line[m].isPending
        /\ line'[m].amount = line[m].amount - a
        /\ pending'[m].amount = pending[m].amount - a
        /\ pending'[m].status = pending[m].status /\ pending'[m].mode = pending[m].mode
    BY <2>1 DEF PartialRows, TypeOK
  <2>3. \A n \in Movements \ {m} : line'[n] = line[n] /\ pending'[n] = pending[n]
    BY <2>1 DEF PartialRows, TypeOK
  <2> QED
    BY <1>0, <2>2, <2>3, TablesFrame
<1>3. ASSUME NEW r \in Requests, ExecuteTotal(r)
      PROVE  TablesAgree'
  <2>1. PICK m \in Movements, a \in Amounts, f \in Formats : TotalRows(m, a, f)
    BY <1>3, TotalEffect
  <2>2. ~line'[m].isPending
    BY <2>1 DEF TotalRows, TypeOK
  <2>3. \A n \in Movements \ {m} : line'[n] = line[n] /\ pending'[n] = pending[n]
    BY <2>1 DEF TotalRows, TypeOK
  <2> QED
    BY <2>2, <2>3, TablesFrame
<1>4. ASSUME NEW r \in Requests, Compensate(r)
      PROVE  TablesAgree'
  <2>1. PICK m \in Movements, ref \in Movements :
            pending' = [pending EXCEPT ![m] = Resolved(pending[m], "COMPENSATED", ref)]
            /\ line' = line
    BY <1>4, CompensateEffect
  <2>2. pending'[m].amount = pending[m].amount /\ pending'[m].mode = "COMPENSATED"
    BY <2>1 DEF Resolved, TypeOK
  <2>3. \A n \in Movements \ {m} : line'[n] = line[n] /\ pending'[n] = pending[n]
    BY <2>1 DEF TypeOK
  <2> QED
    BY <1>0, <2>1, <2>2, <2>3, TablesFrame
<1>5. ASSUME NEW m \in Movements, line' = line,
             pending' = [pending EXCEPT ![m] = Cancelled(pending[m])]
      PROVE  TablesAgree'
  <2>1. pending'[m].amount = pending[m].amount /\ pending'[m].status = "CANCELADO"
    BY <1>5 DEF Cancelled, TypeOK
  <2>2. \A n \in Movements \ {m} : line'[n] = line[n] /\ pending'[n] = pending[n]
    BY <1>5 DEF TypeOK
  <2> QED
    BY <1>0, <1>5, <2>1, <2>2, TablesFrame
<1>6. ASSUME NEW r \in Requests, CancelPending(r)
      PROVE  TablesAgree'
  BY <1>5, <1>6, CancelEffect
<1>7. ASSUME NEW r \in Requests, AnnulMovement(r)
      PROVE  TablesAgree'
  BY <1>5, <1>7, AnnulEffect
<1>8. ASSUME UNCHANGED <<line, pending>>
      PROVE  TablesAgree'
  BY <1>8 DEF TablesAgree, LineMatchesPending, RealExecutionHasRealLine
<1> QED
  BY <1>1, <1>2, <1>3, <1>4, <1>6, <1>7, <1>8
  DEF Next, vars, ToggleCC, ReadForExecution, ReadForCompensation, ReadForCancel,
      ReadForAnnulment, RollBack

\* Both tables agree in every reachable state.
LEMMA TablesInvariant == Spec => [](TypeOK /\ TablesAgree)
<1>1. Init => TablesAgree
  BY DEF Init, TablesAgree, LineMatchesPending, RealExecutionHasRealLine, NoLine, NoPending
<1> QED
  BY <1>1, TypeInit, TypeStep, TablesStep, PTL DEF Spec

\* However requests overlap, every column keeps its type, the line and the item
\* of a pending leg agree on what is left, and an executed item has a real line.
THEOREM TablesAlwaysAgree == Spec => []TablesInv
BY TablesInvariant, PTL DEF TablesInv

-----------------------------------------------------------------------------
(* One request at a time                                                   *)

\* The handlers do not overlap.
OneRequest == \A r, s \in Requests : r = s

\* What a request has read of its item is still so when it writes.  This is
\* what another request in between would break, and what the two invariants
\* below need: a total execution is for all that is left, and nothing is
\* written to a leg that is no longer open.
SnapshotIsCurrent ==
    \A r \in Requests :
        /\ request[r].op \in {"EXECUTE_PARTIAL", "EXECUTE_TOTAL", "COMPENSATE", "CANCEL"} =>
               status[request[r].movement] # "NONE"
               /\ pending[request[r].movement].status = "ABIERTO"
        /\ request[r].op = "EXECUTE_TOTAL" =>
               request[r].amount = pending[request[r].movement].amount

SequentialInv == SnapshotIsCurrent /\ AmountConserved /\ AnnulledNetsToZero

\* What is left to execute of a leg.
Left(row) == IF row.isPending THEN row.amount ELSE 0

\* A step keeps both properties if it keeps them for the only leg it writes.
LEMMA SequentialFrame ==
    ASSUME TypeOK, TypeOK', AmountConserved, AnnulledNetsToZero, NEW m \in Movements,
           \A n \in Movements \ {m} :
               /\ status'[n] = status[n] /\ header'[n] = header[n] /\ line'[n] = line[n]
               /\ cash'[n] = cash[n] /\ entries'[n] = entries[n] /\ pending'[n] = pending[n],
           status'[m] = "CONFIRMADA" =>
               Moved(header'[m], line'[m], cash'[m]) + Left(line'[m]) = header'[m].amount,
           status'[m] = "CANCELADA" =>
               NetReal(m)' = NoCash /\ entries'[m] = 0 /\ pending'[m].status = "CANCELADO"
    PROVE  AmountConserved' /\ AnnulledNetsToZero'
<1>1. ASSUME NEW n \in Movements, n # m
      PROVE  NetReal(n)' = NetReal(n)
  BY <1>1 DEF NetReal
<1>2. ASSUME NEW n \in Movements, n # m
      PROVE  Executed(n)' = Executed(n)
  BY <1>1, <1>2 DEF Executed
<1>3. Executed(m)' = Moved(header'[m], line'[m], cash'[m])
  BY ExecutedNext
<1>4. AmountConserved'
  BY <1>2, <1>3 DEF AmountConserved, Left
<1>5. AnnulledNetsToZero'
  BY <1>1 DEF AnnulledNetsToZero
<1> QED
  BY <1>4, <1>5

\* Once the only request has written, nothing is in flight.
LEMMA SnapshotAfterWrite ==
    ASSUME OneRequest, TypeOK, NEW r \in Requests, request' = [request EXCEPT ![r] = Idle]
    PROVE  SnapshotIsCurrent'
<1>1. \A s \in Requests : request'[s] = Idle
  BY DEF OneRequest, TypeOK
<1> QED
  BY <1>1 DEF SnapshotIsCurrent, Idle

\* A read changes no row.
LEMMA SequentialUntouched ==
    ASSUME TypeOK, TypeOK', AmountConserved, AnnulledNetsToZero,
           UNCHANGED <<status, header, line, pending, cash, entries>>
    PROVE  AmountConserved' /\ AnnulledNetsToZero'
<1>1. \A n \in Movements : NetReal(n)' = NetReal(n)
  BY DEF NetReal
<1>2. \A n \in Movements : Executed(n)' = Executed(n)
  BY <1>1 DEF Executed
<1> QED
  BY <1>1, <1>2 DEF AmountConserved, AnnulledNetsToZero

\* With one request, what it read is current when it writes, so the
\* strengthening is inductive.
LEMMA SequentialStep ==
    ASSUME OneRequest, TypeOK, TablesAgree, CashInv, SequentialInv, [Next]_vars
    PROVE  SequentialInv'
<1>a. TypeOK'
  BY TypeStep
<1>b. SnapshotIsCurrent /\ AmountConserved /\ AnnulledNetsToZero
  BY DEF SequentialInv
<1>c. \A m \in Movements :
          status[m] = "CONFIRMADA" =>
              Moved(header[m], line[m], cash[m]) + Left(line[m]) = header[m].amount
  BY <1>b, ExecutedNow DEF AmountConserved, Left
<1>1. ASSUME NEW m \in Movements, NEW c \in Clients, NEW k \in Kinds, NEW s \in Sides,
             NEW a \in Amounts, NEW f \in Formats, OpenPending(m, c, k, s, a, f)
      PROVE  SequentialInv'
  <2>1. /\ line'[m].isPending /\ line'[m].amount = a /\ header'[m].amount = a
        /\ cash'[m] = NoCash /\ status'[m] = "CONFIRMADA"
    BY <1>1 DEF OpenPending, CashInv, NothingBefore, TypeOK
  <2>2. Moved(header'[m], line'[m], cash'[m]) + Left(line'[m]) = header'[m].amount
    BY <2>1, SignedZero DEF Moved, Left, NoCash, Formats, Amounts
  <2>3. \A n \in Movements \ {m} :
            /\ status'[n] = status[n] /\ header'[n] = header[n] /\ line'[n] = line[n]
            /\ cash'[n] = cash[n] /\ entries'[n] = entries[n] /\ pending'[n] = pending[n]
    BY <1>1 DEF OpenPending, TypeOK
  <2>4. AmountConserved' /\ AnnulledNetsToZero'
    BY <1>a, <1>b, <2>1, <2>2, <2>3, SequentialFrame
  <2>5. request' = request /\ status[m] = "NONE"
    BY <1>1 DEF OpenPending
  <2>6. ASSUME NEW r \in Requests,
               request[r].op \in {"EXECUTE_PARTIAL", "EXECUTE_TOTAL", "COMPENSATE", "CANCEL"}
        PROVE  request[r].movement \in Movements /\ request[r].movement # m
    BY <1>b, <2>5, <2>6, RequestType
    DEF SnapshotIsCurrent, ExecutionRequests, CompensationRequests, CancelRequests
  <2>7. SnapshotIsCurrent'
    BY <1>b, <2>3, <2>5, <2>6 DEF SnapshotIsCurrent
  <2> QED
    BY <2>4, <2>7 DEF SequentialInv
<1>2. ASSUME NEW r \in Requests, ExecutePartial(r)
      PROVE  SequentialInv'
  <2>1. PICK m \in Movements, a \in Amounts, f \in Formats, d \in Int :
             /\ m = request[r].movement
             /\ PartialRows(m, a, f)
             /\ Deferred(m, a, d)
             /\ UNCHANGED <<status, header, ccEnabled>>
             /\ request' = [request EXCEPT ![r] = Idle]
    BY <1>2, PartialEffect
  <2>2. /\ line[m].isPending /\ line'[m].isPending /\ line'[m].amount = line[m].amount - a
        /\ cash'[m] = [cash[m] EXCEPT ![f] = @ + Signed(header[m].side, a)]
        /\ header'[m] = header[m] /\ status'[m] = status[m]
    BY <2>1 DEF PartialRows, TypeOK
  <2>3. header[m] \in Headers /\ line[m] \in Lines /\ line'[m] \in Lines
        /\ cash[m] \in [Formats -> Int] /\ a \in Nat
    BY <1>a DEF TypeOK, Amounts
  <2>4. Moved(header'[m], line'[m], cash'[m]) = Moved(header[m], line[m], cash[m]) + a
    BY <2>2, <2>3, PartialMoves
  <2>5. Moved(header[m], line[m], cash[m]) \in Int /\ line[m].amount \in Int
    BY <2>3, ExecutedSum DEF Lines
  <2>6. status'[m] = "CONFIRMADA" =>
            Moved(header'[m], line'[m], cash'[m]) + Left(line'[m]) = header'[m].amount
    <3>1. Left(line'[m]) = line[m].amount - a /\ Left(line[m]) = line[m].amount
      BY <2>2 DEF Left
    <3>2. Moved(header'[m], line'[m], cash'[m]) + Left(line'[m])
              = Moved(header[m], line[m], cash[m]) + Left(line[m])
      BY <2>3, <2>4, <2>5, <3>1
    <3> QED
      BY <1>c, <2>2, <3>2
  <2>7. status'[m] # "CANCELADA"
    BY <1>2, <1>b, <2>1, <2>2 DEF ExecutePartial, SnapshotIsCurrent, AnnulledNetsToZero
  <2>8. \A n \in Movements \ {m} :
            /\ status'[n] = status[n] /\ header'[n] = header[n] /\ line'[n] = line[n]
            /\ cash'[n] = cash[n] /\ entries'[n] = entries[n] /\ pending'[n] = pending[n]
    BY <2>1 DEF PartialRows, Deferred, TypeOK
  <2> QED
    BY <1>a, <1>b, <2>1, <2>6, <2>7, <2>8, SequentialFrame, SnapshotAfterWrite DEF SequentialInv
<1>3. ASSUME NEW r \in Requests, ExecuteTotal(r)
      PROVE  SequentialInv'
  <2>1. PICK m \in Movements, a \in Amounts, f \in Formats, d \in Int :
             /\ m = request[r].movement /\ a = request[r].amount
             /\ TotalRows(m, a, f)
             /\ Deferred(m, a, d)
             /\ UNCHANGED <<status, header, cash, ccEnabled>>
             /\ request' = [request EXCEPT ![r] = Idle]
    BY <1>3, TotalEffect
  <2>2. /\ line[m].isPending /\ ~line'[m].isPending /\ line'[m].amount = a
        /\ cash'[m] = cash[m] /\ header'[m] = header[m] /\ status'[m] = status[m]
    BY <2>1 DEF TotalRows, TypeOK
  <2>3. a = line[m].amount
    BY <1>3, <1>b, <2>1, <2>2
    DEF ExecuteTotal, SnapshotIsCurrent, TablesAgree, LineMatchesPending
  <2>4. header[m] \in Headers /\ cash[m] \in [Formats -> Int] /\ a \in Nat
    BY DEF TypeOK, Amounts
  <2>5. Signed(header[m].side, cash[m]["CASH"] + cash[m]["DIGITAL"]) \in Int
    BY <2>4, SignedType DEF Formats
  <2>6. Moved(header'[m], line'[m], cash'[m]) + Left(line'[m])
            = Moved(header[m], line[m], cash[m]) + Left(line[m])
    BY <2>2, <2>3, <2>4, <2>5 DEF Moved, Left
  <2>7. status'[m] # "CANCELADA"
    BY <1>3, <1>b, <2>1, <2>2 DEF ExecuteTotal, SnapshotIsCurrent, AnnulledNetsToZero
  <2>8. \A n \in Movements \ {m} :
            /\ status'[n] = status[n] /\ header'[n] = header[n] /\ line'[n] = line[n]
            /\ cash'[n] = cash[n] /\ entries'[n] = entries[n] /\ pending'[n] = pending[n]
    BY <2>1 DEF TotalRows, Deferred, TypeOK
  <2>9. status'[m] = "CONFIRMADA" =>
            Moved(header'[m], line'[m], cash'[m]) + Left(line'[m]) = header'[m].amount
    <3>1. status[m] = "CONFIRMADA" =>
              Moved(header[m], line[m], cash[m]) + Left(line[m]) = header[m].amount
      BY <1>c
    <3> QED
      BY <2>2, <2>6, <3>1
  <2>10. AmountConserved' /\ AnnulledNetsToZero'
    BY <1>a, <1>b, <2>7, <2>8, <2>9, SequentialFrame
  <2> QED
    BY <1>b, <2>1, <2>10, SnapshotAfterWrite DEF SequentialInv
<1>4. ASSUME NEW r \in Requests, NEW m \in Movements, NEW item,
             m = request[r].movement,
             request[r].op \in {"COMPENSATE", "CANCEL"},
             pending' = [pending EXCEPT ![m] = item],
             UNCHANGED <<status, header, line, cash, entries, balance, ccEnabled>>,
             request' = [request EXCEPT ![r] = Idle]
      PROVE  SequentialInv'
  <2>1. status'[m] # "CANCELADA"
    BY <1>4, <1>b DEF SnapshotIsCurrent, AnnulledNetsToZero
  <2>2. \A n \in Movements \ {m} :
            /\ status'[n] = status[n] /\ header'[n] = header[n] /\ line'[n] = line[n]
            /\ cash'[n] = cash[n] /\ entries'[n] = entries[n] /\ pending'[n] = pending[n]
    BY <1>4 DEF TypeOK
  <2> QED
    BY <1>4, <1>a, <1>b, <1>c, <2>1, <2>2, SequentialFrame, SnapshotAfterWrite DEF SequentialInv
<1>5. ASSUME NEW r \in Requests, Compensate(r)
      PROVE  SequentialInv'
  BY <1>4, <1>5, CompensateEffect DEF Compensate
<1>6. ASSUME NEW r \in Requests, CancelPending(r)
      PROVE  SequentialInv'
  BY <1>4, <1>6, CancelEffect DEF CancelPending
<1>7. ASSUME NEW r \in Requests, AnnulMovement(r)
      PROVE  SequentialInv'
  <2>1. PICK m \in Movements, listed \in [Formats -> Int] :
             /\ listed = NetReal(m)
             /\ status' = [status EXCEPT ![m] = "CANCELADA"]
             /\ cash' = [cash EXCEPT ![m] = [f \in Formats |-> cash[m][f] - listed[f]]]
             /\ entries' = [entries EXCEPT ![m] = 0]
             /\ pending' = [pending EXCEPT ![m] = Cancelled(pending[m])]
             /\ UNCHANGED <<header, line, ccEnabled>>
             /\ request' = [request EXCEPT ![r] = Idle]
    BY <1>7, AnnulEffect
  <2>2. NetReal(m)' = NoCash
    BY <2>1, NetRealAfterAnnulment
  <2>3. entries'[m] = 0 /\ pending'[m].status = "CANCELADO" /\ status'[m] = "CANCELADA"
    BY <2>1 DEF Cancelled, TypeOK
  <2>4. \A n \in Movements \ {m} :
            /\ status'[n] = status[n] /\ header'[n] = header[n] /\ line'[n] = line[n]
            /\ cash'[n] = cash[n] /\ entries'[n] = entries[n] /\ pending'[n] = pending[n]
    BY <2>1 DEF TypeOK
  <2> QED
    BY <1>a, <1>b, <2>1, <2>2, <2>3, <2>4, SequentialFrame, SnapshotAfterWrite DEF SequentialInv
<1>8. ASSUME NEW r \in Requests, NEW q, request' = [request EXCEPT ![r] = q],
             q.op \in {"EXECUTE_PARTIAL", "EXECUTE_TOTAL", "COMPENSATE", "CANCEL"} =>
                 status[q.movement] # "NONE" /\ pending[q.movement].status = "ABIERTO",
             q.op = "EXECUTE_TOTAL" => q.amount = pending[q.movement].amount,
             UNCHANGED <<status, header, line, cash, entries, pending>>
      PROVE  SequentialInv'
  <2>1. \A s \in Requests : request'[s] = q
    BY <1>8 DEF OneRequest, TypeOK
  <2>2. SnapshotIsCurrent'
    BY <1>8, <2>1 DEF SnapshotIsCurrent
  <2> QED
    BY <1>8, <1>a, <1>b, <2>2, SequentialUntouched DEF SequentialInv
<1>9. ASSUME NEW r \in Requests, NEW m \in Movements, NEW a \in Amounts, NEW f \in Formats,
             ReadForExecution(r, m, a, f)
      PROVE  SequentialInv'
  <2>1. a \in Int /\ pending[m].amount \in Int
    BY DEF TypeOK, PendingItems, Amounts
  <2>2. a <= pending[m].amount
    BY <1>9 DEF ReadForExecution, Payable
  <2>3. a < pending[m].amount \/ a = pending[m].amount
    BY <2>1, <2>2
  <2> DEFINE q == [op       |-> IF a < pending[m].amount THEN "EXECUTE_PARTIAL"
                                                        ELSE "EXECUTE_TOTAL",
                   movement |-> m, amount |-> a, format |-> f,
                   applyCC  |-> ccEnabled[header[m].client]
                                /\ AppliesCCOnResolve(header[m].kind)]
  <2>4. request' = [request EXCEPT ![r] = q]
        /\ UNCHANGED <<status, header, line, cash, entries, pending>>
    BY <1>9 DEF ReadForExecution
  <2>5. status[m] # "NONE" /\ pending[m].status = "ABIERTO"
    BY <1>9 DEF ReadForExecution, IsOpen
  <2>6. q.op = "EXECUTE_TOTAL" => q.amount = pending[q.movement].amount
    BY <2>3
  <2>7. q.movement = m
    OBVIOUS
  <2> HIDE DEF q
  <2> QED
    BY <1>8, <2>4, <2>5, <2>6, <2>7
<1>10. ASSUME NEW r \in Requests, NEW m \in Movements, NEW ref \in Movements,
              ReadForCompensation(r, m, ref)
       PROVE  SequentialInv'
  BY <1>8, <1>10 DEF ReadForCompensation, IsOpen
<1>11. ASSUME NEW r \in Requests, NEW m \in Movements, ReadForCancel(r, m)
       PROVE  SequentialInv'
  BY <1>8, <1>11 DEF ReadForCancel, IsOpen
<1>12. ASSUME NEW r \in Requests, NEW m \in Movements, ReadForAnnulment(r, m)
       PROVE  SequentialInv'
  BY <1>8, <1>12 DEF ReadForAnnulment
<1>13. ASSUME NEW r \in Requests, RollBack(r)
       PROVE  SequentialInv'
  BY <1>8, <1>13 DEF RollBack, Finish, Idle
<1>14. ASSUME UNCHANGED <<status, header, line, cash, entries, pending, request>>
       PROVE  SequentialInv'
  <2>1. SnapshotIsCurrent'
    BY <1>14, <1>b DEF SnapshotIsCurrent
  <2> QED
    BY <1>14, <1>a, <1>b, <2>1, SequentialUntouched DEF SequentialInv
<1> QED
  BY <1>1, <1>2, <1>3, <1>5, <1>6, <1>7, <1>9, <1>10, <1>11, <1>12, <1>13, <1>14
  DEF Next, vars, ToggleCC

\* The strengthening holds in every reachable state of one request.
LEMMA SequentialInvariant ==
    ASSUME OneRequest
    PROVE  Spec => [](TypeOK /\ TablesAgree /\ CashInv /\ SequentialInv)
<1>1. Init => TablesAgree
  BY DEF Init, TablesAgree, LineMatchesPending, RealExecutionHasRealLine, NoLine, NoPending
<1>2. Init => SequentialInv
  BY DEF Init, SequentialInv, SnapshotIsCurrent, AmountConserved, AnnulledNetsToZero, Idle
<1>3. TypeOK /\ TablesAgree /\ CashInv /\ SequentialInv /\ [Next]_vars
          => TypeOK' /\ TablesAgree' /\ CashInv' /\ SequentialInv'
  BY TypeStep, TablesStep, CashStep, SequentialStep
<1> QED
  BY <1>1, <1>2, <1>3, TypeInit, CashInit, PTL DEF Spec

\* When requests do not overlap, resolving a leg in instalments keeps its
\* total: executed and pending add up to the amount of the operation.
THEOREM InstalmentsAddUp ==
    ASSUME OneRequest
    PROVE  Spec => []AmountConserved
<1>1. SequentialInv => AmountConserved
  BY DEF SequentialInv
<1> QED
  BY <1>1, SequentialInvariant, PTL

\* When requests do not overlap, an annulled movement leaves no real cash, no
\* entry and no item that is not cancelled.
THEOREM AnnulmentLeavesNothing ==
    ASSUME OneRequest
    PROVE  Spec => []AnnulledNetsToZero
<1>1. SequentialInv => AnnulledNetsToZero
  BY DEF SequentialInv
<1> QED
  BY <1>1, SequentialInvariant, PTL

\* A step that moves the cash of a leg executes it while it is open, opens it
\* or annuls it.
LEMMA ClosedStep ==
    ASSUME TypeOK, SnapshotIsCurrent, [Next]_vars, NEW m \in Movements,
           status[m] = "CONFIRMADA", status'[m] = "CONFIRMADA", pending[m].status # "ABIERTO"
    PROVE  NetReal(m)' = NetReal(m)
<1>1. SUFFICES line'[m] = line[m] /\ cash'[m] = cash[m] /\ header'[m] = header[m]
  BY DEF NetReal
<1>2. ASSUME NEW n \in Movements, NEW c \in Clients, NEW k \in Kinds, NEW s \in Sides,
             NEW a \in Amounts, NEW f \in Formats, OpenPending(n, c, k, s, a, f)
      PROVE  line'[m] = line[m] /\ cash'[m] = cash[m] /\ header'[m] = header[m]
  BY <1>2 DEF OpenPending, TypeOK
<1>3. ASSUME NEW r \in Requests, ExecutePartial(r)
      PROVE  line'[m] = line[m] /\ cash'[m] = cash[m] /\ header'[m] = header[m]
  <2>1. PICK n \in Movements, a \in Amounts, f \in Formats :
            n = request[r].movement /\ PartialRows(n, a, f) /\ header' = header
    BY <1>3, PartialEffect
  <2>2. n # m
    BY <1>3, <2>1 DEF ExecutePartial, SnapshotIsCurrent
  <2> QED
    BY <2>1, <2>2 DEF PartialRows, TypeOK
<1>4. ASSUME NEW r \in Requests, ExecuteTotal(r)
      PROVE  line'[m] = line[m] /\ cash'[m] = cash[m] /\ header'[m] = header[m]
  <2>1. PICK n \in Movements, a \in Amounts, f \in Formats :
            n = request[r].movement /\ TotalRows(n, a, f) /\ UNCHANGED <<cash, header>>
    BY <1>4, TotalEffect
  <2>2. n # m
    BY <1>4, <2>1 DEF ExecuteTotal, SnapshotIsCurrent
  <2> QED
    BY <2>1, <2>2 DEF TotalRows, TypeOK
<1>5. ASSUME NEW r \in Requests, AnnulMovement(r)
      PROVE  line'[m] = line[m] /\ cash'[m] = cash[m] /\ header'[m] = header[m]
  <2>1. PICK n \in Movements, listed \in [Formats -> Int] :
             /\ status' = [status EXCEPT ![n] = "CANCELADA"]
             /\ cash' = [cash EXCEPT ![n] = [f \in Formats |-> cash[n][f] - listed[f]]]
             /\ UNCHANGED <<header, line>>
    BY <1>5, AnnulEffect
  <2>2. n # m
    BY <2>1 DEF TypeOK
  <2> QED
    BY <2>1, <2>2 DEF TypeOK
<1>6. CASE UNCHANGED <<line, cash, header>>
  BY <1>6
<1> QED
  BY <1>2, <1>3, <1>4, <1>5, <1>6
  DEF Next, vars, ToggleCC, ReadForExecution, ReadForCompensation, ReadForCancel,
      ReadForAnnulment, Compensate, CancelPending, RollBack

\* When requests do not overlap, only the annulment of its movement moves the
\* cash of a leg whose item is closed.
THEOREM ClosedItemMovesNoCash ==
    ASSUME OneRequest
    PROVE  Spec => ClosedMovesNoCash
<1>1. TypeOK /\ SequentialInv /\ [Next]_vars =>
          [\A m \in Movements :
              /\ status[m] = "CONFIRMADA"
              /\ status'[m] = "CONFIRMADA"
              /\ pending[m].status # "ABIERTO"
              => NetReal(m)' = NetReal(m)]_vars
  BY ClosedStep DEF SequentialInv
<1> QED
  BY <1>1, SequentialInvariant, PTL DEF Spec, ClosedMovesNoCash

-----------------------------------------------------------------------------
(* The services implement the obligation                                   *)

\* What the obligation sees as owed on, and as paid on, the leg of a movement.
Owed(m) == IF Phase(m) = "OPEN" THEN line[m].amount ELSE 0
Paid(m) == IF status[m] = "NONE" THEN 0 ELSE Executed(m)

\* An item of a confirmed movement that is open still has its pending line: a
\* compensation or a cancellation of it waives money that is really owed.
OpenHasLine ==
    \A m \in Movements :
        status[m] = "CONFIRMADA" /\ pending[m].status = "ABIERTO" => line[m].isPending

\* Only a request that read an open item writes to it, so with one request an
\* open item keeps its line.
LEMMA OpenHasLineStep ==
    ASSUME TypeOK, SnapshotIsCurrent, OpenHasLine, [Next]_vars
    PROVE  OpenHasLine'
<1>1. ASSUME NEW m \in Movements, NEW c \in Clients, NEW k \in Kinds, NEW s \in Sides,
             NEW a \in Amounts, NEW f \in Formats, OpenPending(m, c, k, s, a, f)
      PROVE  OpenHasLine'
  BY <1>1 DEF OpenPending, OpenHasLine, TypeOK
<1>2. ASSUME NEW r \in Requests, ExecutePartial(r)
      PROVE  OpenHasLine'
  <2>1. PICK m \in Movements, a \in Amounts, f \in Formats :
            PartialRows(m, a, f) /\ status' = status
    BY <1>2, PartialEffect
  <2> QED
    BY <2>1 DEF PartialRows, OpenHasLine, TypeOK
<1>3. ASSUME NEW r \in Requests, ExecuteTotal(r)
      PROVE  OpenHasLine'
  <2>1. PICK m \in Movements, a \in Amounts, f \in Formats :
            TotalRows(m, a, f) /\ status' = status
    BY <1>3, TotalEffect
  <2>2. pending'[m].status = "RESUELTO"
    BY <2>1 DEF TotalRows, Resolved, TypeOK
  <2> QED
    BY <2>1, <2>2 DEF TotalRows, OpenHasLine, TypeOK
<1>4. ASSUME NEW m \in Movements, NEW item, item.status # "ABIERTO",
             pending' = [pending EXCEPT ![m] = item], UNCHANGED <<status, line>>
      PROVE  OpenHasLine'
  BY <1>4 DEF OpenHasLine, TypeOK
<1>5. ASSUME NEW r \in Requests, Compensate(r)
      PROVE  OpenHasLine'
  <2>1. PICK m \in Movements, ref \in Movements :
            pending' = [pending EXCEPT ![m] = Resolved(pending[m], "COMPENSATED", ref)]
            /\ UNCHANGED <<status, line>>
    BY <1>5, CompensateEffect
  <2>2. Resolved(pending[m], "COMPENSATED", ref).status # "ABIERTO"
    BY DEF Resolved
  <2> QED
    BY <1>4, <2>1, <2>2
<1>6. ASSUME NEW r \in Requests, CancelPending(r)
      PROVE  OpenHasLine'
  BY <1>4, <1>6, CancelEffect DEF Cancelled
<1>7. ASSUME NEW r \in Requests, AnnulMovement(r)
      PROVE  OpenHasLine'
  <2>1. PICK m \in Movements :
            /\ status' = [status EXCEPT ![m] = "CANCELADA"]
            /\ pending' = [pending EXCEPT ![m] = Cancelled(pending[m])]
            /\ line' = line
    BY <1>7, AnnulEffect
  <2> QED
    BY <2>1 DEF OpenHasLine, TypeOK
<1>8. CASE UNCHANGED <<status, line, pending>>
  BY <1>8 DEF OpenHasLine
<1> QED
  BY <1>1, <1>2, <1>3, <1>5, <1>6, <1>7, <1>8
  DEF Next, vars, ToggleCC, ReadForExecution, ReadForCompensation, ReadForCancel,
      ReadForAnnulment, RollBack

\* A leg whose rows a step leaves alone is the same obligation after it.
LEMMA SameObligation ==
    ASSUME NEW n \in Movements,
           status'[n] = status[n], header'[n] = header[n], line'[n] = line[n],
           cash'[n] = cash[n], pending'[n] = pending[n]
    PROVE  Phase(n)' = Phase(n) /\ Owed(n)' = Owed(n) /\ Paid(n)' = Paid(n)
<1>1. Phase(n)' = Phase(n)
  BY DEF Phase
<1>2. NetReal(n)' = NetReal(n)
  BY DEF NetReal
<1>3. Executed(n)' = Executed(n)
  BY <1>2 DEF Executed
<1> QED
  BY <1>1, <1>3 DEF Owed, Paid

\* A change of one obligation that the abstract specification allows is a step of it.
LEMMA RegisterMaps ==
    ASSUME NEW m \in Movements, NEW a \in Amounts,
           \A n \in Movements \ {m} :
               Phase(n)' = Phase(n) /\ Owed(n)' = Owed(n) /\ Paid(n)' = Paid(n),
           Phase(m) = "NONE", Phase(m)' = "OPEN", Owed(m)' = a, Paid(m)' = Paid(m)
    PROVE  Obligation!Next
<1>1. Obligation!Register(m, a)
  BY DEF Obligation!Register, Owed, Paid
<1> QED
  BY <1>1 DEF Obligation!Next, Amounts

\* The same, for an instalment.
LEMMA PayMaps ==
    ASSUME NEW m \in Movements, NEW a \in Amounts,
           \A n \in Movements \ {m} :
               Phase(n)' = Phase(n) /\ Owed(n)' = Owed(n) /\ Paid(n)' = Paid(n),
           Phase(m) = "OPEN", a <= Owed(m), Owed(m)' = Owed(m) - a, Paid(m)' = Paid(m) + a,
           Phase(m)' = IF a = Owed(m) THEN "SETTLED" ELSE "OPEN"
    PROVE  Obligation!Next
<1>1. Obligation!Pay(m, a)
  BY DEF Obligation!Pay, Owed, Paid
<1> QED
  BY <1>1 DEF Obligation!Next, Amounts

\* The same, for a debt that is waived.
LEMMA WaiveMaps ==
    ASSUME NEW m \in Movements,
           \A n \in Movements \ {m} :
               Phase(n)' = Phase(n) /\ Owed(n)' = Owed(n) /\ Paid(n)' = Paid(n),
           Phase(m) = "OPEN", Phase(m)' = "WAIVED", Owed(m)' = 0, Paid(m)' = Paid(m)
    PROVE  Obligation!Next
<1>1. Obligation!Waive(m)
  BY DEF Obligation!Waive, Owed, Paid
<1> QED
  BY <1>1 DEF Obligation!Next

\* The same, for an annulment.
LEMMA AnnulMaps ==
    ASSUME NEW m \in Movements,
           \A n \in Movements \ {m} :
               Phase(n)' = Phase(n) /\ Owed(n)' = Owed(n) /\ Paid(n)' = Paid(n),
           Phase(m) \in {"OPEN", "SETTLED", "WAIVED"}, Phase(m)' = "ANNULLED",
           Owed(m)' = 0, Paid(m)' = 0
    PROVE  Obligation!Next
<1>1. Obligation!Annul(m)
  BY DEF Obligation!Annul, Owed, Paid
<1> QED
  BY <1>1 DEF Obligation!Next

\* No movement, no obligation.
LEMMA ObligationInit == Init => Obligation!Init
BY DEF Init, Obligation!Init, Phase

\* Every step of one request is a step of the obligations or leaves them alone.
LEMMA ObligationStep ==
    ASSUME OneRequest, TypeOK, TablesAgree, CashInv, SequentialInv, OpenHasLine, [Next]_vars
    PROVE  [Obligation!Next]_(Obligation!vars)
<1>a. TypeOK'
  BY TypeStep
<1>b. SnapshotIsCurrent /\ AnnulledNetsToZero
  BY DEF SequentialInv
<1>1. ASSUME NEW m \in Movements, NEW c \in Clients, NEW k \in Kinds, NEW s \in Sides,
             NEW a \in Amounts, NEW f \in Formats, OpenPending(m, c, k, s, a, f)
      PROVE  Obligation!Next
  <2>1. \A n \in Movements \ {m} :
            Phase(n)' = Phase(n) /\ Owed(n)' = Owed(n) /\ Paid(n)' = Paid(n)
    BY <1>1, SameObligation DEF OpenPending, TypeOK
  <2>2. /\ status[m] = "NONE" /\ status'[m] = "CONFIRMADA" /\ pending'[m].status = "ABIERTO"
        /\ line'[m].isPending /\ line'[m].amount = a /\ cash'[m] = NoCash
    BY <1>1 DEF OpenPending, CashInv, NothingBefore, TypeOK
  <2>3. Phase(m) = "NONE" /\ Phase(m)' = "OPEN"
    BY <2>2 DEF Phase
  <2>4. Executed(m)' = Moved(header'[m], line'[m], cash'[m])
    BY <1>a, ExecutedNext
  <2>5. Executed(m)' = 0
    BY <2>2, <2>4, SignedZero DEF Moved, NoCash, Formats
  <2>6. Owed(m)' = a /\ Paid(m)' = Paid(m)
    BY <2>2, <2>3, <2>5 DEF Owed, Paid
  <2> QED
    BY <2>1, <2>3, <2>6, RegisterMaps
<1>2. ASSUME NEW r \in Requests, ExecutePartial(r)
      PROVE  Obligation!Next
  <2>1. PICK m \in Movements, a \in Amounts, f \in Formats, d \in Int :
             /\ m = request[r].movement
             /\ PartialRows(m, a, f)
             /\ Deferred(m, a, d)
             /\ UNCHANGED <<status, header, ccEnabled>>
    BY <1>2, PartialEffect
  <2>2. \A n \in Movements \ {m} :
            Phase(n)' = Phase(n) /\ Owed(n)' = Owed(n) /\ Paid(n)' = Paid(n)
    BY <2>1, SameObligation DEF PartialRows, TypeOK
  <2>3. status[m] = "CONFIRMADA" /\ pending[m].status = "ABIERTO"
    BY <1>2, <1>b, <2>1 DEF ExecutePartial, SnapshotIsCurrent, AnnulledNetsToZero, TypeOK
  <2>4. /\ line[m].isPending /\ line'[m].isPending /\ a < line[m].amount
        /\ line'[m].amount = line[m].amount - a
        /\ cash'[m] = [cash[m] EXCEPT ![f] = @ + Signed(header[m].side, a)]
        /\ header'[m] = header[m] /\ status'[m] = status[m]
        /\ pending'[m].status = pending[m].status
    BY <2>1 DEF PartialRows, TypeOK
  <2>5. Phase(m) = "OPEN" /\ Phase(m)' = "OPEN"
    BY <2>3, <2>4 DEF Phase
  <2>6. header[m] \in Headers /\ line[m] \in Lines /\ line'[m] \in Lines
        /\ cash[m] \in [Formats -> Int] /\ a \in Nat
    BY <1>a DEF TypeOK, Amounts
  <2>7. Moved(header'[m], line'[m], cash'[m]) = Moved(header[m], line[m], cash[m]) + a
    BY <2>4, <2>6, PartialMoves
  <2>8. Paid(m)' = Paid(m) + a
    BY <1>a, <2>3, <2>4, <2>7, ExecutedNow, ExecutedNext DEF Paid
  <2>9. Owed(m) = line[m].amount /\ Owed(m)' = Owed(m) - a
    BY <2>4, <2>5 DEF Owed
  <2>10. a <= Owed(m) /\ a # Owed(m)
    BY <2>4, <2>6, <2>9 DEF Lines
  <2> QED
    BY <2>2, <2>5, <2>8, <2>9, <2>10, PayMaps
<1>3. ASSUME NEW r \in Requests, ExecuteTotal(r)
      PROVE  Obligation!Next
  <2>1. PICK m \in Movements, a \in Amounts, f \in Formats, d \in Int :
             /\ m = request[r].movement /\ a = request[r].amount
             /\ TotalRows(m, a, f)
             /\ UNCHANGED <<status, header, cash, ccEnabled>>
    BY <1>3, TotalEffect
  <2>2. \A n \in Movements \ {m} :
            Phase(n)' = Phase(n) /\ Owed(n)' = Owed(n) /\ Paid(n)' = Paid(n)
    BY <2>1, SameObligation DEF TotalRows, TypeOK
  <2>3. status[m] = "CONFIRMADA" /\ pending[m].status = "ABIERTO"
    BY <1>3, <1>b, <2>1 DEF ExecuteTotal, SnapshotIsCurrent, AnnulledNetsToZero, TypeOK
  <2>4. /\ line[m].isPending /\ ~line'[m].isPending /\ line'[m].amount = a
        /\ cash'[m] = cash[m] /\ header'[m] = header[m] /\ status'[m] = status[m]
        /\ pending'[m].status = "RESUELTO"
    BY <2>1 DEF TotalRows, Resolved, TypeOK
  <2>5. a = line[m].amount
    BY <1>3, <1>b, <2>1, <2>4
    DEF ExecuteTotal, SnapshotIsCurrent, TablesAgree, LineMatchesPending
  <2>6. Phase(m) = "OPEN" /\ Phase(m)' = "SETTLED"
    BY <2>3, <2>4 DEF Phase
  <2>7. header[m] \in Headers /\ cash[m] \in [Formats -> Int] /\ a \in Nat
    BY DEF TypeOK, Amounts
  <2>8. Signed(header[m].side, cash[m]["CASH"] + cash[m]["DIGITAL"]) \in Int
    BY <2>7, SignedType DEF Formats
  <2>9. Moved(header'[m], line'[m], cash'[m]) = Moved(header[m], line[m], cash[m]) + a
    BY <2>4, <2>7, <2>8 DEF Moved
  <2>10. Paid(m)' = Paid(m) + a
    BY <1>a, <2>3, <2>4, <2>9, ExecutedNow, ExecutedNext DEF Paid
  <2>11. Owed(m) = a /\ Owed(m)' = Owed(m) - a /\ a <= Owed(m)
    BY <2>5, <2>6, <2>7 DEF Owed
  <2> QED
    BY <2>2, <2>6, <2>10, <2>11, PayMaps
<1>4. ASSUME NEW r \in Requests, NEW m \in Movements, NEW item,
             m = request[r].movement, request[r].op \in {"COMPENSATE", "CANCEL"},
             item.status # "ABIERTO", pending' = [pending EXCEPT ![m] = item],
             UNCHANGED <<status, header, line, cash>>
      PROVE  Obligation!Next
  <2>1. \A n \in Movements \ {m} :
            Phase(n)' = Phase(n) /\ Owed(n)' = Owed(n) /\ Paid(n)' = Paid(n)
    BY <1>4, SameObligation DEF TypeOK
  <2>2. status[m] = "CONFIRMADA" /\ pending[m].status = "ABIERTO"
    BY <1>4, <1>b DEF SnapshotIsCurrent, AnnulledNetsToZero, TypeOK
  <2>3. line[m].isPending /\ pending'[m].status # "ABIERTO"
    BY <1>4, <2>2 DEF OpenHasLine, TypeOK
  <2>4. Phase(m) = "OPEN" /\ Phase(m)' = "WAIVED"
    BY <1>4, <2>2, <2>3 DEF Phase
  <2>5. NetReal(m)' = NetReal(m)
    BY <1>4 DEF NetReal
  <2>6. Owed(m)' = 0 /\ Paid(m)' = Paid(m)
    BY <1>4, <2>4, <2>5 DEF Owed, Paid, Executed
  <2> QED
    BY <2>1, <2>4, <2>6, WaiveMaps
<1>5. ASSUME NEW r \in Requests, Compensate(r)
      PROVE  Obligation!Next
  <2>1. PICK m \in Movements, ref \in Movements :
            /\ m = request[r].movement
            /\ pending' = [pending EXCEPT ![m] = Resolved(pending[m], "COMPENSATED", ref)]
            /\ UNCHANGED <<status, header, line, cash>>
    BY <1>5, CompensateEffect DEF Compensate
  <2>2. Resolved(pending[m], "COMPENSATED", ref).status # "ABIERTO"
    BY DEF Resolved
  <2>3. request[r].op = "COMPENSATE"
    BY <1>5 DEF Compensate
  <2> QED
    BY <1>4, <2>1, <2>2, <2>3
<1>6. ASSUME NEW r \in Requests, CancelPending(r)
      PROVE  Obligation!Next
  <2>1. PICK m \in Movements :
            /\ m = request[r].movement
            /\ pending' = [pending EXCEPT ![m] = Cancelled(pending[m])]
            /\ UNCHANGED <<status, header, line, cash>>
    BY <1>6, CancelEffect
  <2>2. Cancelled(pending[m]).status # "ABIERTO"
    BY DEF Cancelled
  <2>3. request[r].op = "CANCEL"
    BY <1>6 DEF CancelPending
  <2> QED
    BY <1>4, <2>1, <2>2, <2>3
<1>7. ASSUME NEW r \in Requests, AnnulMovement(r)
      PROVE  Obligation!Next
  <2>1. PICK m \in Movements, listed \in [Formats -> Int] :
             /\ status[m] = "CONFIRMADA"
             /\ listed = NetReal(m)
             /\ status' = [status EXCEPT ![m] = "CANCELADA"]
             /\ cash' = [cash EXCEPT ![m] = [f \in Formats |-> cash[m][f] - listed[f]]]
             /\ pending' = [pending EXCEPT ![m] = Cancelled(pending[m])]
             /\ UNCHANGED <<header, line>>
    BY <1>7, AnnulEffect
  <2>2. \A n \in Movements \ {m} :
            Phase(n)' = Phase(n) /\ Owed(n)' = Owed(n) /\ Paid(n)' = Paid(n)
    BY <2>1, SameObligation DEF TypeOK
  <2>3. NetReal(m)' = NoCash
    BY <2>1, NetRealAfterAnnulment
  <2>4. Executed(m)' = 0
    BY <2>3, SignedZero DEF Executed, NoCash, Formats
  <2>5. status'[m] = "CANCELADA"
    BY <2>1 DEF TypeOK
  <2>6. Phase(m) \in {"OPEN", "SETTLED", "WAIVED"} /\ Phase(m)' = "ANNULLED"
    BY <2>1, <2>5 DEF Phase
  <2>7. Owed(m)' = 0 /\ Paid(m)' = 0
    BY <2>4, <2>5, <2>6 DEF Owed, Paid
  <2> QED
    BY <2>2, <2>6, <2>7, AnnulMaps
<1>8. ASSUME UNCHANGED <<status, header, line, cash, pending>>
      PROVE  UNCHANGED Obligation!vars
  <2>1. \A n \in Movements :
            Phase(n)' = Phase(n) /\ Owed(n)' = Owed(n) /\ Paid(n)' = Paid(n)
    BY <1>8, SameObligation
  <2> QED
    BY <2>1 DEF Obligation!vars, Owed, Paid
<1> QED
  BY <1>1, <1>2, <1>3, <1>5, <1>6, <1>7, <1>8
  DEF Next, vars, ToggleCC, ReadForExecution, ReadForCompensation, ReadForCancel,
      ReadForAnnulment, RollBack

\* When requests do not overlap, the services implement the obligation: paid in
\* instalments that never exceed the debt, then settled, waived or annulled.
THEOREM ServicesImplementObligation ==
    ASSUME OneRequest
    PROVE  Spec => ImplementsObligation
<1>1. Init => OpenHasLine
  BY DEF Init, OpenHasLine
<1>2. TypeOK /\ SequentialInv /\ OpenHasLine /\ [Next]_vars => OpenHasLine'
  BY OpenHasLineStep DEF SequentialInv
<1>3. TypeOK /\ TablesAgree /\ CashInv /\ SequentialInv /\ OpenHasLine /\ [Next]_vars
          => [Obligation!Next]_(Obligation!vars)
  BY ObligationStep
<1>4. Spec => []OpenHasLine
  BY <1>1, <1>2, SequentialInvariant, PTL DEF Spec
<1> QED
  BY <1>3, <1>4, ObligationInit, SequentialInvariant, PTL
  DEF Spec, ImplementsObligation, Obligation!Spec

-----------------------------------------------------------------------------
(* Balances are sums of entries                                            *)

\* The movements of a client.
MovementsOf(c) == {m \in Movements : header[m].client = c}

\* There are finitely many, each with an integer of entries.
LEMMA MovementsOfFinite ==
    ASSUME TypeOK, NEW c \in Clients
    PROVE  /\ IsFiniteSet(MovementsOf(c))
           /\ \A m \in MovementsOf(c) : entries[m] \in Int
BY FiniteBook, FS_Subset DEF MovementsOf, TypeOK

\* The books before the first operation.
LEMMA BooksInit == Init => BalanceIsSumOfEntries
<1> SUFFICES ASSUME Init, NEW c \in Clients
             PROVE  balance[c] = SumFunctionOnSet(entries, MovementsOf(c))
  BY DEF BalanceIsSumOfEntries, MovementsOf
<1>1. IsFiniteSet(MovementsOf(c))
  BY MovementsOfFinite, TypeInit
<1>2. \A m \in MovementsOf(c) : entries[m] = 0
  BY DEF Init, MovementsOf
<1>3. SumFunctionOnSet(entries, MovementsOf(c)) = 0
  BY <1>1, <1>2, SumOfZeros
<1> QED
  BY <1>3 DEF Init

\* An entry posted to a movement and to the balance of its client keeps the books.
LEMMA PostKeepsBooks ==
    ASSUME TypeOK, BalanceIsSumOfEntries, UNCHANGED header,
           NEW m \in Movements, NEW d \in Int,
           entries' = [entries EXCEPT ![m] = entries[m] + d],
           balance' = [balance EXCEPT ![header[m].client] = balance[header[m].client] + d]
    PROVE  BalanceIsSumOfEntries'
<1> SUFFICES ASSUME NEW c \in Clients
             PROVE  balance'[c] = SumFunctionOnSet(entries', MovementsOf(c))
  BY DEF BalanceIsSumOfEntries, MovementsOf
<1>1. balance[c] = SumFunctionOnSet(entries, MovementsOf(c)) /\ balance[c] \in Int
  BY DEF BalanceIsSumOfEntries, MovementsOf, TypeOK
<1>2. /\ IsFiniteSet(MovementsOf(c))
      /\ \A n \in MovementsOf(c) : entries[n] \in Int
  BY MovementsOfFinite
<1>3. /\ entries'[m] = entries[m] + d /\ entries[m] \in Int
      /\ \A n \in Movements \ {m} : entries'[n] = entries[n]
  BY DEF TypeOK
<1>4. CASE header[m].client = c
  <2>1. m \in MovementsOf(c)
    BY <1>4 DEF MovementsOf
  <2>2. /\ \A n \in MovementsOf(c) : entries[n] \in Int /\ entries'[n] \in Int
        /\ \A n \in MovementsOf(c) \ {m} : entries'[n] = entries[n]
    BY <1>2, <1>3 DEF MovementsOf
  <2>3. SumFunctionOnSet(entries', MovementsOf(c))
            = SumFunctionOnSet(entries, MovementsOf(c)) + entries'[m] - entries[m]
    <3> DEFINE S == MovementsOf(c)
    <3>1. PICK f, h : f = entries /\ h = entries'
      OBVIOUS
    <3>2. /\ IsFiniteSet(S) /\ m \in S
          /\ \A n \in S : f[n] \in Int /\ h[n] \in Int
          /\ \A n \in S \ {m} : h[n] = f[n]
      BY <1>2, <2>1, <2>2, <3>1
    <3> HIDE DEF S
    <3>3. SumFunctionOnSet(h, S) = SumFunctionOnSet(f, S) + h[m] - f[m]
      BY <3>2, SumUpdate
    <3> QED
      BY <3>1, <3>3 DEF S
  <2>4. balance'[c] = balance[c] + d
    BY <1>4 DEF TypeOK
  <2> QED
    BY <1>1, <1>3, <2>3, <2>4
<1>5. CASE header[m].client # c
  <2>1. \A n \in MovementsOf(c) : entries[n] = entries'[n]
    BY <1>3, <1>5 DEF MovementsOf
  <2>2. SumFunctionOnSet(entries, MovementsOf(c)) = SumFunctionOnSet(entries', MovementsOf(c))
    <3>1. PICK f, h, S : f = entries /\ h = entries' /\ S = MovementsOf(c)
      OBVIOUS
    <3>2. IsFiniteSet(S) /\ \A n \in S : f[n] = h[n]
      BY <1>2, <2>1, <3>1
    <3>3. SumFunctionOnSet(f, S) = SumFunctionOnSet(h, S)
      BY <3>2, SumCongruence
    <3> QED
      BY <3>1, <3>3
  <2>3. balance'[c] = balance[c]
    BY <1>5 DEF TypeOK
  <2> QED
    BY <1>1, <2>2, <2>3
<1> QED
  BY <1>4, <1>5

\* A new operation gives its movement, which has no entry yet, to a client.
LEMMA OpeningKeepsBooks ==
    ASSUME TypeOK, TypeOK', NothingBefore, BalanceIsSumOfEntries,
           NEW m \in Movements, status[m] = "NONE",
           \A n \in Movements \ {m} : header'[n] = header[n],
           UNCHANGED <<entries, balance>>
    PROVE  BalanceIsSumOfEntries'
<1> SUFFICES ASSUME NEW c \in Clients
             PROVE  balance[c] = SumFunctionOnSet(entries, MovementsOf(c)')
  BY DEF BalanceIsSumOfEntries, MovementsOf
<1>1. entries[m] = 0
  BY DEF NothingBefore
<1>2. /\ IsFiniteSet(MovementsOf(c)) /\ IsFiniteSet(MovementsOf(c)')
      /\ \A n \in MovementsOf(c) : entries[n] \in Int
      /\ \A n \in MovementsOf(c)' : entries[n] \in Int
  BY FiniteBook, FS_Subset DEF MovementsOf, TypeOK
<1>3. MovementsOf(c) \ {m} = MovementsOf(c)' \ {m}
  BY DEF MovementsOf
<1>4. SumFunctionOnSet(entries, MovementsOf(c))
          = SumFunctionOnSet(entries, MovementsOf(c) \ {m})
  BY <1>1, <1>2, SumWithoutZero
<1>5. SumFunctionOnSet(entries, MovementsOf(c)')
          = SumFunctionOnSet(entries, MovementsOf(c)' \ {m})
  BY <1>1, <1>2, SumWithoutZero
<1>6. balance[c] = SumFunctionOnSet(entries, MovementsOf(c))
  BY DEF BalanceIsSumOfEntries, MovementsOf
<1> QED
  BY <1>3, <1>4, <1>5, <1>6

\* Every step keeps the books, however requests overlap.
LEMMA BooksStep ==
    ASSUME TypeOK, NothingBefore, BalanceIsSumOfEntries, [Next]_vars
    PROVE  BalanceIsSumOfEntries'
<1>1. ASSUME NEW m \in Movements, NEW c \in Clients, NEW k \in Kinds, NEW s \in Sides,
             NEW a \in Amounts, NEW f \in Formats, OpenPending(m, c, k, s, a, f)
      PROVE  BalanceIsSumOfEntries'
  <2>1. /\ status[m] = "NONE"
        /\ \A n \in Movements \ {m} : header'[n] = header[n]
        /\ UNCHANGED <<entries, balance>>
    BY <1>1 DEF OpenPending, TypeOK
  <2> QED
    BY <2>1, TypeStep, OpeningKeepsBooks
<1>2. ASSUME NEW r \in Requests, ExecutePartial(r)
      PROVE  BalanceIsSumOfEntries'
  <2>1. PICK m \in Movements, a \in Amounts, d \in Int :
            Deferred(m, a, d) /\ UNCHANGED header
    BY <1>2, PartialEffect
  <2> QED
    BY <2>1, PostKeepsBooks DEF Deferred
<1>3. ASSUME NEW r \in Requests, ExecuteTotal(r)
      PROVE  BalanceIsSumOfEntries'
  <2>1. PICK m \in Movements, a \in Amounts, d \in Int :
            Deferred(m, a, d) /\ UNCHANGED header
    BY <1>3, TotalEffect
  <2> QED
    BY <2>1, PostKeepsBooks DEF Deferred
<1>4. ASSUME NEW r \in Requests, AnnulMovement(r)
      PROVE  BalanceIsSumOfEntries'
  <2>1. PICK m \in Movements :
            /\ entries' = [entries EXCEPT ![m] = 0]
            /\ balance' = [balance EXCEPT ![header[m].client] = @ + (-entries[m])]
            /\ UNCHANGED header
    BY <1>4, AnnulEffect
  <2>2. entries[m] \in Int
    BY DEF TypeOK
  <2>3. -entries[m] \in Int /\ entries[m] + (-entries[m]) = 0
    BY <2>2
  <2>4. entries' = [entries EXCEPT ![m] = entries[m] + (-entries[m])]
    BY <2>1, <2>3
  <2> QED
    BY <2>1, <2>3, <2>4, PostKeepsBooks
<1>5. ASSUME UNCHANGED <<header, entries, balance>>
      PROVE  BalanceIsSumOfEntries'
  BY <1>5 DEF BalanceIsSumOfEntries
<1> QED
  BY <1>1, <1>2, <1>3, <1>4, <1>5
  DEF Next, vars, ToggleCC, ReadForExecution, ReadForCompensation, ReadForCancel,
      ReadForAnnulment, Compensate, CancelPending, RollBack

\* However requests overlap, the balance of every client is the sum of the
\* entries of its movements.
THEOREM BalancesAddUp == Spec => []BalanceIsSumOfEntries
<1>1. TypeOK /\ CashInv /\ [Next]_vars => TypeOK' /\ CashInv'
  BY TypeStep, CashStep
<1>2. TypeOK /\ CashInv /\ BalanceIsSumOfEntries /\ [Next]_vars => BalanceIsSumOfEntries'
  BY BooksStep DEF CashInv
<1> QED
  BY TypeInit, CashInit, BooksInit, <1>1, <1>2, PTL DEF Spec
=============================================================================
