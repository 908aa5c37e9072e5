------------------------------ MODULE Pendings ------------------------------
(***************************************************************************)
(* The life of a pending item: the leg of a confirmed operation whose cash *)
(* is still to be handed over.  PendingService (Resolve, Cancel) and the   *)
(* annulment of the whole movement (CancelMovement) work on the same rows. *)
(*                                                                         *)
(* Each request runs in two steps.  The first one is what the handler      *)
(* reads before it opens its transaction (or, for the annulment, the       *)
(* movement lines the transaction lists before it writes): other requests  *)
(* can commit in between, and the handler does not read again.  The second *)
(* one is the transaction, which Postgres commits as a whole or rolls      *)
(* back.  With one element in Requests the handlers never overlap.         *)
(*                                                                         *)
(* A movement has one pending leg here: its row of movement_lines (line)   *)
(* and its row of pending_items (pending).  The other rows that Resolve    *)
(* and CancelMovement insert for the leg's account are kept as their       *)
(* signed sum per format (cash), the cc_entries of the movement as their   *)
(* sum (entries).  Amounts are positive integers.                          *)
(***************************************************************************)
EXTENDS Integers, FiniteSetsExt

CONSTANTS
    Movements,      \* identities of movements
    Clients,        \* identities of clients
    Requests,       \* requests the server handles at the same time
    MaxAmount,      \* bound on the amount of a leg
    PartialAllowed, \* setting pending_allow_partial_resolution
    NoMovement      \* the null resolved_by_movement_id

ASSUME AmountBound == MaxAmount \in Nat \ {0}
ASSUME SettingIsBoolean == PartialAllowed \in BOOLEAN
ASSUME NullIsNoMovement == NoMovement \notin Movements
ASSUME SomeClient == Clients # {}
ASSUME FiniteBook == IsFiniteSet(Movements)  \* identities are UUIDs

VARIABLES
    status,     \* movements.status, with "NONE" before the movement exists
    header,     \* what the operation fixed when it created the leg
    line,       \* the leg's row of movement_lines
    pending,    \* its row of pending_items
    cash,       \* signed sum, per format, of the movement's other real rows
    entries,    \* sum of the movement's cc_entries
    balance,    \* cc_balances.balance of each client
    ccEnabled,  \* clients.cc_enabled
    request     \* what each request in flight has read

vars == <<status, header, line, pending, cash, entries, balance, ccEnabled, request>>

-----------------------------------------------------------------------------
Amounts == 1..MaxAmount
Formats == {"CASH", "DIGITAL"}
Sides   == {"IN", "OUT"}

\* Who creates pending legs: a purchase or sale (and, with the same rules, an
\* arbitrage); the principal of a transfer; its fee; an opening balance.
Kinds == {"TRADE", "TRANSFER", "FEE", "OPENING"}

Signed(side, amount) == IF side = "IN" THEN amount ELSE -amount

\* cc_apply_on_resolve, as each operation inserts it.
AppliesCCOnResolve(kind) == kind # "OPENING"

Headers == [kind : Kinds, side : Sides, client : Clients, amount : Amounts]
NoHeader == [kind |-> "OPENING", side |-> "IN",
             client |-> CHOOSE c \in Clients : TRUE, amount |-> 1]

Lines == [amount : Nat, format : Formats, isPending : BOOLEAN]
NoLine == [amount |-> 0, format |-> "CASH", isPending |-> FALSE]

PendingItems ==
    [status : {"ABIERTO", "RESUELTO", "CANCELADO"},
     mode   : {"NONE", "REAL_EXECUTION", "COMPENSATED"},
     amount : Nat,
     ref    : Movements \cup {NoMovement}]
NoPending == [status |-> "CANCELADO", mode |-> "NONE", amount |-> 0, ref |-> NoMovement]

NoCash == [f \in Formats |-> 0]

Idle == [op |-> "IDLE"]
ExecutionRequests ==
    [op : {"EXECUTE_TOTAL", "EXECUTE_PARTIAL"}, movement : Movements,
     amount : Amounts, format : Formats, applyCC : BOOLEAN]
CompensationRequests == [op : {"COMPENSATE"}, movement : Movements, ref : Movements]
CancelRequests == [op : {"CANCEL"}, movement : Movements]
AnnulRequests == [op : {"ANNUL"}, movement : Movements, listed : [Formats -> Int]]

\* One type invariant: every variable holds a value of its table's columns.
TypeOK ==
    /\ status \in [Movements -> {"NONE", "CONFIRMADA", "CANCELADA"}]
    /\ header \in [Movements -> Headers]
    /\ line \in [Movements -> Lines]
    /\ pending \in [Movements -> PendingItems]
    /\ cash \in [Movements -> [Formats -> Int]]
    /\ entries \in [Movements -> Int]
    /\ balance \in [Clients -> Int]
    /\ ccEnabled \in [Clients -> BOOLEAN]
    /\ request \in [Requests -> {Idle} \cup ExecutionRequests \cup CompensationRequests
                                       \cup CancelRequests \cup AnnulRequests]

Init ==
    /\ status = [m \in Movements |-> "NONE"]
    /\ header = [m \in Movements |-> NoHeader]
    /\ line = [m \in Movements |-> NoLine]
    /\ pending = [m \in Movements |-> NoPending]
    /\ cash = [m \in Movements |-> NoCash]
    /\ entries = [m \in Movements |-> 0]
    /\ balance = [c \in Clients |-> 0]
    /\ ccEnabled \in [Clients -> BOOLEAN]
    /\ request = [r \in Requests |-> Idle]

\* The signed real cash of a movement in a format: what SUM over the rows with
\* is_pending = false gives for the leg's account.
NetReal(m) ==
    [f \in Formats |->
        cash[m][f] + IF ~line[m].isPending /\ line[m].format = f
                     THEN Signed(header[m].side, line[m].amount)
                     ELSE 0]

-----------------------------------------------------------------------------
(* The operations that leave a pending leg, and the client record.         *)

\* Purchases, sales and arbitrages insert a pending item for a cash leg of a
\* client without current account; transfers, fees and opening balances for
\* any leg of anyone.
MayLeavePending(c, kind, format) == kind = "TRADE" => ~ccEnabled[c] /\ format = "CASH"

\* A confirmed operation leaves the leg m of client c still to be executed.
OpenPending(m, c, kind, side, amount, format) ==
    /\ status[m] = "NONE"
    /\ MayLeavePending(c, kind, format)
    /\ status' = [status EXCEPT ![m] = "CONFIRMADA"]
    /\ header' = [header EXCEPT ![m] = [kind |-> kind, side |-> side, client |-> c,
                                        amount |-> amount]]
    /\ line' = [line EXCEPT ![m] = [amount |-> amount, format |-> format, isPending |-> TRUE]]
    /\ pending' = [pending EXCEPT ![m] = [status |-> "ABIERTO", mode |-> "NONE",
                                          amount |-> amount, ref |-> NoMovement]]
    /\ UNCHANGED <<cash, entries, balance, ccEnabled, request>>

\* ClientService.Update may switch the current account of a client at any time.
ToggleCC(c) ==
    /\ ccEnabled' = [ccEnabled EXCEPT ![c] = ~@]
    /\ UNCHANGED <<status, header, line, pending, cash, entries, balance, request>>

-----------------------------------------------------------------------------
(* PendingService.Resolve                                                  *)

Finish(r) == request' = [request EXCEPT ![r] = Idle]

\* Mutant of IsOpen: looks at the line instead of the status of the item.
IsOpenByLine(m) == status[m] # "NONE" /\ line[m].isPending

\* FindByID joins pending_items, movement_lines and clients outside the
\* transaction; every validation uses that row.
IsOpen(m) == status[m] # "NONE" /\ pending[m].status = "ABIERTO"

\* Mutant of Payable: accepts more than what is pending.
PayableUnbounded(m, amount) == amount < pending[m].amount => PartialAllowed

\* An instalment never exceeds what is pending, and is smaller only if the
\* setting allows it.
Payable(m, amount) ==
    /\ amount <= pending[m].amount
    /\ amount < pending[m].amount => PartialAllowed

ReadForExecution(r, m, amount, format) ==
    /\ request[r] = Idle
    /\ IsOpen(m)
    /\ Payable(m, amount)
    /\ request' = [request EXCEPT ![r] =
           [op       |-> IF amount < pending[m].amount THEN "EXECUTE_PARTIAL"
                                                       ELSE "EXECUTE_TOTAL",
            movement |-> m,
            amount   |-> amount,
            format   |-> format,
            applyCC  |-> ccEnabled[header[m].client] /\ AppliesCCOnResolve(header[m].kind)]]
    /\ UNCHANGED <<status, header, line, pending, cash, entries, balance, ccEnabled>>

\* COMPENSATED is offered for the whole amount of a client with current
\* account, and names an existing movement (foreign key), any movement.
ReadForCompensation(r, m, ref) ==
    /\ request[r] = Idle
    /\ IsOpen(m)
    /\ ccEnabled[header[m].client]
    /\ status[ref] # "NONE"
    /\ request' = [request EXCEPT ![r] = [op |-> "COMPENSATE", movement |-> m, ref |-> ref]]
    /\ UNCHANGED <<status, header, line, pending, cash, entries, balance, ccEnabled>>

\* Mutant of DeferredAmount: records the whole item for an instalment.
DeferredWholeItem(q) ==
    IF q.applyCC THEN Signed(header[q.movement].side, pending[q.movement].amount) ELSE 0

\* The deferred entry is for the amount executed, on the side of the line.
DeferredAmount(q) ==
    IF q.applyCC THEN Signed(header[q.movement].side, q.amount) ELSE 0

\* Mutant of BalanceUpsert: overwrites the balance instead of adding to it.
BalanceOverwrite(c, delta) == [balance EXCEPT ![c] = IF delta = 0 THEN @ ELSE delta]

\* ApplyCCEntry adds to the stored balance in one statement.
BalanceUpsert(c, delta) == [balance EXCEPT ![c] = @ + delta]

\* The client's flag is read again by ApplyEntry: if it was switched off
\* meanwhile, the transaction rolls back.
DeferredCC(q) ==
    LET m == q.movement
        c == header[m].client
    IN /\ q.applyCC => ccEnabled[c]
       /\ entries' = [entries EXCEPT ![m] = @ + DeferredAmount(q)]
       /\ balance' = BalanceUpsert(c, DeferredAmount(q))

\* A row can be reduced by an amount if something is left of it: the update of
\* the line asks for at least the amount, and the CHECKs amount > 0 of both
\* tables roll back a reduction to zero.
CanReduce(row, amount) == row.amount > amount

\* Mutant of Reduced: the executed part is added without being subtracted.
ReducedByNothing(row, amount) == [row EXCEPT !.amount = IF amount > 0 THEN @ ELSE amount]

Reduced(row, amount) == [row EXCEPT !.amount = @ - amount]

\* Partial execution: part of the pending line becomes a real row.
ExecutePartial(r) ==
    LET q == request[r]
        m == q.movement
    IN /\ q.op = "EXECUTE_PARTIAL"
       /\ line[m].isPending
       /\ CanReduce(line[m], q.amount)
       /\ CanReduce(pending[m], q.amount)
       /\ DeferredCC(q)
       /\ line' = [line EXCEPT ![m] = Reduced(@, q.amount)]
       /\ cash' = [cash EXCEPT ![m][q.format] = @ + Signed(header[m].side, q.amount)]
       /\ pending' = [pending EXCEPT ![m].amount = @ - q.amount]
       /\ Finish(r)
       /\ UNCHANGED <<status, header, ccEnabled>>

RealLine(q) == [amount |-> q.amount, format |-> q.format, isPending |-> FALSE]

\* MarkResolvedWithMode and the update of a real execution leave the amount.
Resolved(item, mode, ref) ==
    [status |-> "RESUELTO", mode |-> mode, amount |-> item.amount, ref |-> ref]

\* Total execution: the pending line itself becomes real, for the amount asked.
ExecuteTotal(r) ==
    LET q == request[r]
        m == q.movement
    IN /\ q.op = "EXECUTE_TOTAL"
       /\ line[m].isPending
       /\ DeferredCC(q)
       /\ line' = [line EXCEPT ![m] = RealLine(q)]
       /\ pending' = [pending EXCEPT ![m] = Resolved(@, "REAL_EXECUTION", NoMovement)]
       /\ Finish(r)
       /\ UNCHANGED <<status, header, cash, ccEnabled>>

\* MarkResolvedWithMode looks at no status: it rewrites the row it was given.
Compensate(r) ==
    LET q == request[r]
        m == q.movement
    IN /\ q.op = "COMPENSATE"
       /\ pending' = [pending EXCEPT ![m] = Resolved(@, "COMPENSATED", q.ref)]
       /\ Finish(r)
       /\ UNCHANGED <<status, header, line, cash, entries, balance, ccEnabled>>

-----------------------------------------------------------------------------
(* PendingService.Cancel                                                   *)

ReadForCancel(r, m) ==
    /\ request[r] = Idle
    /\ IsOpen(m)
    /\ request' = [request EXCEPT ![r] = [op |-> "CANCEL", movement |-> m]]
    /\ UNCHANGED <<status, header, line, pending, cash, entries, balance, ccEnabled>>

\* MarkCancelled does not look at the status either.
CancelPending(r) ==
    LET m == request[r].movement
    IN /\ request[r].op = "CANCEL"
       /\ pending' = [pending EXCEPT ![m].status = "CANCELADO"]
       /\ Finish(r)
       /\ UNCHANGED <<status, header, line, cash, entries, balance, ccEnabled>>

-----------------------------------------------------------------------------
(* OperationService.CancelMovement                                         *)

\* The transaction reads the status and lists the real lines it will reverse.
ReadForAnnulment(r, m) ==
    /\ request[r] = Idle
    /\ status[m] = "CONFIRMADA"
    /\ request' = [request EXCEPT ![r] = [op |-> "ANNUL", movement |-> m,
                                          listed |-> NetReal(m)]]
    /\ UNCHANGED <<status, header, line, pending, cash, entries, balance, ccEnabled>>

\* Mutant of ClosedByAnnulment: closes the open items only.
ClosesOnlyOpen(item) == IF item.status = "ABIERTO" THEN [item EXCEPT !.status = "CANCELADO"] ELSE item

\* CancelPendingItemsByMovementTx closes resolved items too.
ClosedByAnnulment(item) == [item EXCEPT !.status = "CANCELADO"]

\* It inserts the reversal of each listed line and of each cc entry, closes
\* the pending items, moves the status (guarded by the old one) and finally
\* asks for a zero net of everything committed by then.
AnnulMovement(r) ==
    LET q == request[r]
        m == q.movement
        c == header[m].client
    IN /\ q.op = "ANNUL"
       /\ status[m] = "CONFIRMADA"
       /\ \A f \in Formats : NetReal(m)[f] - q.listed[f] = 0
       /\ status' = [status EXCEPT ![m] = "CANCELADA"]
       /\ cash' = [cash EXCEPT ![m] = [f \in Formats |-> @[f] - q.listed[f]]]
       /\ entries' = [entries EXCEPT ![m] = 0]
       /\ balance' = BalanceUpsert(c, -entries[m])
       /\ pending' = [pending EXCEPT ![m] = ClosedByAnnulment(@)]
       /\ Finish(r)
       /\ UNCHANGED <<header, line, ccEnabled>>

\* Any error, and a lost connection, rolls the transaction back.
RollBack(r) ==
    /\ request[r] # Idle
    /\ Finish(r)
    /\ UNCHANGED <<status, header, line, pending, cash, entries, balance, ccEnabled>>

-----------------------------------------------------------------------------
Next ==
    \/ \E m \in Movements, c \in Clients, k \in Kinds, s \in Sides, a \in Amounts,
          f \in Formats : OpenPending(m, c, k, s, a, f)
    \/ \E c \in Clients : ToggleCC(c)
    \/ \E r \in Requests, m \in Movements :
          \/ \E a \in Amounts, f \in Formats : ReadForExecution(r, m, a, f)
          \/ \E ref \in Movements : ReadForCompensation(r, m, ref)
          \/ ReadForCancel(r, m)
          \/ ReadForAnnulment(r, m)
    \/ \E r \in Requests :
          \/ ExecutePartial(r)
          \/ ExecuteTotal(r)
          \/ Compensate(r)
          \/ CancelPending(r)
          \/ AnnulMovement(r)
          \/ RollBack(r)

Spec == Init /\ [][Next]_vars

-----------------------------------------------------------------------------
(* Properties that hold however requests overlap                           *)

\* While a line is pending, pending_items and movement_lines agree on what is
\* left to execute: every transaction that reduces one reduces the other.
LineMatchesPending ==
    \A m \in Movements : line[m].isPending => pending[m].amount = line[m].amount

\* A pending item is reported as executed in cash only if its line is real:
\* the status and the line change in the same transaction.
RealExecutionHasRealLine ==
    \A m \in Movements :
        pending[m].status = "RESUELTO" /\ pending[m].mode = "REAL_EXECUTION"
            => ~line[m].isPending

\* The two tables of a leg: what one transaction reads of it is what another wrote.
TablesAgree == LineMatchesPending /\ RealExecutionHasRealLine

\* Types, the CHECKs on amounts among them, and the agreement of the two tables,
\* whichever requests raced for the leg.
TablesInv == TypeOK /\ TablesAgree

\* cc_balances is the sum of cc_entries for each client, through deferred
\* entries, their reversal on annulment and changes of the client's flag.
BalanceIsSumOfEntries ==
    \A c \in Clients :
        balance[c] = SumFunctionOnSet(entries, {m \in Movements : header[m].client = c})

\* The net cash of a leg, positive in the direction of the leg.
Executed(m) == Signed(header[m].side, NetReal(m)["CASH"] + NetReal(m)["DIGITAL"])

\* The current account never records more than the cash that really moved for
\* the leg, nor the opposite of it: a deferred entry always comes with cash.
CCWithinCash ==
    \A m \in Movements :
        /\ 0 <= Signed(header[m].side, entries[m])
        /\ Signed(header[m].side, entries[m]) <= Executed(m)

-----------------------------------------------------------------------------
(* Properties of requests that do not overlap                              *)

\* Resolving a leg in instalments keeps the total: what was executed and what
\* is still pending add up to the amount of the operation (pending_service.go,
\* comment on the lines of the movement: "SUM estable").
AmountConserved ==
    \A m \in Movements :
        status[m] = "CONFIRMADA" =>
            Executed(m) + (IF line[m].isPending THEN line[m].amount ELSE 0)
                = header[m].amount

\* An annulled movement leaves no trace: real cash and current account net to
\* zero and no pending item of it stays open or resolved.
AnnulledNetsToZero ==
    \A m \in Movements :
        status[m] = "CANCELADA" =>
            /\ NetReal(m) = NoCash
            /\ entries[m] = 0
            /\ pending[m].status = "CANCELADO"

\* Once a pending item is closed, only the annulment of its movement may move
\* the cash of its leg.
ClosedMovesNoCash ==
    [][\A m \in Movements :
          /\ status[m] = "CONFIRMADA"
          /\ status'[m] = "CONFIRMADA"
          /\ pending[m].status # "ABIERTO"
          => NetReal(m)' = NetReal(m)]_vars

\* The leg seen as an obligation that is paid, waived or annulled.
Phase(m) ==
    LET open == pending[m].status = "ABIERTO"
    IN CASE status[m] = "NONE"      -> "NONE"
         [] status[m] = "CANCELADA" -> "ANNULLED"
         [] status[m] = "CONFIRMADA" /\ open                          -> "OPEN"
         [] status[m] = "CONFIRMADA" /\ ~open /\ line[m].isPending   -> "WAIVED"
         [] status[m] = "CONFIRMADA" /\ ~open /\ ~line[m].isPending  -> "SETTLED"

Obligation == INSTANCE PendingObligation WITH
    phase <- [m \in Movements |-> Phase(m)],
    owed  <- [m \in Movements |-> IF Phase(m) = "OPEN" THEN line[m].amount ELSE 0],
    paid  <- [m \in Movements |-> IF status[m] = "NONE" THEN 0 ELSE Executed(m)]

\* The services implement the obligation: the executions are its payments, a
\* compensation or a cancellation waives it, the annulment annuls it.
ImplementsObligation == Obligation!Spec
=============================================================================
