------------------------------ MODULE CCLedger ------------------------------
(***************************************************************************)
(* The current accounts of the clients in one currency: cc_balances, what  *)
(* is recorded about it (cc_entries and cc_manual_adjustments), and the    *)
(* operations that write it: a transfer of debt between two clients, a     *)
(* crossed payment, a manual adjustment and an annulment.                  *)
(*                                                                         *)
(* Here a transaction is as many steps as rows it writes, because two of   *)
(* them lock rows in different orders.  A transaction keeps what it wrote  *)
(* to itself until it commits (write, posted), holds the rows it wrote or  *)
(* selected FOR UPDATE until it ends, and sees what others have committed  *)
(* at each statement.  A row that is still being inserted is held too, but *)
(* nobody sees it: a SELECT finds no row and waits for nothing.            *)
(***************************************************************************)
EXTENDS Integers, FiniteSetsExt, SequencesExt

CONSTANTS
    Clients,              \* identities of clients
    Opened,               \* clients with a row in cc_balances at the start
    Openings,             \* what those rows may hold
    Amounts,              \* amounts of transfers and payments
    Deltas,               \* amounts of adjustments, signed
    AllowOverpay,         \* setting cc_allow_overpay
    AllowPositiveBalance, \* setting cc_allow_positive_balance
    Requests,             \* requests the server handles at the same time
    MaxStarted,           \* bound on the requests of a behaviour
    Nobody                \* null reference

ASSUME OpenedAreClients == Opened \subseteq Clients /\ IsFiniteSet(Clients)
ASSUME AmountsAreSigned ==
    /\ Openings \subseteq Int
    /\ Amounts \subseteq Nat \ {0}
    /\ Deltas \subseteq Int \ {0}
ASSUME SettingsAreBoolean == AllowOverpay \in BOOLEAN /\ AllowPositiveBalance \in BOOLEAN
ASSUME NobodyIsNull == Nobody \notin Requests /\ Nobody \notin Int /\ Nobody \notin Clients
ASSUME StartsAreBounded == MaxStarted \in Nat

VARIABLES
    balance,   \* cc_balances.balance, 0 if there is no row
    rows,      \* the clients with a committed row in cc_balances
    holder,    \* who holds the row of a client
    recorded,  \* what the entries and adjustments of a client add up to
    standing,  \* the entries of each confirmed movement that stands
    ccEnabled, \* clients.cc_enabled
    request,   \* what each request has read and written
    started    \* requests started so far

vars == <<balance, rows, holder, recorded, standing, ccEnabled, request, started>>

-----------------------------------------------------------------------------
Idle == [op |-> "IDLE"]

Post(client, delta) == [client |-> client, delta |-> delta]

Zero == [c \in Clients |-> 0]

\* A request as it starts: the entries it is to post, in order; the client and
\* the amount of a payment or an adjustment, whose entry depends on a balance;
\* and, once it has them, the balances it wrote.
Begun(op, id, client, amount, todo) ==
    [op |-> op, id |-> id, client |-> client, amount |-> amount, before |-> Nobody,
     todo |-> todo, write |-> {}, posted |-> Zero]

Ops == {"TRANSFER", "PAYMENT", "ADJUSTMENT", "ANNULMENT"}

\* One type invariant.
TypeOK ==
    /\ balance \in [Clients -> Int]
    /\ rows \subseteq Clients
    /\ holder \in [Clients -> Requests \cup {Nobody}]
    /\ recorded \in [Clients -> Int]
    /\ \A s \in standing : s.id \in 1..MaxStarted /\ s.posted \in [Clients -> Int]
    /\ ccEnabled \in [Clients -> BOOLEAN]
    /\ \A r \in Requests : request[r] # Idle =>
          /\ request[r].op \in Ops
          /\ \A w \in request[r].write : holder[w.client] = r
    /\ started \in 0..MaxStarted

Init ==
    /\ balance \in {b \in [Clients -> Openings \cup {0}] : \A c \in Clients :
                       IF c \in Opened THEN b[c] \in Openings ELSE b[c] = 0}
    /\ rows = Opened
    /\ holder = [c \in Clients |-> Nobody]
    /\ recorded = balance
    /\ standing = {}
    /\ ccEnabled = [c \in Clients |-> TRUE]
    /\ request = [r \in Requests |-> Idle]
    /\ started = 0

-----------------------------------------------------------------------------
(* Rows                                                                    *)

\* What a transaction sees in the row of a client.
Seen(r, c) ==
    IF \E w \in request[r].write : w.client = c
    THEN (CHOOSE w \in request[r].write : w.client = c).balance
    ELSE balance[c]

\* An INSERT ... ON CONFLICT waits for whoever inserts or updates the row.
CanWrite(r, c) == holder[c] \in {r, Nobody}

Held(r, c) == [holder EXCEPT ![c] = r]

Written(q, c, value, delta) ==
    [q EXCEPT !.write     = {w \in @ : w.client # c} \cup {[client |-> c, balance |-> value]},
              !.posted[c] = @ + delta]

\* A SELECT ... FOR UPDATE waits for the row if there is one to be seen.
CanSelect(r, c) == c \in rows => CanWrite(r, c)

\* Mutant of Selected: takes no lock.
SelectedUnlocked(r, c) == holder

Selected(r, c) == IF c \in rows THEN [holder EXCEPT ![c] = r] ELSE holder

-----------------------------------------------------------------------------
(* The start of a request, before its transaction                          *)

Start(r, q) ==
    /\ request[r] = Idle
    /\ started < MaxStarted
    /\ started' = started + 1
    /\ request' = [request EXCEPT ![r] = q]
    /\ UNCHANGED <<balance, rows, holder, recorded, standing, ccEnabled>>

\* The debt of one client becomes the debt of another.
StartTransfer(r, from, to, amount) ==
    /\ from # to
    /\ ccEnabled[from] /\ ccEnabled[to]
    /\ Start(r, Begun("TRANSFER", started + 1, Nobody, amount,
                      <<Post(from, amount), Post(to, -amount)>>))

StartPayment(r, c, amount) ==
    /\ ccEnabled[c]
    /\ Start(r, Begun("PAYMENT", started + 1, c, amount, <<>>))

\* ClientService.Update writes the client's row first: one update of a client
\* at a time.
Updating(c) ==
    \E s \in Requests : request[s] # Idle /\ request[s].op = "ADJUSTMENT" /\ request[s].client = c

StartAdjustment(r, c, delta) ==
    /\ ~Updating(c)
    /\ Start(r, Begun("ADJUSTMENT", started + 1, c, delta, <<>>))

\* An update without adjustments may switch the current account.
ToggleCC(c) ==
    /\ ~Updating(c)
    /\ ccEnabled' = [ccEnabled EXCEPT ![c] = ~@]
    /\ UNCHANGED <<balance, rows, holder, recorded, standing, request, started>>

\* cancelMovementWithinTx posts the reversals in the order of the entries, which
\* is the order of random identifiers.
ReversalsOf(s) ==
    SetToSeqs({Post(c, -s.posted[c]) : c \in {d \in Clients : s.posted[d] # 0}})

StartAnnulment(r, s, todo) ==
    /\ s \in standing
    /\ todo \in ReversalsOf(s)
    /\ Start(r, Begun("ANNULMENT", s.id, Nobody, 0, todo))

-----------------------------------------------------------------------------
(* The end of a transaction                                                *)

\* Mutant of Released: keeps the rows the transaction selected and did not write.
ReleasedWritten(r) ==
    [c \in Clients |-> IF \E w \in request[r].write : w.client = c THEN Nobody ELSE holder[c]]

Released(r) == [c \in Clients |-> IF holder[c] = r THEN Nobody ELSE holder[c]]

RollBack(r) ==
    /\ request[r] # Idle
    /\ holder' = Released(r)
    /\ request' = [request EXCEPT ![r] = Idle]
    /\ UNCHANGED <<balance, rows, recorded, standing, ccEnabled, started>>

\* A transfer or a payment moves its draft to CONFIRMADA, an annulment its
\* movement to CANCELADA if it still stands.
Stands(q) == \E s \in standing : s.id = q.id

Committed(q) ==
    CASE q.op = "ANNULMENT"              -> {s \in standing : s.id # q.id}
      [] q.op \in {"TRANSFER", "PAYMENT"} -> standing \cup {[id |-> q.id, posted |-> q.posted]}
      [] q.op = "ADJUSTMENT"             -> standing

Ready(q) ==
    /\ q # Idle
    /\ q.todo = <<>>
    /\ q.op \in {"PAYMENT", "ADJUSTMENT"} => q.write # {}

\* An update with adjustments is only accepted with the account switched on.
Commit(r) ==
    LET q == request[r]
    IN /\ Ready(q)
       /\ q.op = "ANNULMENT" => Stands(q)
       /\ balance' = [c \in Clients |-> Seen(r, c)]
       /\ rows' = rows \cup {w.client : w \in q.write}
       /\ recorded' = [c \in Clients |-> recorded[c] + q.posted[c]]
       /\ standing' = Committed(q)
       /\ holder' = Released(r)
       /\ ccEnabled' = IF q.op = "ADJUSTMENT" THEN [ccEnabled EXCEPT ![q.client] = TRUE] ELSE ccEnabled
       /\ request' = [request EXCEPT ![r] = Idle]
       /\ UNCHANGED started

\* The second of two annulments finds its movement annulled.
CommitRefused(r) ==
    /\ Ready(request[r])
    /\ request[r].op = "ANNULMENT"
    /\ ~Stands(request[r])
    /\ RollBack(r)

-----------------------------------------------------------------------------
(* Entries                                                                 *)

Posting(r) == request[r] # Idle /\ request[r].todo # <<>>

\* Mutant of Posted: overwrites the row with what was selected before.
PostedOnRead(r, p) == (IF request[r].op = "PAYMENT" THEN request[r].before ELSE 0) + p.delta

\* ApplyCCEntry adds to the row whatever it holds by then.
Posted(r, p) == Seen(r, p.client) + p.delta

\* ApplyEntry asks for the flag again; the reversals of an annulment do not.
Enabled(q, p) == q.op = "ANNULMENT" \/ ccEnabled[p.client]

PostEntry(r) ==
    LET q == request[r]
        p == Head(q.todo)
    IN /\ Posting(r)
       /\ Enabled(q, p)
       /\ CanWrite(r, p.client)
       /\ holder' = Held(r, p.client)
       /\ request' = [request EXCEPT ![r] =
                         [Written(q, p.client, Posted(r, p), p.delta) EXCEPT !.todo = Tail(q.todo)]]
       /\ UNCHANGED <<balance, rows, recorded, standing, ccEnabled, started>>

\* Mutant of PostRefused: leaves the entry out and goes on.
PostSkipped(r) ==
    /\ Posting(r)
    /\ ~Enabled(request[r], Head(request[r].todo))
    /\ request' = [request EXCEPT ![r].todo = Tail(@)]
    /\ UNCHANGED <<balance, rows, holder, recorded, standing, ccEnabled, started>>

PostRefused(r) ==
    /\ Posting(r)
    /\ ~Enabled(request[r], Head(request[r].todo))
    /\ RollBack(r)

-----------------------------------------------------------------------------
(* What depends on a balance: payments and adjustments                     *)

Unread(r, op) == request[r] # Idle /\ request[r].op = op /\ request[r].before = Nobody

\* A payment takes the balance towards zero.
Towards(b, amount) == IF b > 0 THEN -amount ELSE amount

Crosses(b, after) == (b < 0 /\ after > 0) \/ (b > 0 /\ after < 0)

\* There must be a balance to cancel, and the settings may forbid to go beyond
\* zero, or to leave the house in debt.
Payable(b, amount) ==
    LET after == b + Towards(b, amount)
    IN /\ b # 0
       /\ Crosses(b, after) => AllowOverpay
       /\ after > 0 => AllowPositiveBalance

ReadDebt(r) ==
    LET q == request[r]
        c == q.client
    IN /\ Unread(r, "PAYMENT")
       /\ CanSelect(r, c)
       /\ Payable(balance[c], q.amount)
       /\ holder' = Selected(r, c)
       /\ request' = [request EXCEPT
                         ![r].before = balance[c],
                         ![r].todo = <<Post(c, Towards(balance[c], q.amount))>>]
       /\ UNCHANGED <<balance, rows, recorded, standing, ccEnabled, started>>

PaymentRefused(r) ==
    LET c == request[r].client
    IN /\ Unread(r, "PAYMENT")
       /\ CanSelect(r, c)
       /\ ~Payable(balance[c], request[r].amount)
       /\ RollBack(r)

ReadBalance(r) ==
    LET c == request[r].client
    IN /\ Unread(r, "ADJUSTMENT")
       /\ CanSelect(r, c)
       /\ holder' = Selected(r, c)
       /\ request' = [request EXCEPT ![r].before = balance[c]]
       /\ UNCHANGED <<balance, rows, recorded, standing, ccEnabled, started>>

Adjusting(r) ==
    /\ request[r] # Idle
    /\ request[r].op = "ADJUSTMENT"
    /\ request[r].before # Nobody
    /\ request[r].write = {}

\* The adjustment writes the balance it computed, whatever the row holds.
WriteAdjustment(r) ==
    LET q == request[r]
    IN /\ Adjusting(r)
       /\ CanWrite(r, q.client)
       /\ holder' = Held(r, q.client)
       /\ request' = [request EXCEPT ![r] = Written(q, q.client, q.before + q.amount, q.amount)]
       /\ UNCHANGED <<balance, rows, recorded, standing, ccEnabled, started>>

-----------------------------------------------------------------------------
(* Postgres finds a cycle of transactions that wait and aborts one of them. *)

Wanted(r) ==
    IF request[r] = Idle THEN {}
    ELSE {request[r].todo[i].client : i \in {1} \cap DOMAIN request[r].todo}
         \cup {c \in Clients : /\ (Unread(r, "PAYMENT") \/ Unread(r, "ADJUSTMENT"))
                               /\ c = request[r].client
                               /\ c \in rows}
         \cup {c \in Clients : Adjusting(r) /\ c = request[r].client}

Blockers(r) == {holder[c] : c \in Wanted(r)} \ {r, Nobody}

Deadlocked(r) == \E S \in SUBSET Requests : r \in S /\ UNION {Blockers(s) : s \in S} = S

DeadlockAbort(r) == Deadlocked(r) /\ RollBack(r)

-----------------------------------------------------------------------------
\* What a handler that has started goes on to do.
Proceed(r) ==
    \/ PostEntry(r)
    \/ PostRefused(r)
    \/ ReadDebt(r)
    \/ PaymentRefused(r)
    \/ ReadBalance(r)
    \/ WriteAdjustment(r)
    \/ Commit(r)
    \/ CommitRefused(r)
    \/ DeadlockAbort(r)

Arrive(r) ==
    \/ \E from, to \in Clients, a \in Amounts : StartTransfer(r, from, to, a)
    \/ \E c \in Clients, a \in Amounts : StartPayment(r, c, a)
    \/ \E c \in Clients, d \in Deltas : StartAdjustment(r, c, d)
    \/ \E s \in standing : \E todo \in ReversalsOf(s) : StartAnnulment(r, s, todo)

Next ==
    \/ \E c \in Clients : ToggleCC(c)
    \/ \E r \in Requests : Arrive(r) \/ Proceed(r) \/ RollBack(r)

\* A handler runs to its end: its goroutine is scheduled, the database answers
\* each statement once the row it waits for is free, and looks for deadlocks.
\* Nothing makes anybody start a request.
Fairness == \A r \in Requests : WF_vars(Proceed(r))

Spec == Init /\ [][Next]_vars /\ Fairness

-----------------------------------------------------------------------------
(* Properties                                                              *)

\* The balance of an account that has its row is the sum of what is recorded
\* about it, whatever postings, payments, adjustments and annulments overlap.
AccountIsSumOfRecords == \A c \in Opened : balance[c] = recorded[c]

\* The accounts add up while they are written: types, and a transaction writes only
\* rows it holds.
LedgerInv == TypeOK /\ AccountIsSumOfRecords

\* A committed payment took the balance that stood at its commit, not one it
\* had seen before, towards zero, and as far as the settings allow.
PaymentsRespectSettings ==
    [][\A r \in Requests :
          LET q == request[r]
              c == q.client
          IN /\ q # Idle /\ q.op = "PAYMENT"
             /\ request'[r] = Idle /\ standing' # standing
             => Payable(balance[c], q.amount) /\ q.before = balance[c]]_vars

\* A transfer of debt moves it whole: the balances of its clients keep their
\* sum, also when the account of one is switched off half way.
TransfersMoveDebtWhole ==
    [][\A r \in Requests :
          /\ request[r] # Idle /\ request[r].op = "TRANSFER"
          /\ request'[r] = Idle
          => SumFunction(balance') = SumFunction(balance)]_vars

\* Every request ends: two transfers between the same clients in opposite
\* directions, an annulment or a payment never leave one waiting for ever.
RequestsEnd == \A r \in Requests : request[r] # Idle ~> request[r] = Idle
=============================================================================
