----------------------------- MODULE Movements -----------------------------
(***************************************************************************)
(* The life of a movement: the header, the draft payload, the execution    *)
(* that confirms it, its annulment, and the corrections that modify a      *)
(* confirmed movement or recreate an annulled one (OperationService, the   *)
(* Execute of the operation services, movement_status.go).                 *)
(*                                                                         *)
(* Each request runs in two steps.  The first one is what the handler      *)
(* reads; the second one is the transaction, or the single statement, that *)
(* writes.  Other requests can commit in between and only the conditions   *)
(* of the second step are evaluated again, by Postgres.  CreateMovement    *)
(* and CancelMovement are one step: their writes do not depend on a value  *)
(* another request can change without failing the guarded transition.      *)
(*                                                                         *)
(* What an execution does to the accounts is reduced to one entry in the   *)
(* current account of the client (entries, balance); its lines are reduced *)
(* to the operation they record.  Pendings and the exchange inventory      *)
(* refine the other effects.                                               *)
(***************************************************************************)
EXTENDS Integers, FiniteSetsExt

CONSTANTS
    Movements,  \* identities of movements
    Clients,    \* identities of clients
    Types,      \* types of operation
    Requests,   \* requests the server handles at the same time
    Amounts,    \* signed amounts an execution posts in a current account
    NoDraft,    \* no row in movement_drafts
    NoOperation \* no lines

ASSUME AmountsAreSigned == Amounts \subseteq Int \ {0}
ASSUME SomeHeader == Types # {} /\ Clients # {}
ASSUME FiniteBook == IsFiniteSet(Movements)  \* identities are UUIDs

VARIABLES
    status,     \* movements.status, "NONE" before and "DELETED" after the row exists
    header,     \* movements.type and client_id
    draft,      \* movement_drafts: the header its payload was entered for
    correction, \* movement_corrections, by draft
    operation,  \* what the movement_lines record: the operation and its client
    entries,    \* sum of the movement's cc_entries, by client
    balance,    \* cc_balances.balance of each client
    ccEnabled,  \* clients.cc_enabled
    request     \* what each request in flight has read

vars == <<status, header, draft, correction, operation, entries, balance, ccEnabled, request>>

-----------------------------------------------------------------------------
Headers  == [type : Types, client : Clients]
NoHeader == CHOOSE h \in Headers : TRUE
Modes    == {"MODIFY", "RECREATE"}

NoCorrection == [status |-> "NONE"]
Corrections  == [status : {"PENDING", "APPLIED"}, mode : Modes, source : Movements]

NoEntries == [c \in Clients |-> 0]

Idle == [op |-> "IDLE"]
ExecuteRequests == [op : {"EXECUTE"}, movement : Movements, header : Headers, cc : BOOLEAN]
SaveRequests    == [op : {"SAVE"}, movement : Movements, header : Headers]
DiscardRequests == [op : {"DISCARD"}, movement : Movements]
PatchRequests   == [op : {"PATCH"}, movement : Movements, header : Headers, clear : BOOLEAN]
StartRequests   == [op : {"START"}, movement : Movements, header : Headers, mode : Modes]

\* One type invariant: every variable holds a value of its table's columns.
TypeOK ==
    /\ status \in [Movements -> {"NONE", "BORRADOR", "CONFIRMADA", "CANCELADA", "DELETED"}]
    /\ header \in [Movements -> Headers]
    /\ draft \in [Movements -> Headers \cup {NoDraft}]
    /\ correction \in [Movements -> Corrections \cup {NoCorrection}]
    /\ operation \in [Movements -> Headers \cup {NoOperation}]
    /\ entries \in [Movements -> [Clients -> Int]]
    /\ balance \in [Clients -> Int]
    /\ ccEnabled \in [Clients -> BOOLEAN]
    /\ request \in [Requests -> {Idle} \cup ExecuteRequests \cup SaveRequests
                       \cup DiscardRequests \cup PatchRequests \cup StartRequests]

Init ==
    /\ status = [m \in Movements |-> "NONE"]
    /\ header = [m \in Movements |-> NoHeader]
    /\ draft = [m \in Movements |-> NoDraft]
    /\ correction = [m \in Movements |-> NoCorrection]
    /\ operation = [m \in Movements |-> NoOperation]
    /\ entries = [m \in Movements |-> NoEntries]
    /\ balance = NoEntries
    /\ ccEnabled \in [Clients -> BOOLEAN]
    /\ request = [r \in Requests |-> Idle]

Exists(m) == status[m] \notin {"NONE", "DELETED"}

Finish(r) == request' = [request EXCEPT ![r] = Idle]

Read(r, q) ==
    /\ request[r] = Idle
    /\ request' = [request EXCEPT ![r] = q]
    /\ UNCHANGED <<status, header, draft, correction, operation, entries, balance, ccEnabled>>

-----------------------------------------------------------------------------
(* The header and the draft                                                *)

CreateMovement(m, h) ==
    /\ status[m] = "NONE"
    /\ status' = [status EXCEPT ![m] = "BORRADOR"]
    /\ header' = [header EXCEPT ![m] = h]
    /\ UNCHANGED <<draft, correction, operation, entries, balance, ccEnabled, request>>

\* ClientService.Update may switch the current account of a client at any time.
ToggleCC(c) ==
    /\ ccEnabled' = [ccEnabled EXCEPT ![c] = ~@]
    /\ UNCHANGED <<status, header, draft, correction, operation, entries, balance, request>>

MaySave(m) == status[m] = "BORRADOR"

\* SaveMovementDraft checks the status and the type outside any transaction.
ReadForSave(r, m) ==
    /\ MaySave(m)
    /\ Read(r, [op |-> "SAVE", movement |-> m, header |-> header[m]])

\* The upsert fails only if the movement is gone (foreign key).
SaveMovementDraft(r) ==
    LET m == request[r].movement
    IN /\ request[r].op = "SAVE"
       /\ Exists(m)
       /\ draft' = [draft EXCEPT ![m] = request[r].header]
       /\ Finish(r)
       /\ UNCHANGED <<status, header, correction, operation, entries, balance, ccEnabled>>

\* A change of type or of client invalidates the payload.
NeedsClear(old, new) == old.type # new.type \/ old.client # new.client

\* Mutant of MayPatch: the header is written whatever the status.
PatchesAlways(m) == Exists(m)

MayPatch(m) == status[m] = "BORRADOR"

\* PatchMovementHeader refuses to lose a payload the caller did not confirm to
\* clear, and clears it otherwise.
ReadForPatch(r, m, h, confirmClear) ==
    LET clear == NeedsClear(header[m], h) /\ draft[m] # NoDraft
    IN /\ MayPatch(m)
       /\ clear => confirmClear
       /\ Read(r, [op |-> "PATCH", movement |-> m, header |-> h, clear |-> clear])

\* The update of the header asks again for a draft.
PatchMovementHeader(r) ==
    LET q == request[r]
        m == q.movement
    IN /\ q.op = "PATCH"
       /\ MayPatch(m)
       /\ header' = [header EXCEPT ![m] = q.header]
       /\ draft' = [draft EXCEPT ![m] = IF q.clear THEN NoDraft ELSE @]
       /\ Finish(r)
       /\ UNCHANGED <<status, correction, operation, entries, balance, ccEnabled>>

\* Mutant of MayDiscard: forgets the status.
DiscardsAnything(m) == Exists(m)

MayDiscard(m) == status[m] = "BORRADOR"

\* DiscardMovementDraft checks the status in its transaction without a lock.
ReadForDiscard(r, m) ==
    /\ MayDiscard(m)
    /\ Read(r, [op |-> "DISCARD", movement |-> m])

\* The deletion names the movement alone.  Foreign keys take its draft, its
\* lines, its entries and its correction with it, and refuse it if it is the
\* source of a correction; cc_balances is not touched.
DiscardMovementDraft(r) ==
    LET m == request[r].movement
    IN /\ request[r].op = "DISCARD"
       /\ Exists(m)
       /\ \A d \in Movements : correction[d] # NoCorrection => correction[d].source # m
       /\ status' = [status EXCEPT ![m] = "DELETED"]
       /\ header' = [header EXCEPT ![m] = NoHeader]
       /\ draft' = [draft EXCEPT ![m] = NoDraft]
       /\ correction' = [correction EXCEPT ![m] = NoCorrection]
       /\ operation' = [operation EXCEPT ![m] = NoOperation]
       /\ entries' = [entries EXCEPT ![m] = NoEntries]
       /\ Finish(r)
       /\ UNCHANGED <<balance, ccEnabled>>

-----------------------------------------------------------------------------
(* Corrections                                                             *)

\* Modify starts from a confirmed movement, recreate from an annulled one.
Correctable(m, mode) == status[m] = IF mode = "MODIFY" THEN "CONFIRMADA" ELSE "CANCELADA"

ReadForCorrection(r, m, mode) ==
    /\ Correctable(m, mode)
    /\ Read(r, [op |-> "START", movement |-> m, header |-> header[m], mode |-> mode])

\* startCorrectionDraft copies the header and the payload, or rebuilds one from
\* the lines of the source, and links both movements.
StartCorrection(r, d) ==
    LET q == request[r]
    IN /\ q.op = "START"
       /\ Exists(q.movement)
       /\ status[d] = "NONE"
       /\ status' = [status EXCEPT ![d] = "BORRADOR"]
       /\ header' = [header EXCEPT ![d] = q.header]
       /\ draft' = [draft EXCEPT ![d] =
                       IF draft[q.movement] = NoDraft THEN q.header ELSE draft[q.movement]]
       /\ correction' = [correction EXCEPT ![d] = [status |-> "PENDING", mode |-> q.mode,
                                                   source |-> q.movement]]
       /\ Finish(r)
       /\ UNCHANGED <<operation, entries, balance, ccEnabled>>

-----------------------------------------------------------------------------
(* Annulment                                                               *)

\* Mutant of Reversal: keeps the sign.
ReversalKeepsSign(e) == e

Reversal(e) == [c \in Clients |-> -e[c]]

\* Mutant of Annullable: the status is not looked at.
AnnulsAnything(m) == Exists(m)

\* cancelMovementWithinTx: the status is read first and again by the transition.
Annullable(m) == status[m] = "CONFIRMADA"

Sum(e, f) == [c \in Clients |-> e[c] + f[c]]

CancelMovement(m) ==
    /\ Annullable(m)
    /\ status' = [status EXCEPT ![m] = "CANCELADA"]
    /\ entries' = [entries EXCEPT ![m] = Sum(@, Reversal(entries[m]))]
    /\ balance' = Sum(balance, Reversal(entries[m]))
    /\ UNCHANGED <<header, draft, correction, operation, ccEnabled, request>>

-----------------------------------------------------------------------------
(* Execution                                                               *)

\* Each Execute looks the movement up outside its transaction, through the
\* route of a type of operation, and asks for that type and for a draft.
ReadForExecution(r, m) ==
    /\ status[m] = "BORRADOR"
    /\ Read(r, [op |-> "EXECUTE", movement |-> m, header |-> header[m],
                cc |-> ccEnabled[header[m].client]])

\* What the execution posts: nothing, or an amount if the client had a current
\* account when it was looked up and, since ApplyEntry asks again, still has it.
Posting(q, amount) ==
    [c \in Clients |-> IF c = q.header.client THEN amount ELSE 0]

Postable(q, amount) == amount # 0 => q.cc /\ ccEnabled[q.header.client]

\* A pending MODIFY correction annuls its source in the same transaction.
Replaces(m) ==
    /\ correction[m].status = "PENDING"
    /\ correction[m].mode = "MODIFY"

AfterConfirm(fix) == IF fix = NoCorrection THEN fix ELSE [fix EXCEPT !.status = "APPLIED"]

Record(m, q) ==
    /\ operation' = [operation EXCEPT ![m] = q.header]
    /\ correction' = [correction EXCEPT ![m] = AfterConfirm(@)]

Execute(r, amount) ==
    LET q == request[r]
        m == q.movement
    IN /\ q.op = "EXECUTE"
       /\ status[m] = "BORRADOR"
       /\ ~Replaces(m)
       /\ Postable(q, amount)
       /\ status' = [status EXCEPT ![m] = "CONFIRMADA"]
       /\ entries' = [entries EXCEPT ![m] = Sum(@, Posting(q, amount))]
       /\ balance' = Sum(balance, Posting(q, amount))
       /\ Record(m, q)
       /\ Finish(r)
       /\ UNCHANGED <<header, draft, ccEnabled>>

ExecuteReplacement(r, amount) ==
    LET q == request[r]
        m == q.movement
        source == correction[m].source
    IN /\ q.op = "EXECUTE"
       /\ status[m] = "BORRADOR"
       /\ Replaces(m)
       /\ Annullable(source)
       /\ Postable(q, amount)
       /\ status' = [status EXCEPT ![source] = "CANCELADA", ![m] = "CONFIRMADA"]
       /\ entries' = [entries EXCEPT ![source] = Sum(@, Reversal(entries[source])),
                                     ![m] = Sum(@, Posting(q, amount))]
       /\ balance' = Sum(Sum(balance, Posting(q, amount)), Reversal(entries[source]))
       /\ Record(m, q)
       /\ Finish(r)
       /\ UNCHANGED <<header, draft, ccEnabled>>

\* Any error, and a lost connection, rolls the transaction back.
RollBack(r) ==
    /\ request[r] # Idle
    /\ Finish(r)
    /\ UNCHANGED <<status, header, draft, correction, operation, entries, balance, ccEnabled>>

-----------------------------------------------------------------------------
Next ==
    \/ \E m \in Movements, h \in Headers : CreateMovement(m, h)
    \/ \E m \in Movements : CancelMovement(m)
    \/ \E c \in Clients : ToggleCC(c)
    \/ \E r \in Requests, m \in Movements :
          \/ ReadForSave(r, m)
          \/ ReadForDiscard(r, m)
          \/ ReadForExecution(r, m)
          \/ \E h \in Headers, confirmClear \in BOOLEAN : ReadForPatch(r, m, h, confirmClear)
          \/ \E mode \in Modes : ReadForCorrection(r, m, mode)
          \/ StartCorrection(r, m)
    \/ \E r \in Requests :
          \/ SaveMovementDraft(r)
          \/ PatchMovementHeader(r)
          \/ DiscardMovementDraft(r)
          \/ \E a \in Amounts \cup {0} : Execute(r, a) \/ ExecuteReplacement(r, a)
          \/ RollBack(r)

Spec == Init /\ [][Next]_vars

-----------------------------------------------------------------------------
(* Properties that hold however requests overlap                           *)

Modification(d) == correction[d].status = "APPLIED" /\ correction[d].mode = "MODIFY"

\* The books around a correction: its draft is pending exactly while it is a
\* draft, once it is applied its modified source is annulled, and no movement is
\* replaced by two modifications, also when several corrections of one source,
\* its annulment and a discard compete.
CorrectionsSettleOnce ==
    \A d \in Movements :
        correction[d] # NoCorrection =>
            /\ \A e \in Movements \ {d} :
                  Modification(d) /\ Modification(e) => correction[d].source # correction[e].source
            /\ correction[d].status = "PENDING" <=> status[d] = "BORRADOR"
            /\ status[correction[d].source] \in {"CONFIRMADA", "CANCELADA"}
            /\ correction[d].mode = "RECREATE" \/ correction[d].status = "APPLIED"
                  => status[correction[d].source] = "CANCELADA"

\* Only a confirmed movement weighs on the current accounts: a draft has
\* posted nothing and an annulled movement nets to zero for every client
\* (operation_service.go, CANCEL_NET_CC_NOT_ZERO).
OnlyConfirmedHasEntries ==
    \A m \in Movements : status[m] # "CONFIRMADA" => entries[m] = NoEntries

\* Types, and what a status says of the entries.
StatusInv == TypeOK /\ OnlyConfirmedHasEntries

\* A movement is confirmed only from a draft and annulled only once: no
\* request, however late, revives an annulled movement or takes a confirmed
\* one back to draft.
StatusOnlyAdvances ==
    [][\A m \in Movements :
          status'[m] # status[m] =>
              \/ status[m] = "NONE" /\ status'[m] = "BORRADOR"
              \/ status[m] = "BORRADOR" /\ status'[m] = "CONFIRMADA"
              \/ status[m] = "CONFIRMADA" /\ status'[m] = "CANCELADA"
              \/ status'[m] = "DELETED"]_vars

-----------------------------------------------------------------------------
(* Properties of requests that do not overlap                              *)

\* cc_balances is the sum of cc_entries for each client, over every movement
\* that is still in the book.
BalanceIsSumOfEntries ==
    \A c \in Clients : balance[c] = SumFunction([m \in Movements |-> entries[m][c]])

\* The lines of a confirmed movement record the operation of its header, for
\* its client (operation_helpers.go: "valida tipo esperado y BORRADOR").
LinesMatchHeader ==
    \A m \in Movements :
        status[m] \in {"CONFIRMADA", "CANCELADA"} => operation[m] = header[m]

\* A draft never keeps a payload entered for another type or client
\* (operation_service.go, PatchMovementHeaderInput).
DraftMatchesHeader ==
    \A m \in Movements : status[m] = "BORRADOR" /\ draft[m] # NoDraft => draft[m] = header[m]

\* What a movement says of itself is of one header: its payload while it is a draft
\* and its lines afterwards.
FollowsHeader == LinesMatchHeader /\ DraftMatchesHeader

\* What was confirmed stays in the book, annulled at most, and keeps the payload
\* it was confirmed with, which its corrections start from.
ConfirmedIsKept ==
    [][\A m \in Movements :
          status[m] \in {"CONFIRMADA", "CANCELADA"} =>
              status'[m] # "DELETED" /\ draft'[m] = draft[m]]_vars

\* The book seen as the abstract life of its movements.
Stage(m) ==
    CASE status[m] = "NONE"       -> "UNUSED"
      [] status[m] = "BORRADOR"   -> "DRAFT"
      [] status[m] = "CONFIRMADA" -> "STANDING"
      [] status[m] = "CANCELADA"  -> "ANNULLED"
      [] status[m] = "DELETED"    -> "DROPPED"

Lifecycle == INSTANCE MovementLifecycle WITH
    Amounts <- Amounts \cup {0},
    stage   <- [m \in Movements |-> Stage(m)],
    effect  <- entries,
    ledger  <- balance

\* The services implement the life of a movement: executing a modification is
\* one Replace, never an annulment and a confirmation apart.
ImplementsLifecycle == Lifecycle!Spec
=============================================================================
