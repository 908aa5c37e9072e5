# FINA 1.1: specifications, model checking and proofs

FINA is the back office of a currency-exchange house: a Go service over Postgres
(`src/backend`) and a web client (`src/frontend`). Employees enter operations
(purchases, sales, arbitrages, transfers, capital, expenses), the service turns
each of them into lines of cash, entries in the current account of a client,
profit entries and a change of the exchange inventory, and leaves what is not yet
handed over as *pending items*. Operations can be annulled, modified and recreated.

This directory holds TLA+ models of the service and of the client, the TLC configurations that
check them, and TLAPS proofs about most of them. `PROJECT.json` lists runs,
mutants, the correspondence between definitions and lines of code, the hazards
and the findings.

## 1. Inventory

Paths are relative to `src/backend/internal` unless they start with `src/`.

| Component | State (tables) | Operations | Where |
|---|---|---|---|
| Pending items | `pending_items`, the pending rows of `movement_lines` | Resolve (partial, total, compensated), Cancel, opening balance | `services/pending_service.go`, `repositories/pending_repo.go`, `services/opening_pending_service.go` |
| Movement life cycle and corrections | `movements`, `movement_drafts`, `movement_corrections` | CreateMovement, SaveMovementDraft, PatchMovementHeader, DiscardMovementDraft, ModifyMovement, RecreateMovement, CancelMovement | `services/operation_service.go`, `services/movement_status.go`, `repositories/operation_repo.go` |
| Purchase, sale, arbitrage | `movement_lines`, `profit_entries` | Execute | `services/compra_service.go`, `venta_service.go`, `arbitraje_service.go`, `fx_quote_mode.go` |
| Transfer | the same | Execute: dual leg, signed, legacy | `services/transferencia_service.go` |
| Current accounts | `cc_entries`, `cc_balances`, `clients.cc_enabled` | ApplyEntry, manual adjustment, client update | `services/cc_impact.go`, `cc_service.go`, `client_service.go`, `repositories/cc_repo.go`, `client_repo.go` |
| Crossed payments and debt transfers | the same | Execute | `services/pago_cc_cruzado_service.go`, `traspaso_deuda_cc_service.go` |
| Exchange inventory | `fx_positions`, `fx_inventory_ledger` | ApplyOnMovementConfirmed, ReverseOnMovementCancelled | `services/fx_inventory_service.go` |
| Capital, expenses, transfers between accounts, opening cash | `movement_lines` | Execute | `services/ingreso_capital_service.go`, ... |
| Cash position, reports, counts | `cash_arqueos`; the rest is aggregated | reports, Create of a count | `repositories/cash_position_repo.go`, `services/reportes_service.go`, `cash_arqueo_service.go` |
| Access | `users`, login counters, tokens | Login, unlock, users | `services/auth_service.go`, `user_service.go`, `auth/*`, `http/ratelimit_middleware.go` |
| Permissions and settings | `role_permissions`, `user_permissions`, `system_settings` | get, update | `services/permissions_service.go`, `settings_service.go` |
| Master data | `accounts`, `currencies`, `clients` | create, update | `services/account_service.go`, `currency_service.go` |
| HTTP, configuration, start-up | none | decode, route, encode | `http/*`, `config/*`, `src/backend/cmd` |
| Client: session, routes, menu | React state of a tab; token and permissions in `localStorage` | login, logout, expiry, refresh of permissions, redirects | `src/frontend/src`: `context/AuthContext.tsx`, `api/client.ts`, `App.tsx`, `components/layout/AppLayout.tsx` |
| Client: wizard of a new operation | header on the screen, `lastSyncedHeaderRef`, timers, pointer in `sessionStorage` | create, patch, resume, discard, execute a draft | `pages/NuevaOperacionPage.tsx` |
| Client: operation forms | the form, its lists, its draft and the cached copy | edit, load, save, clear, send | `components/operations/*.tsx`, `utils/operationDrafts.ts` |
| Client: transfer form | two legs, fee, quote, suggestion | the same, with effects that feed each other | `components/operations/TransferenciaForm.tsx` |
| Client: pending page | the list as read, the dialog open, the requests under way | resolve, compensate, annul, register, refresh | `pages/PendientesPage.tsx` |
| Client: lists, reports, administration | what the service answered | read and show | `src/frontend/src/pages` |

**How they interact.** Everything meets in the database. Each request is a Go
handler that reads some rows, decides, opens a transaction at READ COMMITTED and
writes; there are no queues or retries, and the one background job, the clean-up of the
limit on logins, works on memory of its own. An execution calls
`confirmMovementDraftTx`, which moves the header from BORRADOR to CONFIRMADA,
annuls the source of a modification, marks the correction applied and calls the
inventory's hook, all in the transaction of the execution. `CancelMovement` calls
`cancelMovementWithinTx`, which inserts the reversal of every real line, entry and
profit, calls the inventory's other hook and closes the pending items. Resolving
a pending item writes the line that the execution of the operation inserted. In the
client, the wizard owns the draft movement and mounts one form per type; the form
saves its payload through the service and sends the execution; both use the token
of the session, which the tabs of a browser share through `localStorage`.

**What is hard.** (a) Handlers validate with rows read *before* the transaction,
and many statements inside it do not ask again. (b) One movement is reached by
several handlers: resolution, cancellation of an item, annulment, correction,
discard. (c) The current account of a client can be switched between an
operation and the resolution of what it deferred. (d) Reversals happen later and
in another order than what they reverse, over a position that has moved on.
(e) Costs are rounded at every step. (f) In the client every answer is applied by a
closure that saw an older screen: answers come late, in another order, after the user
went on to another draft or another session, or not at all. (g) Effects of a form run
after each render, write what other effects read, and must come to rest. (h) Client
and service decide on their own whether amounts square, one in doubles and one in fractions. Transactions are atomic and nothing but the
limit on logins is kept in memory between requests, so a crash is a rollback: it appears as `RollBack`.

**What makes each part correct.** Pending items: the instalments add up to the leg,
an item closes once, an annulled movement leaves no cash. Movements: one
confirmation, one annulment, one replacement; a draft's payload and an executed
movement's lines belong to its header. Current accounts: the balance is the sum
of the entries, and never runs ahead of cash. Inventory: the stock is the sum of
what stands, an empty position costs nothing, cost and profit add up to the quote.
Counts: the theoretical balance is one instant's. Session: a tab shows, may do and
sends what belongs to the session it is in. Wizard: the header on the screen is the one
the service would execute, and no payload is lost by an edit. Forms: what a form at rest
sends the service accepts, a saved draft comes back, what the user typed stays.

## 2. Modules

| Module | What it is |
|---|---|
| `PendingObligation` | Abstract: a debt that is paid in instalments, waived, or annulled |
| `Pendings` | One pending leg per movement: line, item, other cash, entries, balance |
| `PendingsProofs` | Theorems about `Pendings` |
| `MovementLifecycle` | Abstract: a book of movements and what each one adds to the accounts |
| `Movements` | Header, draft, correction, execution, annulment |
| `FxInventory` | Position and ledger of the exchange inventory |
| `CCLedger` | Current accounts, statement by statement: transfers, payments, adjustments, annulments |
| `Session` | The session of the client over several tabs: token, permissions, routes, menu |
| `Wizard` | The wizard of a new operation against the service, each request in three steps |
| `RateLimiter` | The limit on logins per address, with its clean-up |
| `LoginWindow` | Abstract: what that limit promises an address |
| `MovementsProofs` | Theorems about `Movements` |
| `SumTheorems` | What sums over finite sets do when a term changes; no variables |
| `BookProofs` | Theorems about `CCLedger`, then about `FxInventory` and its rounding; the two parts share nothing |
| `AccessAndFormsProofs` | Theorems about `AccessControl` and `RateLimiter`, then about the nine forms of `OperationForms`; the two parts share nothing |
| `TransferFormProofs` | Theorems about `TransferForm` and, with those about the nine, about all of `Forms` |
| `ClientProofs` | Theorems about `Session` and `Wizard` |
| `PendingPageProofs` | Theorems about `PendingPage` |
| `Access` | The row of a user and the settings about access: logins, lock-out, PINs, administration |
| `Permissions` | Tables of permissions and the three readers of them |
| `AccessControl` | The two together |
| `FormLegs` | Pure: legs of a form, formats of an account; no variables |
| `QuoteAmounts` | Pure: what an amount is worth at a quote, for the client's doubles and for the service's fractions |
| `QuoteForms`, `SimpleForms`, `ArbitrageForm` | Pure: what each of the nine forms is, what it renders, saves and sends, and what the service of its operation accepts |
| `OperationForms` | The step common to the nine forms: inputs, lists, debounce, draft, sending |
| `TransferForm` | The transfer form: the passes of its effects, suggestion, fee, draft, sending |
| `Forms` | The ten forms side by side, one at a time: `OperationForms`, and `TransferForm` by INSTANCE |
| `PendingPage` | The pending page: list, three dialogs, their requests, late and lost answers |
| `MCPendings`, `MCMovements`, `MCFxInventory`, `MCCCLedger`, `MCSession`, `MCWizard`, `MCForms`, `MCPendingPage`, `MCAccess` | Instances for TLC: symmetry and constants; `MCAccess` puts `RateLimiter` beside the two parts of `AccessControl` |

**A request to the service is two steps** in `Pendings`, `Movements` and `FxInventory`. The first step (`ReadFor...`) is what the handler reads
outside its transaction, or inside it without a lock, and keeps in `request[r]` (`annulling[r]` in `FxInventory`).
The second is the commit, with exactly the conditions Postgres evaluates then:
WHERE clauses, CHECKs, foreign and unique keys, rows read under FOR UPDATE, and
reads the transaction repeats. An error rolls back, which is the second step not
being enabled, or `RollBack`. `Requests` is the number of requests in flight at
once; with one element the handlers run one at a time and every property of a
sequential reading of the code must hold, and does.

### Pendings

`line` and `pending` are the rows of `movement_lines` and `pending_items` of the leg.
The other real rows of the movement (instalments, reversals) matter only as their
signed sum per format, `cash`; the `cc_entries` of the movement as their sum,
`entries`. `NetReal` is what `validateZeroNetByMovementTx` adds up. A movement has
one pending leg: two legs of one movement share only `status` and the client.

| Action | Code |
|---|---|
| `OpenPending` | the inserts of a pending line and item by purchases, transfers, opening balances |
| `ToggleCC` | `ClientService.Update` |
| `ReadForExecution`, `ReadForCompensation` | `Resolve` up to `Begin`, with `FindByID` |
| `ExecutePartial` | `SubtractResolvedAmount...`, `InsertMovementLine`, `ReduceAmount`, deferred entry |
| `ExecuteTotal` | `ApplyRealExecutionToMovementLine`, `MarkResolvedWithMode`, deferred entry |
| `Compensate` | `MarkResolvedWithMode` |
| `ReadForCancel`, `CancelPending` | `Cancel`, `MarkCancelled` |
| `ReadForAnnulment`, `AnnulMovement` | `cancelMovementWithinTx` |

### Movements

`header` is type and client; `draft` is the header its payload was entered for,
which is all the properties tell apart about a payload; `operation` is the header
the lines were executed for. What an execution posts is one signed amount. Each
`Execute` of the operation services is `ReadForExecution` (`lookupMovementForExecution`)
followed by `Execute`, or by `ExecuteReplacement` when the draft is a pending
modification. Deleting a movement is `DiscardMovementDraft`, with the cascades of the
foreign keys. `CreateMovement` and `CancelMovement` are one step because all they
read is read again by the guarded transition.

### FxInventory

`position` is `fx_positions`, `ledger` the APPLY row of each movement, `reversed` the
movements with a REVERSE row. `Confirm` books a movement under the row lock of the
position; an annulment, alone (`Annul`) or by a correction (`Replace`), reads the status
and the ledger first. Quantities are units and costs are quanta: the smallest
decimal the tables keep, to which `Rounded` rounds as `FloatString(12)` does, so small
integers already show the remainders of every division. A sale without enough
stock is confirmed without being booked, never in part. The settings are
constants because the settings service does not accept their keys;
`RequireInventory = FALSE` allows every step that TRUE allows and more. Left out:
`avg_cost_before` (kept for reading only), the refusal of movements quoted in
another currency (they leave no trace), transfers within one currency (no trade)
and the discard of a draft, which `Movements` models.

### CCLedger

Here one transaction may wait for another half way, so each statement that locks a row
of `cc_balances` is a step. `balance` and `rows` are what is committed, `holder` who
has each row, and `request[r]` the transaction of a handler: the entries it has yet to
post (`todo`), what it wrote and nobody else sees (`write`), and what it added to
`cc_entries` or `cc_manual_adjustments` (`posted`). `recorded` is the committed sum of
those two tables, `standing` the confirmed movements an annulment can choose from. A row
that is being inserted is held although nobody sees it: an upsert waits for it, a
`SELECT ... FOR UPDATE` finds nothing and goes on.

| Action | Code |
|---|---|
| `StartTransfer`, `PostEntry`, `PostRefused` | `TraspasoDeudaCCService.Execute`: two `ApplyEntry`, each asking for `cc_enabled` again |
| `StartPayment`, `ReadDebt`, `PaymentRefused`, `PostEntry` | `PagoCCCruzadoService.Execute`: `getCCBalanceForUpdate`, the settings, one `ApplyEntry` |
| `StartAdjustment`, `ReadBalance`, `WriteAdjustment` | `ClientService.Update` with `ApplyCCBalanceAdjustmentsTx`; its commit leaves the account switched on (`validateCCAdjustmentsInput`) |
| `StartAnnulment`, `PostEntry`, `CommitRefused` | the reversals of `cancelMovementWithinTx` and its guarded transition |
| `ToggleCC` | `ClientService.Update` without adjustments |
| `Commit`, `RollBack`, `DeadlockAbort` | the end of a transaction, any error, Postgres' deadlock detector (external) |

The entries of an annulment are reversed in the order of their random identifiers,
so `ReversalsOf` offers every order.

### Session

`stored` is `localStorage`, `tab[t]` the React state of a tab with its path, the page to
come back to and the requests under way. A token is the number of its login, so that
"an older session" is a smaller number. A request carries the token found in
`localStorage` when it is sent (`getToken`), not the one of the tab; its 401 raises
`auth:session-expired` in whatever session the tab is in by then.

| Action | Code |
|---|---|
| `Login`, `WrongPassword` | `LoginPage.handleSubmit`, `login`; a wrong password is a 401 like any other |
| `Logout`, `AnswerCall` | the menu's button; the answer of a page's request |
| `AnswerRefresh` | `refreshPermissions`, with its in-flight flag |
| `Follow`, `Redirect` | the menu; `ProtectedRoute` and the routes of `App` |
| `Reload`, `Expire` | the state read from `localStorage`; the time of a token |

`Routes`, `NavItems` and `FallbackByRole` are the three tables as they stand in three
files. `overlapped` is a history: the tab entered while a request of its previous
session was in flight.

### Wizard

`server` is what the service keeps about each draft, `wiz` the page, `net` the requests
under way, `pointer` what survives in `sessionStorage`. Each request is sent, served and
answered in three steps, and its answer is applied with what its closure captured. What the
page is told need not be what the server did: `Served` carries a request out and answers, or
answers with an error and may have carried it out all the same. A creation that timed out, and what a
page that was left had sent, may still be carried out (`net.lost`), and the handlers of that
page then go on (`AnswerLate`): they clear the pointer and navigate. `Render` runs the
effects of a change: it cleans and arms the two timers. `unsure` is a history: the user
acted while a request about the header was in flight, went on from a list, a pointer or a
detail older than the draft, hid a refusal, was not told what the server did, or was shown no
clients of an arbitrage because its detail could not be read (`:771`). A draft that is resumed from
the list notes no collecting client apart (`cob`, lines 753-759), to which a cancelled dialog goes back (`Reverted`).

| Actions | Code |
|---|---|
| `Enter`, `Menu`, `ReloadPage`, `Leave` | the mounting effects, `resetToken`, `resumeMovementId` |
| `EditType`, `EditClient`, `SendCreate`, `ServeCreate`, `AnswerCreate`, `RefuseCreate`, `CreateTimeout` | `ensureMovementHeader`, `CreateMovement` |
| `SendPatch`, `ServePatch`, `AnswerPatch`, `ConfirmClear`, `Revert` | `patchMovementHeader`, `PatchMovementHeader`, the dialog about the payload |
| `Resume`, `ServeDetail`, `AnswerDetail` | `handleResumeDraft` |
| `DiscardListed`, `CancelDraft`, `Submit` and their `Serve...`, `Answer...`, `AnswerLate` | the three handlers that end a draft |
| `AnswerFetch` | `fetchDrafts`, which also finds that the current draft is gone |

### FormLegs, QuoteAmounts, QuoteForms, SimpleForms, ArbitrageForm, OperationForms

A form is a record: legs, lines, quote, and for each leg the list of currencies it
received last and the requests for lists under way. For each type, `...Rendered` is
what its effects make of a change, `...Inputs` the forms one input of the user leads to,
`...Data` and `...Restored` what a draft keeps and gives back, `...Submits` the checks of
the client, `...Request` what is sent, and `...Accepts` the checks of the Go service.
A form is never outside its type (`QuoteForm`, `CapitalForm` and so on), nor is a stored draft (`Stored`).
`OperationForms` chooses by `kind` and has the common steps: `Edit`, `Clear`, `Reopen` (the
form is mounted again), `Settle` (the debounce of the equivalent runs out), `AnswerLists`,
`AnswerLoad`, `SaveDraft`, `AnswerSave`, `Submit`, `AnswerSubmit`. A request that fails may have
been carried out.

Amounts are cents and rates count decimals of `RateUnit`. `QuoteAmounts` has the arithmetic twice.
The service computes in fractions and rounds half a cent away from zero (`Rounded`). The client
does the same in doubles, which err by far less than what keeps a quotient from half a cent unless it
falls on it; then the double may lie a little short, and the client is one cent below
(`RoundedByClient`). Which operands those are depends on their digits and on the function that
rounds (`roundHalfAwayFromZero` for a sale or a purchase, `roundTo` for a suggestion), so
they are a constant, `ShortOfHalf`, and for the transfer `TransferShortOfHalf`. The values of the
instance are those of IEEE doubles: 2.01 / 2 = 1.005 gives 1.00 in the client and 1.01 in the
service, and 10.03 / 2 = 5.015 gives 5.01 and 5.02.

### TransferForm

The effects of this form write what other effects read. A *pass* is one render: every
effect reads what that render showed and writes in the order of declaration (`Pass`);
`Rendered` repeats passes up to `Passes`, and a form that still changes then is `Stuck`. The
step of an input or an answer is the input and its passes. `Accepts` and `Booked` are
`validateDualLegCrossCurrencyAndQuote`, `deriveFeeAccountAndFormat` and the fee of
`executeDualLegTransfer`.

### PendingPage

`list` is what the page shows, `fetches` the lists under way in the order they were asked for,
`dialog` the one dialog open with the item as the list had it, `request` what dialogs sent. The
`owner` of a request says who hears its answer: its dialog, the page after the dialog was
closed, or nobody after the page was left.

| Action | Code |
|---|---|
| `OpenDialog`, `Edit`, `Close`, `Submit` | the buttons of a row; the fields, with what each mode disables; Escape and Cancelar, which do not wait; `handleSubmit`, `handleCancel` |
| `Serve` | `Resolve`, `OpeningPendingService.Create`, `CancelMovement`, in one step each: `Pendings` takes them apart. A compensation is typed as free text and stored as the id of a movement, so the service refuses any other (`References`); an annulment may be refused for lack of stock or cost, which `FxInventory` models and no item tells (`RefusedForStock`) |
| `AnswerDone`, `AnswerError` | `onDone` of each dialog, which closes whatever dialog of that kind is open and asks for the list; the `catch` |
| `ReadList`, `AnswerList` | `ListOpen`; `setItems`, with no guard on the order |
| `AnswerDialog` | the accounts, settings, clients and currencies a dialog asks for |
| `Elsewhere`, `Return` | other users; the page is left and mounted again |

`doubt`, `sure` and `again` are histories: `doubt` says that the list shown may lack what the
page did (a lost answer, a list that failed or came after one asked for later), `sure` that a
dialog was opened with nothing under way and no doubt, `again` that it lost an answer. The
properties exclude these cases, because the code does not cover them: the divergences of section 3 tell
what happens then.

### RateLimiter

`entries` is the map of the process, `now` its clock, `cleanAt` the next tick of the clean-up.
`allow` is four actions, one for each way through it, and `Cleanup` one turn of `cleanupLoop`; all hold
the mutex, so each is one step. A restart of the process forgets
the map and is not modelled: the limit is of one process. The address itself is a model
value, so how `clientIP` finds it is left out.

### Access

A user is a row (`role`, `pin`, `active`, `attempts`, `locked`), a request what its handler has read.
A handler reads the row, compares or hashes a secret, which is slow, and writes with one or
two statements without a transaction.

| Action | Code |
|---|---|
| `Login`, `WrongSecret`, `LockUser`, `RightSecret` | `LoginWithPassword`, `LoginWithPIN`, `handleFailedAttempt`, `ResetFailedAttempts` |
| `Create`, `ReadForUpdate` and `Update` | `UserService.Create`, `Update`, with the five updates of `UserRepo.Update` |
| `ReadForPassword` and `UpdatePassword`, `ReadForPin` and `ChangeOwnPin` | `ResetPassword`, `ChangeOwnPassword`, `ChangeOwnPin` |
| `ReadForToggle` and `ToggleUserActive`, `ReadForSettings` and `UpsertMany` | `SettingsService.ToggleEntityActive`, `Update` |

The errors of the statements that count, lock and clear are ignored by the code; `Attempted`
lets them fail. `Tick` is time, of which only what is left of a lock is kept. `apart` is a history:
no two requests have overlapped and no ignored statement has failed; a property that holds
only then says so. Of the settings those of the PIN are kept: those of the lock-out are read
by nothing. A limit is stored as it was sent: a number, whole or not (they are counted in halves),
or something else (`NotANumber`), which `validateSettings` compares with nothing and `validatePin` reads as
if it were not there, as it does a length that is not whole (`LengthOr`).

### Permissions

`tables` says whether the migration has run, `catalog`, `ofRole`, `ofUser` are the three tables,
`token` the role in the token of a user, which outlives a change of the row. `ResolvePermission`,
`GetEffectivePermissions` and the matrices are operators; every update is an action. The two
queries of a resolution may fail (`Queries`): `RequirePermission` then lets the roles of the route decide.

## 3. Runs

| Run | Instance | States | Shows |
|---|---|---|---|
| `PendingsSequential` | 1 leg of up to 3 units, 1 client, 1 request | 8 thousand | Instalments add up, annulments leave nothing, a closed item moves no cash, `Pendings` implements `PendingObligation` |
| `PendingsConcurrent` | the same, 2 requests | 352 thousand | Types and CHECKs, the two tables agree (`TablesInv`), the balance is the sum, entries never exceed cash |
| `MovementsSequential` | 2 movements, 2 clients, 2 types, 1 request | 81 thousand | Lines, payload and header agree (`FollowsHeader`), confirmed movements and their payloads stay (`ConfirmedIsKept`), `Movements` implements `MovementLifecycle` |
| `MovementsConcurrent` | 3 movements, 1 client, 2 requests | 103 thousand | No double confirmation, annulment or replacement |
| `FxInventory` | 3 movements, 2 currencies, quantities 1 and 3, quotes 1 and 4, 2 annulments | 182 thousand | Stock is the sum of what stands; cost, profit and average agree to rounding; no residue in an empty position (`CostIsAccounted`) |
| `CCLedger` | 2 clients, one with a row, balances -1 and 2, 2 requests at once, 3 in all | 133 thousand | The balance is the sum of what is recorded, payments respect the settings at their commit, a debt moves whole, every request ends |
| `Session` | 2 tabs, an operator and a courier, 2 logins, 3 paths, one tab whose pages call | 423 thousand | A tab is in its own session (`SessionIsOwn`), sessions end for a reason, redirects end |
| `Wizard` | 2 drafts, 2 types, 2 clients, 2 acts | 1.39 million | The header shown is the one stored, the draft in hand is open, edits keep payloads, it settles |
| `Forms` | 10 forms, 2 accounts, 2 currencies, 2 lines, 4 stored transfers, amounts at half a cent, 2 or 3 acts and failures | 410 thousand | Screens are consistent and come to rest, what is sent is accepted but for a missed half cent and booked as shown, drafts come back, typed amounts stay |
| `PendingPage` | 2 items of one movement and room for one, 3 accounts, one inactive, 2 requests, 2 lists, 6 acts and failures | 3.11 million | The list shows what the page did, no dialog works twice on an item, what is sent is accepted |
| `Access` | 1 user, 2 requests, failing statements, 2 attempts, 5 limits of a PIN; 2 addresses, 2 requests per window, 3 periods; 2 valid roles and another, 2 keys, every content of the tables, failing queries | 333 thousand | Only couriers have a PIN and two numbers as its limits admit one (`AccessInv`), lock and count agree, a lock ends; the limit on logins keeps its promise; the readers of the permissions agree (`PermissionsInv`) |

**Why these bounds are enough.** In `Pendings` no action relates two legs except
through the sum of the balance, so one leg shows the life of a leg; three units is
the least amount with two instalments and a rest, and two requests are the least
that overlap. Three requests would only repeat: every pair of a read and a commit
of two handlers already has any commit between them. In `Movements`, a source and two
competing corrections of it are three movements; the sequential run needs two
clients and two types to tell a stale header from a current one. In `FxInventory` a
quantity of 3 with a cost of 4 or 5 has an average with a remainder, and a purchase, a
sale and the replacement of either make three movements; two currencies show the
replacement of a movement by one in another currency. In `CCLedger` two transactions
over two rows are the least that deadlock, and a third request, after one of them, is
what an annulment needs; one row is there and the other is not, because the locks of the
two differ. A transfer or payment of 2 crosses zero from a balance of -1 and reaches it from 2,
and both settings are FALSE: they only remove refusals.

In `Session` one login while a request of the one before is in flight is the whole hazard,
and the second tab is what shares the token; two users with different roles and grants
show a permission that is not one's own. In `Wizard` one type has a client, the other
two and none required; two drafts are the one in hand and the one the user goes on to; the
acts count what the user does on the open page, and every answer may come before, between
and after them. `FirstHeaders`, the headers of the draft there is at first, are all of them but for the names of
the clients, which are interchangeable. In `Forms` a behaviour is one of a single form, so the states of the ten add up. In the nine forms of
`OperationForms` the draft, the lists and the debounce are under way from the
start, so two or three acts meet all of them; forms that repeat another one have two. In
`TransferForm` the stored drafts put the form where many inputs would have to lead. `Passes`
is larger than the longest chain of passes that ends. The amounts are such that a sale (2.01 at 2), a
purchase (a typed line of 2.01 against 1.00) and a transfer (10.03 at 2, and half of it as a fee) fall on half
a cent: without the exception `MissesHalfCent` TLC finds the property violated for each of the three.

In `PendingPage` two requests and two lists are the least that overlap; two items of one
movement show an annulment that closes both; an amount of 2 has one instalment, and one of the
accounts is inactive, so that the account a dialog proposes is not always that of the line. Six acts
register an item, or lose an answer between a partial payment and its repetition.

The run `Access` has three parts that share no variable, `Access`, `RateLimiter` and `Permissions`: a behaviour
moves one of them, so their states add up, and each part reaches
what it would alone. The limits of a PIN go through all their values (3 and 4.5, 4, 8 and no number) in a part of
their own, where nothing but the settings moves; beside the accounts they take four, which admit a PIN or none. One user is enough, since no handler looks at two rows; the count stops
at `MaxFailed`, because the code only compares it with that; a lock lasts two ticks, the least
that another attempt could prolong;
whether couriers have PINs is fixed in a behaviour. The keys are one that both
catalogues know and only some role has, and one that only the tables know; a key that the
tables lack is among the contents of their catalogue. Two requests per window, a window of one
and a period of two are the least in which a window ends between two clean-ups and one begins
before the second; time stops at `MaxTime`, three periods.

**Composed properties.** `TablesInv`, `StatusInv`, `FollowsHeader`, `ConfirmedIsKept`,
`StockIsSumOfStanding`, `CostIsAccounted`, `LedgerInv`, `LimiterInv`, `AccessInv`, `PermissionsInv`, `SessionIsOwn`, `DraftInHand`, `ScreenIsConsistent`, `ScreenComesToRest`, `PageInv` and those of `Forms` are conjunctions of the type invariant of their module, where it has one,
and of properties about the same thing, each with its own comment in the module.

**Symmetry.** Movements and requests are interchanged in `MovementsConcurrent` and
`FxInventory`, whose properties are invariants and step properties; clients and types
are not, because a CHOOSE names one. `FxInventory` turns the check for deadlock
off: every one of its three movements may end annulled, and nothing remains to be done.

**Fairness.** No process of the service retries, polls or is scheduled: a request is made
because an employee makes it, and a pending item may stay open for ever. So the first
three specifications, whose handlers never wait for each other, state no fairness.
`CCLedger` states `WF_vars(Proceed(r))`, that a handler which has started goes on: the Go
scheduler runs every goroutine, and Postgres answers a statement once the row it waits for
is free and aborts one transaction of a cycle. Arrivals and `RollBack` are not fair.
`MaxStarted` bounds the arrivals, so nobody can overtake a waiting request for ever, and
weak fairness is enough; with endless arrivals the claim would rest on Postgres' queue of
waiters, which is not modelled. `Access` states `WF_vars(Tick)`: time does not stop. In the client the browser is the scheduler: it runs a timer
that is due, renders after a change, and answers a request or gives it up, which counts as
a failed answer. So `Session` has `WF` on `Redirect`, which the router does while it renders;
`Wizard` on `System`, timers, server and answers. What the user does is never fair. The forms
state no fairness: their properties are about every state and every step. Failures are counted
with the acts of the user, because a connection that fails for ever is no behaviour of the page.

### Divergences

This run checks what a comment of the repository says, and TLC
finds a behaviour of the code that does not do it. `findings` quotes the line.

| Run | What the shortest behaviour does |
|---|---|
| `Fx_TransfersBookTheirLegs` | The lines of one transaction share `created_at` and are listed by random identifier: a fee line listed first is taken for a principal leg |

Met while modelling the service. The concurrent forms of properties that the two sequential
runs check are refuted by TLC once `Requests` has two elements; the adjustment is a
behaviour of `CCLedger` for a client outside `Opened`:

- a full execution that read the item before another request paid a part of it overwrites
  the line with the amount it read (`pending_service.go:118`, `AmountConserved`), and one that
  read it before the annulment executes it afterwards (`pending_service.go:214`);
- a discard that read a draft deletes the movement after it was executed, and its effect
  stays in the balance (`operation_service.go:386`, `ConfirmedIsKept`);
- a manual adjustment of a client without a row in `cc_balances` locks nothing and
  overwrites an entry posted meanwhile (`client_repo.go:149`; `LedgerInv` speaks of the
  accounts that have a row);
- with overlapping requests an execution can confirm lines of the header it looked up
  (`operation_helpers.go:25`), and a payload of the old type can be saved
  (`operation_service.go:155-156`): the concurrent forms of `FollowsHeader`; and a cancelled
  item can still be executed (`src/docs/api-pendientes-auth-permisos.md:10`);
- a resolution by compensation names any existing movement: nothing looks at its
  status or client, and annulling it later does not reopen the item
  (`pending_service.go:228-229`);
- an operation settled in cash at a time when the client had no current account
  posts an entry for its pending leg if the account is switched on before the
  resolution (`cc_apply_on_resolve` is inserted as true in every case;
  `src/AUDITORIA_PLAN_MAESTRO.md:58-59`);
- annulling a purchase that empties the position drops the cost that was left, so
  that after annulling the sale as well another purchase can no longer be annulled
  for lack of cost; and a modification of a purchase whose stock was sold is refused
  even if the new purchase would cover it, because the reversal comes first;
- the entry of a deferred fee is posted on the side of its line (`pending_service.go:232`), that
  of a fee settled at once on the opposite side (`transferencia_service.go:681-682` and
  `:708-711`), so the entry that was omitted has the other sign (`ExecuteTotal` of a `FEE`);
- the settings of the lock-out are validated (`settings_service.go:149-157`) and shown
  (`SeguridadTab.tsx:85-98`), and no code reads them: users are locked after the constants of
  `auth_service.go:15-16`, whether or not the switch is on;
- a failed login that read the count before a successful one locks the user after it
  (`auth_service.go:99`), and failures that overlap may all read a low count, so that the row
  counts more attempts than it locks at: `LockFollowsAttempts` speaks of requests that do not overlap (`apart`);
- overlapping updates may leave a PIN with a user that is no longer a courier
  (`user_service.go:161` looks at the role read before), and two limits that cross
  (`settings_service.go:64`): `AccessInv` without `apart`;
- a limit of the PIN that is no number is stored and compared with nothing
  (`settings_service.go:125-135`), and `validatePin` takes its default instead
  (`user_service.go:333-340`): with an upper limit of 3 beside it no PIN is admitted;
- after an error of the database the roles of a route decide (`permission_middleware.go:27-39`), so for
  as long as it lasts a user whose permission was denied may pass, and one who was granted it may not;
- a token keeps the role it was issued with for twelve hours, whatever becomes of the row, and
  a deactivated user works on until it expires: `ViewsAgree` compares the screen with the
  routes while both have the same role.

Met while modelling the client. Each is a step of the models; the properties name it as an
exception, or speak of what holds besides it:

- `AuthContext.tsx:85`: permissions asked for in one session are answered in the next and
  become its permissions, and the refresh of the new session is skipped; `client.ts:26`: the
  401 of a request of the old session ends the new one (`overlapped` in `Session`);
- `client.ts:26` and `LoginPage.tsx:51`: a wrong password in one tab removes the token that
  another tab works with;
- `NuevaOperacionPage.tsx:250`: after a reload with an edit not yet sent, the edited header
  counts as synced and is never sent; the same when the header is edited and edited back
  while its PATCH is in flight (`:671`), or when another draft is discarded after a refusal,
  which hides the message (`unsure` in `Wizard`);
- `NuevaOperacionPage.tsx:466`: a reload after "new operation" of the menu replays its token,
  starts an empty wizard and forgets the draft that `:20` says survives a reload;
- `NuevaOperacionPage.tsx:759`: the detail of a resumed arbitrage overwrites the clients of
  whatever is open by then; `:550`: a creation that timed out leaves a draft nobody holds;
- `NuevaOperacionPage.tsx:714-739`: an execution or a cancellation that is answered late
  resets the draft the user has opened since, or leaves the page the user is on;
- `NuevaOperacionPage.tsx:730`, `:793`: when the answer of a cancellation, a discard or an execution is
  lost, the page keeps a draft that is no more; `:771`: the clients of a resumed arbitrage that could
  not be read stay blank without a word, while the service executes with those it has;
- `NuevaOperacionPage.tsx:449` against `:440` ("para evitar bucle 409 ↔ PATCH debounced"): an arbitrage
  resumed from the list notes its client but no collecting client (`:753-759`); a dialog
  that is cancelled before the detail arrived puts the blank one back, which differs from what the
  effect sends, and the same PATCH is armed again (the exception of `RevertsRest`);
- `money.ts:20` ("alineado al cuadre VENTA/COMPRA en backend") against `fx_quote_mode.go:10`: where the
  exact value is half a cent the double may lie short of it, and the form sends what the service
  refuses: a sale of 2.01 at 2, DIVIDE, for 1.00, and likewise the second
  amount a transfer suggests, 5.01 for 10.03 (`MissesHalfCent`);
- every form: what was typed before the stored draft arrives is replaced by it
  (`VentaForm.tsx:249`), and the list of an account chosen earlier may arrive last (`:97`), so
  that a currency of another account can be chosen and is refused by the service;
- `RetiroCapitalForm.tsx:37`: the only capital form without the effect that aligns the format,
  so a valid form may send a pair the service refuses (excepted in `SentIsAccepted`);
- `ArbitrajeForm.tsx:121`: the currency of the profit is lost when a draft is resumed;
  `VentaForm.tsx:224`: removing the first line makes the typed second one automatic again;
- `TransferenciaForm.tsx:298-327`: with a fee account that lacks the currency of the first leg
  and a leg without a format, two effects undo each other for ever; and a percentage in a
  third currency chases the suggestion it is part of (`:480`) (the exceptions of
  `EffectsComeToRest`);
- `TransferenciaForm.tsx:430-434` against `transferencia_service.go:189-234`: between two currencies of
  which neither is the functional one the form asks for no quote and sends none, which the
  service refuses (excepted in `Fair`, and in no run of two currencies: the proof of
  `TransfersAreSentAsShown` needed the case, and a third currency shows it);
- `TransferenciaForm.tsx:320`: while the list of the fee's account is missing, the currency of
  a resumed fee is dropped and replaced by that of the first leg, which the comment at `:761`
  rules out ("no pisar borrador ni valor ya elegido"); `:354`: a second amount saved equal to
  the first is suggested anew; `:254`: a failed repetition empties a good list;
- `TransferenciaForm.tsx:484` against `transferencia_service.go:617`: the client takes a
  percentage of the outgoing leg first, the service of the incoming one, which differ when
  both are in the currency of the fee (excepted in `FeeShownIsBooked`);
- `PendientesPage.tsx:97`: two lists under way may arrive in either order, and the older one puts
  back an item that was paid, with its old amount (`doubt`); `:240`: a dialog may be closed while
  its request is under way and opened again, or confirmed again after a lost answer, which pays a
  partial amount twice (`sure`, `again`); `:241`: the late answer closes a dialog of the same kind that is
  open for another item, with what was typed in it;
- `PendientesPage.tsx:525`: for an item on an account that is no longer active the dialog proposes
  the first account, and offers any, while the service demands that of the line
  (`pending_service.go:71`), so the item can only be compensated or annulled; `:589`: any text is sent as
  the operation that compensates, and only the id of a movement can be stored (`pending_repo.go:150`); `:713`: an amount
  edited before the settings arrive and close the field can neither be sent nor edited.

### Mutants

Every property of a passing run has one *mutant*: a definition next to the one it changes, the way a
plausible defect would (a dropped guard, a forgotten call, a stale read), under which
TLC finds the property violated. The comment of each says what it changes.

## 4. Proofs

TLC checks small instances; the theorems below hold for every value of the constants. Each
property is one that a run checks, unless the table says otherwise. Two hypotheses
recur. `OneRequest` says that `Requests` has at most one element, the condition under
which the sequential runs check the same properties: with two requests TLC refutes them. `FiniteBook`
says that there are finitely many movements, as a sum over them requires.

### Pending items and movements

`PendingsProofs`, from `AmountBound`, `SettingIsBoolean`, `NullIsNoMovement`, `SomeClient` and
`FiniteBook`:

| Theorem | Statement | Argument |
|---|---|---|
| `TypeCorrect` | `Spec => []TypeOK` | inductive: `CanReduce` keeps both amounts in Nat |
| `DeferredNeverAheadOfCash` | `Spec => []CCWithinCash` | `CashInv`: a movement that does not exist has no cash and no entry, and the entries of a leg lie between zero and its net cash |
| `TablesAlwaysAgree` | `Spec => []TablesInv` | `TypeOK` and `TablesAgree`, that a line and its item agree on what is left and that a line that is real never becomes pending again |
| `BalancesAddUp` | `Spec => []BalanceIsSumOfEntries` | inductive with `TypeOK`: each action changes the entries of one movement and the balance of its client by the same amount (`SumTheorems`) |
| `InstalmentsAddUp` | `OneRequest` implies `Spec => []AmountConserved` | `SequentialInv` |
| `AnnulmentLeavesNothing` | `OneRequest` implies `Spec => []AnnulledNetsToZero` | `SequentialInv` |
| `ClosedItemMovesNoCash` | `OneRequest` implies `Spec => ClosedMovesNoCash` | from the invariants above |
| `ServicesImplementObligation` | `OneRequest` implies `Spec => ImplementsObligation` | one step of `PendingObligation`, or none, per action and leg; `Owed` and `Paid` are the refinement mapping |

`AmountConserved` is not inductive: a full execution
writes the amount it *read*. The missing part is `SnapshotIsCurrent`, that what a
request in flight has read still holds, which `OneRequest` makes inductive;
`SequentialInv` is its conjunction with the two properties, and rests on `TypeOK`,
`TablesAgree` and `CashInv`. The refinement needs one more fact, `OpenHasLine`: an open item of a
confirmed movement still has its pending line, so that what a compensation waives is really
owed. The first lemmas describe the effect of each action on
a leg once and for all (`PartialEffect`, `TotalEffect`, ...), the `...Frame` lemmas say that
a step on one leg leaves what is said of the others, and each `...Step` lemma has one
case per action.

`MovementsProofs`, from `SomeHeader`, `AmountsAreSigned` and `FiniteBook`:

| Theorem | Statement | Argument |
|---|---|---|
| `EntriesFollowStatus` | `Spec => []StatusInv` | inductive: every statement that changes a status looks at the status that stands, and an annulment posts the reversal of what is there |
| `StatusAdvances` | `Spec => StatusOnlyAdvances` | one case per action, from the same invariant; no run checks it, `ImplementsLifecycle` shows more of one request at a time |
| `CorrectionsSettle` | `Spec => []CorrectionsSettleOnce` | `CorrectionInv`, below |
| `PayloadAndLinesFollow` | `OneRequest` implies `Spec => []FollowsHeader` | `SequentialInv`, below |
| `WhatIsConfirmedStays` | `OneRequest` implies `Spec => ConfirmedIsKept` | from the same invariant |
| `ServicesImplementLifecycle` | `OneRequest` implies `Spec => ImplementsLifecycle` | one step of `MovementLifecycle` or none; executing a modification is one `Replace` |
| `BalancesAddUp` | `OneRequest` implies `Spec => []BalanceIsSumOfEntries` | a deleted movement had no entries, which needs `ReadIsCurrent` |

`CorrectionsSettleOnce` alone is not inductive: a request that is about to start a correction has
read its source before, and a row that does not exist must not be named by any correction.
`CorrectionInv` adds `StartsAdvance`, that the source such a request has read is no draft again and,
if it was annulled, is not confirmed again, and `NoneOutside`, that there is no correction of or by a movement that does not
exist. `SequentialInv` adds to `LinesMatchHeader` that what a request has read is current
(`ReadIsCurrent`) and that a payload keeps belonging to the header also after the
confirmation (`PayloadMatches`), because corrections copy it.

### Sums

The balances and stocks are sums, which the community modules define as folds. The library's
induction over finite sets takes the predicate as an operator and cannot be used, so
`SumTheorems` argues by a minimal counterexample instead: a set of subsets on which a fact fails
has a minimal member, which is not empty and whose proper subsets are good. It shows
that the sum of the community modules satisfies its recursion (`SumIsRecursion`), that any element may be
taken out first (`SumTakesAny`), and what changing one term does (`SumUpdate`).

### Current accounts

The first part of `BookProofs`, from the assumptions of `CCLedger` alone, with transactions interleaved
statement by statement:

| Theorem | Statement |
|---|---|
| `AccountsAddUp` | `Spec => []LedgerInv` |
| `PaymentsTakeWhatStands` | `Spec => PaymentsRespectSettings` |
| `TransfersAreWhole` | `Spec => TransfersMoveDebtWhole` |

The three come from one invariant, `BooksInv`. What it adds to `LedgerInv` is what each transaction
half way has done: it has one write for each account it touched and holds the row of each
(`WritesAreHeld`), what it will write is the committed balance plus what it posted (`WritesAddUp`), what a payment or
an adjustment read is still the committed balance (`PaymentReadsWell`, `AdjustmentReadsWell`), and a
transfer has posted nothing, one side or both (`TransferStage`). Without the held rows none of it
survives the commit of another request: this is where FOR UPDATE and the lock of an upsert
are used.

### Exchange inventory

The second part of `BookProofs`, from the assumptions of `FxInventory` alone unless the table says more:

| Theorem | Statement |
|---|---|
| `StockAddsUp` | `FxSpec => []StockIsSumOfStanding` |
| `CostIsKept` | `FxSpec => [](FxTypeOK /\ EmptyHasNoCost /\ CostIsNotInvented /\ UndoRestores)` |
| `CostAddsUp` | `Fees = {}` implies `FxSpec => []CostIsAccounted` |
| `AverageIsKept` | `FxSpec => SaleKeepsAverage` |
| `FeelessTransfersBookTheirLegs` | `Fees = {}` implies `FxSpec => []TransfersBookTheirLegs` |

`StockInv` is inductive: the stock and the bound on the cost follow from the rows that stand (`Kept`),
and a row stands exactly while its movement is confirmed (`RowsFollowStatus`), whatever two annulments had
read. The rounding lemmas (`RoundedIs`, `RoundedParts`) say that a rounded quotient is off by half a
divisor and that the cost taken out and the cost left add up; everything about cost rests on them. `CostAddsUp` needs
that no line is a fee, because a fee listed first is booked in place of a leg: the finding. The
instance of the run `FxInventory` has no fees either, and `FeelessTransfersBookTheirLegs` says that
a fee is what the finding takes.

### Access and permissions

| Theorem | Statement | From |
|---|---|---|
| `EntriesAreForgotten` | `LimiterSpec => []LimiterInv` of `RateLimiter` | `LimitIsPositive`, `WindowFitsPeriod`, `TimeIsNatural`, `NoEntryIsNone` |
| `LimiterKeepsPromise` | `LimiterSpec => ImplementsLoginWindow` | the same |
| `PinsAreInOrder` | `Spec => []AccessInv` of `Access` | `ParametersFit`: attempts and time of a lock are positive, the limits that are numbers are |
| `LocksAreEarned` | `Spec => []LockFollowsAttempts` | the same |
| `ReadersAgree` | `Rights!Spec => []PermissionsInv` of `AccessControl` | `CatalogIsFit`: the program's keys are among the keys there may be |

All are in `AccessAndFormsProofs`. `EntriesAreForgotten` is about no run's property; its `TimelyInv` adds
`Timely`, that no entry is of the future, that a window starts before its last request and that the clean-up is not late. In
the refinement each way through `allow` is a step of `LoginWindow` or, for `AllowExpired`, the opening of a window that had
closed; time closes windows; the clean-up is a stutter, because an entry it drops was last seen before a window that has
ended. `WindowFitsPeriod`, that a window is no longer than the period of the clean-up, holds in the code
(one minute, five minutes) and is what that argument needs.

`Access` is inductive only with what its requests know: as long as nothing has overlapped
there is one request (`OneAtATime`), what it has read still stands (`StillStands`), and a lock that is missing is the one it is
about to write (`LockDue`). A user created or a tick of the clock meanwhile touches none of it. In `Permissions` the agreement
follows from the types, foreign keys included, by cases over what the tables hold and which query fails; only
the types are an induction. That two limits admit a PIN is more than that they do not cross: one that is
not whole is read as the default, which lies outside it on the right side.

### Session

`ClientProofs`, from `GrantsAreOfScreens`, `LoginsAreBounded` and `RedirectsHavePaths`:

| Theorem | Statement |
|---|---|
| `TabsAreInTheirSession` | `Spec => []SessionIsOwn` |
| `SessionsEndForAReason` | `Spec => SessionEndsOnItsOwn` |

`SessionInv` says of each tab (`OwnTab`) that, unless it entered over an older request, its refresh carries its
own token, and a page's request carries it too or was sent when `localStorage` held another, which it never gives back: a
later login has a larger number. That the menu leads to pages (`MenuAlwaysAgrees`) is a fact about the three tables,
whatever the server grants.

### Wizard

`ClientProofs`, for any drafts, types, clients and acts, from `FirstAssumption`, that the headers at first are headers, and `WizardAssumption`: movements are
positive numbers (0 says that none is held), the type with two clients is one whose header needs no
client, `""` and `"none"` are no type, there is a client, and there is a type besides `TwoClients`.
The code has ten types in a fixed list (`MOVEMENT_TYPES`), of which one is `ARBITRAJE`; the other parts
are what the encodings of an empty field need.

| Theorem | Statement |
|---|---|
| `ShownIsStoredAlways` | `WizardSpec => []ShownIsStored` |
| `DraftInHandAlways` | `WizardSpec => []DraftInHand` |
| `EditsKeepPayloadAlways` | `WizardSpec => EditsKeepPayload` |

The invariant has two parts. `KindsInv` holds whatever the user does: what each record and request
under way may contain, that every draft they name has been created (`Known`), that at most one PATCH is
the latest, that a page which was left waits for nothing, and that timers run for what they would
send. It gives the types and, with the answer `PatchHeader` gives to a draft with a payload,
`EditsKeepPayloadAlways`.

The rest (`Sure`) holds while `unsure` is false. A creation, a PATCH and a read of the header then
exclude each other (`CreateAlone`, `PatchAlone`, `DetailAlone`), so that an answer finds the form
as it was sent. The draft held is open, or the answer that resets the wizard is on its way
(`Life`, `ResetPending`), and nothing abandoned will end it: a stray request of a page that was left may
delete or execute a draft, so the pointer and the lists are trusted only if none is about. What
`lastSyncedHeaderRef` says is what the server has, but between the service and the answer of a
PATCH (`HeaderLife`); a form that differs from it has its timer armed, unless an error or the
dialog is shown (`TimerLife`). None of them is inductive alone: `HeaderLife` needs that the one PATCH is
about the draft held, `PatchAlone` that the timers belong to it, `Life` that a discard
remembers which draft was open when it was asked for. A request that was carried out and answered
with an error makes `unsure` true, so that part has nothing to say of it; a late handler finds, while `unsure` is
false, that what it was told about is no draft any more.

### Pending page

`PendingPageProofs`, for any items, accounts, requests and lists under way. The hypotheses are
`FormLegsAssumption` (an account offers formats of currencies, an amount is positive) and
`PendingPageAssumption`: some account is active, and each room for an opening has a movement of
its own, as `OpeningPendingService.Create` makes one.

| Theorem | Statement |
|---|---|
| `PageStaysInOrder` | `Spec => []PageInv` |
| `DialogsPayWhatTheyShow` | `Spec => []PaysWhatItShows` |
| `SentIsAccepted` | `Spec => []ConfirmedIsAccepted`, about what is not `RefusedForStock` and, of a compensation, names a movement |

None of the three is inductive; `IInv` is. A list is shown whatever was asked for since, so that
the one on the screen at rest is current rests on which lists are late: those asked for before
one that arrived, and all of them when the answer of something done is lost. The late ones come
first, hence the newest list is late only if all are, and one that is not late and was read
with nothing done and unanswered shows the items as they are (`QueueInv`). A dialog that is sending owns one
request, sent with the item it was opened with (`OwnersInv`), and of one opened at rest that
request is the only one there is, so that nothing this page does lies between what it shows and
what the service finds (`SureInv`). Through any inputs and answers a dialog keeps what its own
checks do not ask for: the account it proposed, unless the user chose another, and a format that the
account takes (`Fits`). What an annulment leaves is closed because an item that has no
row yet is the only one of its movement (`RowsInv`).

### Operation forms

`AccessAndFormsProofs` and, from the transfer form on, `TransferFormProofs`, for any accounts, currencies, formats, amounts, rates, clients, drafts, number of lines
and number of passes, and whichever quotients fall short of half a cent in doubles. The hypotheses are those of the
modules: `FormLegsAssumption`, `QuoteAmountsAssumption` (a rate has a unit), `QuoteFormsAssumption` (rates are
positive, there is room for a line), `SimpleFormsAssumption` (`Debtor` is a client), `OperationFormsAssumption` (the
kinds are the nine, a stored draft is a form of its kind whose ticked legs are cash) and `FormsAssumption`, the same
for the transfer (`ConstantsAreFit`).

| Theorem | Statement |
|---|---|
| `OnlyHalfCentsAreMissed` | client and service round alike, or the exact value is half a cent and the client is one cent below |
| `SentFormsAreAccepted` | `FormsSpec => []FormsSendWhatIsAccepted` |
| `TransfersAreSentAsShown` | `FormsSpec => []TransferIsSentAsShown` |
| `TypedAmountsStayInAllForms` | `FormsSpec => AmountsStay` |
| `NineScreensAreConsistent` | `FormsSpec => [](~IsTransfer => ScreenIsConsistent)` |
| `TransferKeepsItsTypes` | `FormsSpec => [](IsTransfer => Transfer!TypeOK)` |
| `ScreensComeToRest` | `ASSUME Passes >= 6 PROVE FormsSpec => []ScreensAreConsistent` |
| `DraftsReturn` | `FormsSpec => []DraftsComeBack` |

`ScreensComeToRest` is the two before it and `EffectsComeToRest`. It is the only one that asks for enough passes: with
fewer the model would stop while the code's effects still run, and the runs take the six it asks for.

*The nine forms.* A valid form at rest has a format that its list allows only because of what every render did
before, so `FormsInv` says of the form shown that it is one of its type with differing keys (`Consistent`) and that each
leg has a format of the list it shows (`FormFits`), and of every draft that it is a form of its type. What an input or an
answer makes of a form need not fit; one render makes it fit again (`FormsReached`, `FormsRendered`). Each form gets
three lemmas, about what it is, what its inputs lead to and what it renders; the steps of `OperationForms` are proved once,
over `GoodForm(kind)`. What the service checks then follows leg by leg (`LegsAreTaken`) and, for a purchase or a sale whose amounts miss no half
cent, from equal amounts on both sides (`ClientAndServiceSquare`, `QuoteIsAccepted`).

*The transfer form.* An input may leave an included fee ticked, until the first pass (`TransferForms`, `Settled`). A pass
keeps the types, the first amount, and both legs once the second amount is typed (`PassSettles`), so any number of passes does
(`RenderedSettles`); the passes are a recursive function, and the library's induction cannot be used, so the
argument is again a least counterexample, after the function has been shown to exist for every length (`PassesExist`). That
is all `TransferInv` needs of what the passes compute. What is sent is fair only when a pass changes nothing
any more, and then the form shows what every effect would write (`AtRestFollows`): the second amount is the equivalent the client
computes, in either direction, which is the one of `CuadreOk` unless a half cent was missed, and the fee is in the account and format of a leg, or in one its select offers
(`TransferIsTaken`). The announced percentage is rounded to the cent, the booked one is not, so they differ by half a cent
at most, a missed one included (`PercentIsBooked`). The attempt showed that `Fair` was too generous: between two currencies that are not
functional nothing squares, and the instance, with two currencies, could not tell.

*Coming to rest.* Six passes are enough because what a pass changes depends on less each time. The lists are there, the first
leg has its format (else an exception applies), so of the fee's place only the currency can move by itself. Without one it
takes that of the first leg; that is dropped at most once more, when the fee's account does not take it; and once the fee is at
home in the account of a leg, its account and format follow and it rests (`FeeComesNearer`). A fee that asks for
nothing rests at once. So by the fifth pass the fee is settled. The second amount depends on the legs, the quote and the
fee and on nothing that depends on it but a percentage in the currency of a leg, which the suggestion does not take
back (`SuggestionStays`), so the sixth pass writes it for good and a seventh changes nothing. `RestInv` says that the
form is at rest, or has a reason not to be that the property names (`Restless`).

*Drafts.* A draft says whether it was saved while the form was at rest, and `DraftsReturn` is about those. Two invariants carry
it, one for the nine forms (`ReturnInv`) and one for the transfer (`BackInv`); each says of every draft
under way, in the request that saves it, in the service or loaded, that one saved at rest is settled: no list, key or
timer is pending and its formats are ones its accounts have (`SavedAtRest`), or the fee of its outgoing leg goes through
the account of that leg (`FeeIsAtHome`). And they say of a form nobody touched since it
loaded one that it still shows what the draft has, but for what effects may yet bring (`IsBack`, `BackFrom`): a
list that arrives allows the format that is there, a render aligns a format with itself, a single automatic line
follows a quote that nobody changed, and no pass takes the amounts of a transfer once both are the
user's. At rest nothing is left to bring, and the form is the draft. Stored drafts may be anything of their type; one
that is not settled counts as saved before rest. The attempt found a case the property had promised
and the code does not keep: a fee in the currency of an outgoing leg that has no format yet has a format
of its own, because the effect that follows a leg waits for the leg's format (`TransferenciaForm.tsx:300`); while
the lists are on their way back the other effect drops the fee's currency and format (`:320`), and the format that
returns is the first of the list. `DraftsComeBack` now leaves that draft out (`FeeOfOut`), and the run has one of the kind.

### Only model-checked

Liveness (`RequestsEnd`, `LocksEnd`, `RouterSettles`, `WizardSettles`) and ENABLED
are out of the prover's reach and stay with TLC, and so are `ImplementsObligation`, `AmountConserved` and the like for
overlapping requests, where they do not hold.

## 5. Not modelled, and why

- Profit entries follow the lines and are reversed with them; the reconstruction of a
  payload from lines is long and sequential.
- Reports and cash positions are aggregations without state of their own.
- Handlers, configuration, audit records, formatting: no state the properties tell apart.
- The cash line of a crossed payment, and the creation of a client with an opening
  balance, which no other request can see before it commits.
- Master data: rows without a history. Opening cash: one insert without a draft.
- Secrets and their hashes: a password is right or wrong. The extraction of an address from
  the headers of a proxy. A restart of the service, which forgets the entries of the limiter.
- The pages of the client that read and show (`PosicionIntegralPage`, the lists, the
  reports), those of administration, which send one request each, and the broadcast of draft changes between tabs, which only repeats a read.
- The older shapes of a transfer and of its drafts; the date of a header; free text.
- The forms are checked one at a time: the wizard models a form by whether its payload
  is stored, the forms model the wizard by being mounted again (`Reopen`).
- Isolation is READ COMMITTED, the default the code never changes. Except in
  `CCLedger`, the statements of one transaction after its first write are one step: what
  they read is either locked by the transaction, or named above as read early.

## 6. Plan

| # | Module | Content | State |
|---|---|---|---|
| 1 | `Pendings`, `PendingObligation`, `PendingsProofs` | life of a pending item | modelled, checked, proved |
| 2 | `Movements`, `MovementLifecycle`, `MovementsProofs` | life of a movement | modelled, checked, proved |
| 3 | `FxInventory`, `BookProofs`, `SumTheorems` | position, ledger, rounding | modelled, checked, proved |
| 4 | `CCLedger`, `BookProofs` | manual adjustment, crossed payment, debt transfer: first-insert race, lock order, stale debt | modelled, checked, proved |
| 5 | `Session`, `ClientProofs` | login, tabs, permissions, routes, menu | modelled, checked, safety proved |
| 6 | `Wizard`, `ClientProofs` | the wizard's header, drafts and pointer against the service | modelled, checked, safety proved |
| 7 | `FormLegs`, `QuoteAmounts`, `QuoteForms`, `SimpleForms`, `ArbitrageForm`, `OperationForms`, `AccessAndFormsProofs` | nine forms and what the services accept | modelled, checked, proved |
| 8 | `TransferForm`, `Forms`, `TransferFormProofs` | effects, suggestion, fee, quote; the ten forms together | modelled, checked, proved |
| 9 | `RateLimiter`, `LoginWindow`, `AccessAndFormsProofs` | limit on logins, its promise | modelled, checked, proved |
| 10 | `Access`, `Permissions`, `AccessControl`, `AccessAndFormsProofs` | users, lock-out, settings; permissions and their readers | modelled, checked, safety proved |
| 11 | `PendingPage`, `PendingPageProofs` | the pending page and its dialogs against the service | modelled, checked, proved |
| 12 | a composition of `Movements`, `Pendings` and `FxInventory` | an annulment over all three, abstract house book | planned |

The modules to be proved about declare no RECURSIVE operator.
