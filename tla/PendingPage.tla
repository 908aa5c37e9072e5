---------------------------- MODULE PendingPage ----------------------------
(***************************************************************************)
(* The pending page of the web client (PendientesPage.tsx) against the     *)
(* service: the list of open items, and the three dialogs that resolve an  *)
(* item, annul its operation, or register one from before the system.      *)
(*                                                                         *)
(* One dialog is open at a time, since it covers the page; it shows the    *)
(* item as it was in the list.  It may be closed while its request is      *)
(* under way: the answer then still reaches the page.  After a good        *)
(* answer the page asks for the list again, whatever it asked for before;  *)
(* a list that arrives is shown.  The service reads and writes in one step *)
(* (Pendings takes it apart), and other users work on the same items.      *)
(*                                                                         *)
(* Left out: the order of the rows, the skeleton, the error banner, the    *)
(* date and the notes.                                                     *)
(***************************************************************************)
EXTENDS FormLegs, FiniteSets

CONSTANTS Items,
          Start,        \* the items at the start
          Movement,     \* the movement of each item
          Active,       \* the active accounts
          MaxRequests,  \* bound on the requests of dialogs under way
          MaxLists,     \* bound on the lists under way
          MaxActs       \* bound on what users do and on the answers that fail

Rows == [status : {"NO_ROW", "ABIERTO", "RESUELTO", "CANCELADO"}, amount : Nat \ {0},
         cc : BOOLEAN, account : Maybe(Accounts), currency : Maybe(Currencies)]

\* An item from before the system comes with a movement of its own.
ASSUME PendingPageAssumption ==
    /\ Start \in [Items -> Rows] /\ DOMAIN Movement = Items
    /\ \A i, j \in Items : Start[i].status = "NO_ROW" /\ Movement[i] = Movement[j] => i = j
    /\ Active \subseteq Accounts /\ Active # {}
    /\ {MaxRequests, MaxLists} \subseteq Nat \ {0} /\ MaxActs \in Nat

VARIABLES item,      \* pending_items, each with its line and what its client may do
          annulled,  \* movements annulled
          partial,   \* pending_allow_partial_resolution
          list,      \* the items shown, as they were read
          fetches,   \* the lists under way, in the order they were asked for
          dialog,    \* the dialog open, or NoDialog
          request,   \* what dialogs sent and is not answered
          doubt,     \* history: the list shown may lack what this page did
          others,    \* history: the items other users changed
          acts       \* what users did and the answers that failed so far

vars == <<item, annulled, partial, list, fetches, dialog, request, doubt, others, acts>>

Slots == 1..MaxRequests
NoDialog == [kind |-> "none"]
NoRequest == [state |-> "none", owner |-> "none"]
Unread == [read |-> FALSE, late |-> FALSE]

Open == {i \in Items : item[i].status = "ABIERTO"}
AtRest == fetches = <<>> /\ \A s \in Slots : request[s] = NoRequest

----------------------------------------------------------------------------
(* The dialogs                                                             *)

\* sure: nothing was under way when the dialog opened, and the list was current.
\* again: an answer to this dialog got lost.  chosen: the user chose the account.
ResolveDialog(i, mode) ==
    [kind |-> "resolve", item |-> i, shown |-> list[i], sending |-> FALSE,
     mode |-> mode, amount |-> list[i].amount, account |-> "", format |-> "CASH", ref |-> "",
     accounts |-> "asked", settings |-> "asked", partial |-> TRUE,
     sure |-> AtRest /\ ~doubt, again |-> FALSE, chosen |-> FALSE]

CancelDialog(i) ==
    [kind |-> "cancel", item |-> i, shown |-> list[i], sending |-> FALSE,
     sure |-> AtRest /\ ~doubt, again |-> FALSE]

\* The operation that compensates is typed: the id of a movement, or something else.
References == {"", "MOVEMENT", "NO_MOVEMENT"}

OpeningDialog ==
    [kind |-> "opening", leg |-> EmptyLeg, client |-> FALSE, sending |-> FALSE,
     accounts |-> "asked", clients |-> "asked", again |-> FALSE]

\* Mutant of Preferred: the first account of the list.
PreferredFirst(d) == Active

\* The account of the line if it is active, else the first of the list.
Preferred(d) == IF d.shown.account \in Active THEN {d.shown.account} ELSE Active

\* A compensation and a system without partial payments close the amount.
AmountOpen(d) == d.mode = "REAL_EXECUTION" /\ d.partial

ResolveInputs(d) ==
    {[d EXCEPT !.mode = m] :
        m \in ({"REAL_EXECUTION"} \cup (IF d.shown.cc THEN {"COMPENSATED"} ELSE {})) \ {d.mode}}
      \cup (IF AmountOpen(d) THEN {[d EXCEPT !.amount = x] : x \in Typed \ {d.amount}} ELSE {})
      \cup (IF d.mode = "COMPENSATED" THEN {[d EXCEPT !.ref = r] : r \in References \ {d.ref}}
            ELSE {[d EXCEPT !.format = f] : f \in Formats \ {d.format}}
                   \cup {[d EXCEPT !.account = a, !.chosen = TRUE] :
                            a \in IF d.accounts = "here" THEN Active \ {d.account} ELSE {}})

OpeningInputs(d) ==
    LET legs == CurrenciesFor(d.leg, Shown(d.leg.list)) \cup FormatsFor(d.leg, d.leg.currency)
                  \cup AmountsFor(d.leg)
                  \cup (IF d.accounts = "here" THEN AccountsFor(d.leg, Active) ELSE {})
    IN {[d EXCEPT !.leg = Aligned(ListAsked(d.leg, leg))] : leg \in legs}
         \cup (IF d.clients = "here" THEN {[d EXCEPT !.client = ~@]} ELSE {})

Inputs(d) ==
    CASE d.kind = "resolve" -> ResolveInputs(d)
      [] d.kind = "opening" -> OpeningInputs(d)
      [] OTHER -> {}

ResolveSubmits(d) ==
    /\ d.amount \in 1..d.shown.amount
    /\ d.mode = "REAL_EXECUTION" => (d.partial \/ d.amount = d.shown.amount) /\ d.account # ""
    /\ d.mode = "COMPENSATED" => d.shown.cc /\ d.amount = d.shown.amount /\ d.ref # ""

OpeningSubmits(d) ==
    d.client /\ d.leg.account # "" /\ d.leg.currency # "" /\ d.leg.amount > 0

Submits(d) ==
    CASE d.kind = "resolve" -> ResolveSubmits(d)
      [] d.kind = "opening" -> OpeningSubmits(d)
      [] d.kind = "cancel" -> TRUE

\* Mutant of MaySend: the button stays enabled while a request is under way.
MaySendTwice(d) == TRUE

MaySend(d) == ~d.sending

----------------------------------------------------------------------------
(* The service                                                             *)

\* Resolve, with its checks of mode, amount, setting and line, and the foreign key
\* of resolved_by_movement_id.
ResolveAccepts(d) ==
    LET p == item[d.item]
    IN /\ p.status = "ABIERTO" /\ d.amount \in 1..p.amount
       /\ d.amount < p.amount => partial
       /\ d.mode = "REAL_EXECUTION" =>
             d.account = p.account /\ d.account \in Active /\ PairTakes(d.account, p.currency, d.format)
       /\ d.mode = "COMPENSATED" => p.cc /\ d.amount = p.amount /\ d.ref = "MOVEMENT"

OpeningAccepts(d) ==
    /\ d.client /\ d.leg.amount > 0
    /\ d.leg.account \in Active /\ PairTakes(d.leg.account, d.leg.currency, d.leg.format)

Accepts(d) ==
    CASE d.kind = "resolve" -> ResolveAccepts(d)
      [] d.kind = "opening" -> OpeningAccepts(d)
      [] d.kind = "cancel" -> Movement[d.item] \notin annulled

\* An annulment is refused too when the stock or the cost is not there to take back
\* (cancelMovementWithinTx, FxInventory), which no item tells.
RefusedForStock(d) == d.kind = "cancel"

Resolved(p, d) ==
    IF d.amount < p.amount THEN [p EXCEPT !.amount = @ - d.amount]
    ELSE [p EXCEPT !.status = "RESUELTO"]

\* An annulment closes every item of the movement.
Annulment(i) ==
    /\ annulled' = annulled \cup {Movement[i]}
    /\ item' = [j \in Items |-> IF item[j].status # "NO_ROW" /\ Movement[j] = Movement[i]
                                THEN [item[j] EXCEPT !.status = "CANCELADO"] ELSE item[j]]

Registered(d) ==
    \E i \in Items, cc \in BOOLEAN :
        /\ item[i].status = "NO_ROW"
        /\ item' = [item EXCEPT ![i] = [status |-> "ABIERTO", amount |-> d.leg.amount, cc |-> cc,
                                        account |-> d.leg.account, currency |-> d.leg.currency]]

CarriedOut(d) ==
    \/ d.kind = "resolve" /\ item' = [item EXCEPT ![d.item] = Resolved(@, d)] /\ UNCHANGED annulled
    \/ d.kind = "opening" /\ Registered(d) /\ UNCHANGED annulled
    \/ d.kind = "cancel" /\ Annulment(d.item)

----------------------------------------------------------------------------
(* The list                                                                *)

\* Mutant of AskedAgain: one list at a time.
AskedUnlessLoading(q) == IF q = <<>> THEN <<Unread>> ELSE q

\* fetchItems.
AskedAgain(q) == Append(q, Unread)

\* What this page did is missing from the lists under way.
Late(q) == [k \in DOMAIN q |-> [q[k] EXCEPT !.late = TRUE]]

Without(q, k) == Late(SubSeq(q, 1, k - 1)) \o SubSeq(q, k + 1, Len(q))

----------------------------------------------------------------------------
(* State                                                                   *)

TypeOK ==
    /\ item \in [Items -> Rows]
    /\ \A i \in Open : Movement[i] \notin annulled
    /\ DOMAIN list \subseteq Items /\ Len(fetches) <= MaxLists
    /\ dialog.kind \in {"none", "resolve", "opening", "cancel"}
    /\ \A s \in Slots : request[s].owner = "dialog" => dialog.kind = request[s].body.kind
    /\ acts \in 0..MaxActs

Init ==
    /\ item = Start /\ annulled = {} /\ partial \in BOOLEAN
    /\ list = <<>> /\ fetches = <<Unread>> /\ dialog = NoDialog
    /\ request = [s \in Slots |-> NoRequest]
    /\ doubt = FALSE /\ others = {} /\ acts = 0

Act == acts < MaxActs /\ acts' = acts + 1

service == <<item, annulled, partial, others>>
page == <<list, fetches, dialog, request, doubt>>

----------------------------------------------------------------------------
(* The page                                                                *)

\* The buttons of the list and of a row.
OpenDialog ==
    /\ Act /\ dialog = NoDialog
    /\ \/ dialog' = OpeningDialog
       \/ \E i \in DOMAIN list :
             \/ dialog' = ResolveDialog(i, "REAL_EXECUTION")
             \/ list[i].cc /\ dialog' = ResolveDialog(i, "COMPENSATED")
             \/ dialog' = CancelDialog(i)
    /\ UNCHANGED <<service, list, fetches, request, doubt>>

Edit ==
    /\ Act /\ dialog # NoDialog
    /\ dialog' \in Inputs(dialog)
    /\ UNCHANGED <<service, list, fetches, request, doubt>>

\* Escape or the button, at any time: the request under way goes on.
Left(owner) ==
    [s \in Slots |-> IF request[s].owner = "dialog" THEN [request[s] EXCEPT !.owner = owner]
                     ELSE request[s]]

Close ==
    /\ Act /\ dialog # NoDialog
    /\ dialog' = NoDialog /\ request' = Left("page")
    /\ UNCHANGED <<service, list, fetches, doubt>>

\* Confirmar.  The items that may be registered are bounded.
Submit ==
    /\ Act /\ dialog # NoDialog /\ MaySend(dialog) /\ Submits(dialog)
    /\ dialog.kind = "opening" =>
          Cardinality({s \in Slots : request[s] # NoRequest /\ request[s].body.kind = "opening"})
            < Cardinality({i \in Items : item[i].status = "NO_ROW"})
    /\ \E s \in Slots :
          /\ request[s] = NoRequest
          /\ request' = [request EXCEPT ![s] = [state |-> "sent", owner |-> "dialog", body |-> dialog]]
    /\ dialog' = [dialog EXCEPT !.sending = TRUE]
    /\ UNCHANGED <<service, list, fetches, doubt>>

\* The page is left and comes back: no earlier answer reaches it.
Return ==
    /\ Act
    /\ list' = <<>> /\ fetches' = <<Unread>> /\ dialog' = NoDialog /\ doubt' = FALSE
    /\ request' = [s \in Slots |-> IF request[s] = NoRequest THEN NoRequest
                                   ELSE [request[s] EXCEPT !.owner = "nobody"]]
    /\ UNCHANGED service

----------------------------------------------------------------------------
(* Answers                                                                 *)

Outcome(ok) == IF ok THEN acts' = acts ELSE Act

\* The service carries a request out, or refuses it.
Serve(s) ==
    /\ request[s].state = "sent"
    /\ \/ /\ Accepts(request[s].body) /\ CarriedOut(request[s].body)
          /\ request' = [request EXCEPT ![s].state = "done"]
       \/ /\ ~Accepts(request[s].body) \/ RefusedForStock(request[s].body)
          /\ UNCHANGED <<item, annulled>>
          /\ request' = [request EXCEPT ![s].state = "refused"]
    /\ UNCHANGED <<partial, others, list, fetches, dialog, doubt, acts>>

\* onDone: the dialog of that kind closes, be it the one that sent the request or
\* a later one; the list is asked for again.
AnswerDone(s) ==
    /\ request[s].state = "done" /\ request[s].owner # "nobody"
    /\ Len(fetches) < MaxLists /\ fetches' = AskedAgain(fetches)
    /\ IF dialog.kind = request[s].body.kind
       THEN dialog' = NoDialog /\ request' = [Left("page") EXCEPT ![s] = NoRequest]
       ELSE UNCHANGED dialog /\ request' = [request EXCEPT ![s] = NoRequest]
    /\ UNCHANGED <<service, list, doubt, acts>>

\* An error, a lost answer, or one for a page that was left.  A request that lost its
\* connection may still be carried out, and nobody hears of it.
AnswerError(s) ==
    /\ request[s] # NoRequest
    /\ Outcome(request[s].state = "refused" \/ request[s].owner = "nobody")
    /\ \/ request' = [request EXCEPT ![s] = NoRequest]
       \/ /\ request[s].state = "sent" /\ request[s].owner # "nobody"
          /\ request' = [request EXCEPT ![s].owner = "nobody"]
    /\ dialog' = IF request[s].owner # "dialog" THEN dialog
                 ELSE [dialog EXCEPT !.sending = FALSE, !.again = @ \/ request[s].state # "refused"]
    /\ IF request[s].state = "done" THEN doubt' = TRUE /\ fetches' = Late(fetches)
       ELSE UNCHANGED <<doubt, fetches>>
    /\ UNCHANGED <<service, list>>

\* The service reads the open items.
ReadList(k) ==
    /\ ~fetches[k].read
    /\ fetches' = [fetches EXCEPT ![k] = [read |-> TRUE, late |-> @.late,
                                          items |-> [i \in Open |-> item[i]]]]
    /\ UNCHANGED <<service, list, dialog, request, doubt, acts>>

\* A list arrives and is shown, whatever was asked for since; or it fails.
AnswerList(k, ok) ==
    /\ ok => fetches[k].read
    /\ Outcome(ok)
    /\ fetches' = Without(fetches, k)
    /\ IF ok THEN list' = fetches[k].items /\ doubt' = fetches[k].late
       ELSE UNCHANGED list /\ doubt' = (doubt \/ ~fetches[k].late)
    /\ UNCHANGED <<service, dialog, request>>

\* What a dialog asks for when it opens, and the currencies of an account.
AnswerAccounts(ok) ==
    /\ dialog.kind \in {"resolve", "opening"} /\ dialog.accounts = "asked"
    /\ IF ok /\ dialog.kind = "resolve"
       THEN \E a \in Preferred(dialog) :
               dialog' = [dialog EXCEPT !.accounts = "here", !.account = a]
       ELSE dialog' = [dialog EXCEPT !.accounts = IF ok THEN "here" ELSE "failed"]

AnswerSettings(ok) ==
    /\ dialog.kind = "resolve" /\ dialog.settings = "asked"
    /\ dialog' = IF ok THEN [dialog EXCEPT !.settings = "here", !.partial = partial]
                 ELSE [dialog EXCEPT !.settings = "failed"]

AnswerClients(ok) ==
    /\ dialog.kind = "opening" /\ dialog.clients = "asked"
    /\ dialog' = [dialog EXCEPT !.clients = IF ok THEN "here" ELSE "failed"]

AnswerCurrencies(a, ok) ==
    /\ dialog.kind = "opening" /\ a \in dialog.leg.asked
    /\ dialog' = [dialog EXCEPT !.leg = Aligned(ListAnswered(@, a, ok))]

AnswerDialog ==
    /\ \E ok \in BOOLEAN :
          /\ Outcome(ok)
          /\ \/ AnswerAccounts(ok) \/ AnswerSettings(ok) \/ AnswerClients(ok)
             \/ \E a \in Accounts : AnswerCurrencies(a, ok)
    /\ UNCHANGED <<service, list, fetches, request, doubt>>

\* Another user: an item resolved or paid in part, a client's current account
\* switched, the setting changed.
Changed(p) ==
    {[p EXCEPT !.status = "RESUELTO"], [p EXCEPT !.cc = ~@]}
      \cup {[p EXCEPT !.amount = x] : x \in 1..(p.amount - 1)}

Elsewhere ==
    /\ Act
    /\ \/ \E i \in Open : \E p \in Changed(item[i]) :
             item' = [item EXCEPT ![i] = p] /\ others' = others \cup {i} /\ UNCHANGED partial
       \/ partial' = ~partial /\ UNCHANGED <<item, others>>
    /\ UNCHANGED <<annulled, page>>

Next ==
    \/ OpenDialog \/ Edit \/ Close \/ Submit \/ Return \/ Elsewhere \/ AnswerDialog
    \/ \E s \in Slots : Serve(s) \/ AnswerDone(s) \/ AnswerError(s)
    \/ \E k \in DOMAIN fetches : ReadList(k) \/ \E ok \in BOOLEAN : AnswerList(k, ok)

Spec == Init /\ [][Next]_vars

----------------------------------------------------------------------------
(* Properties                                                              *)

\* With nothing under way the list shows what this page did: an item it closed is
\* gone, one it paid in part shows what is left, one it registered is there.
\* Not so after a lost answer, or a list that failed or came after a later one.
ListIsCurrent ==
    AtRest /\ ~doubt =>
        \A i \in Items \ others :
            /\ i \in DOMAIN list <=> i \in Open
            /\ i \in Open => list[i] = item[i]

\* Types, and the list on a page at rest.
PageInv == TypeOK /\ ListIsCurrent

\* A dialog opened on a page at rest pays, compensates or annuls the item as it
\* shows it: it never works twice on it, unless an answer got lost.
PaysWhatItShows ==
    \A s \in Slots :
        LET d == request[s].body
        IN request[s].state = "sent" /\ request[s].owner = "dialog" /\ d.kind # "opening"
             /\ d.sure /\ ~d.again /\ d.item \notin others => item[d.item] = d.shown

\* What a request needs that no check of a dialog is about: the item is still as
\* shown, the setting as it was read, its account active and taking the format, what
\* was typed as a reference is the id of a movement; an opening was sent with its
\* lists there.
Fair(d) ==
    CASE d.kind = "resolve" ->
           /\ item[d.item] = d.shown /\ ~d.chosen
           /\ d.amount < d.shown.amount => d.partial = partial
           /\ d.mode = "REAL_EXECUTION" =>
                 d.shown.account \in Active /\ PairTakes(d.shown.account, d.shown.currency, d.format)
           /\ d.mode = "COMPENSATED" => d.ref # "NO_MOVEMENT"
      [] d.kind = "opening" ->
           d.leg.asked = {} /\ d.leg.list = d.leg.account /\ d.leg.currency \in Shown(d.leg.list)
      [] d.kind = "cancel" -> item[d.item].status = "ABIERTO"

\* What a dialog sends the service accepts: the account it proposes is the one the
\* service demands, and its checks imply those of the service, but for what Fair
\* names and for an annulment refused by the inventory.
ConfirmedIsAccepted ==
    \A s \in Slots : request[s].state = "sent" /\ Fair(request[s].body) => Accepts(request[s].body)
=============================================================================
