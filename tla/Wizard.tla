------------------------------- MODULE Wizard -------------------------------
(***************************************************************************)
(* The wizard of a new operation: pages/NuevaOperacionPage.tsx, one tab    *)
(* against the server.                                                     *)
(*                                                                         *)
(* The wizard creates a draft by itself once its header is complete, sends *)
(* every later edit of the header with a debounced PATCH, and lets the     *)
(* user resume, discard and execute drafts meanwhile.  Each request is     *)
(* three steps: sent, served, answered.  Its answer is applied with what   *)
(* the closure of the request captured.                                    *)
(*                                                                         *)
(* The date is left out of the header: it travels with type and clients    *)
(* and the server never objects to it.  What the forms hold is in other    *)
(* modules; here a draft has a payload or has none.                        *)
(***************************************************************************)
EXTENDS Naturals, FiniteSets

CONSTANTS Movements,      \* a set of positive numbers: the drafts there may ever be
          Types,          \* types of operation
          OptionalTypes,  \* those whose header needs no client
          TwoClients,     \* the type whose form chooses two clients, ARBITRAJE
          Clients,
          FirstHeaders,   \* the headers of the draft there is at first
          MaxActs         \* bound on what the user does on the open page

ASSUME WizardAssumption ==
    /\ Movements \subseteq Nat \ {0}
    /\ OptionalTypes \subseteq Types /\ TwoClients \in OptionalTypes
    /\ "" \notin Types \cup Clients /\ "none" \notin Types
    /\ Types # {TwoClients} /\ Clients # {}

VARIABLES server,    \* per movement: status, header, whether a payload is stored
          wiz,       \* React state, refs and timers of the page
          net,       \* requests in flight
          pointer,   \* the wizard in sessionStorage
          acts,      \* what the user did so far
          unsure     \* history: the user acted while a header request was in flight or
                     \* refused, or the page was not told what the server did or has

wizardVars == <<server, wiz, net, pointer, acts, unsure>>

Chosen == Clients \cup {""}
Headers == [type : Types \cup {""}, client : Chosen, cost : Chosen]
ASSUME FirstAssumption == FirstHeaders \subseteq Headers

Forms == [type : Types \cup {""}, client : Chosen, cost : Chosen, cob : Chosen]

NoHeader == [type |-> "none", client |-> "", cost |-> ""]
EmptyForm == [type |-> "", client |-> "", cost |-> "", cob |-> ""]
None == [m |-> 0]

\* What a PATCH sends and lastSyncedHeaderRef keeps.
HeaderOf(f) ==
    [type |-> f.type,
     client |-> IF f.type = TwoClients THEN f.cob ELSE f.client,
     cost |-> IF f.type = TwoClients THEN f.cost ELSE ""]

\* The collecting client of an arbitrage is its client.
CobradoOf(h) == IF h.type = TwoClients THEN h.client ELSE ""

\* What the header of a draft puts into the fields.
FormOf(h) == [type |-> h.type, client |-> h.client, cost |-> h.cost, cob |-> CobradoOf(h)]

ClientRequired(type) == type # "" /\ type \notin OptionalTypes
\* A header or a form the server accepts.
Complete(f) == f.type # "" /\ (ClientRequired(f.type) => f.client # "")

----------------------------------------------------------------------------
(* State                                                                   *)

\* cob is the collecting client of lastSyncedHeaderRef, synced the rest of it.
Closed == [open |-> FALSE, m |-> 0, form |-> EmptyForm, synced |-> NoHeader, cob |-> "",
           modal |-> 0, error |-> FALSE, token |-> FALSE, resume |-> 0,
           patchTimer |-> FALSE, createTimer |-> FALSE, list |-> {}]

Silent == [create |-> None, lost |-> {}, patches |-> {}, details |-> {},
           cancel |-> None, discard |-> None, submit |-> None, fetch |-> None]

NoMovement == [status |-> "none", header |-> NoHeader, payload |-> FALSE]
NewDraft(h) == [status |-> "BORRADOR", header |-> h, payload |-> FALSE]

Items == [m : Movements, header : Headers]

\* modal is 0, or the movement whose PATCH was answered with a conflict.
WizardTypes ==
    /\ server \in [Movements -> [status : {"none", "BORRADOR", "CONFIRMADA", "deleted"},
                                 header : Headers \cup {NoHeader}, payload : BOOLEAN]]
    /\ DOMAIN wiz = DOMAIN Closed
    /\ wiz.m \in Movements \cup {0} /\ wiz.modal \in Movements \cup {0}
    /\ wiz.form \in Forms /\ wiz.synced \in Headers \cup {NoHeader} /\ wiz.cob \in Chosen
    /\ {wiz.open, wiz.error, wiz.token, wiz.patchTimer, wiz.createTimer} \subseteq BOOLEAN
    /\ wiz.list \subseteq Items
    /\ wiz.createTimer => wiz.m = 0 /\ Complete(wiz.form)
    /\ wiz.patchTimer => wiz.m # 0
    /\ DOMAIN net = DOMAIN Silent
    /\ \A p \in net.patches : p.m \in Movements /\ p.header \in Headers
    /\ Cardinality({p \in net.patches : p.latest}) <= 1
    /\ \/ pointer = None
       \/ pointer.m \in Movements /\ pointer.form \in Forms

----------------------------------------------------------------------------
(* Effects.  React runs an effect when one of its dependencies changed, and *)
(* cleans the timer of its last run before.                                *)

\* Mutant of NeedsPatch: the wizard forgets the second client of an arbitrage.
NeedsPatchByClient(w) ==
    /\ w.m # 0 /\ w.modal = 0 /\ w.synced # NoHeader
    /\ <<HeaderOf(w.form).type, HeaderOf(w.form).client>> # <<w.synced.type, w.synced.client>>

\* The debounced PATCH is armed when the fields differ from what was synced.
NeedsPatch(w) ==
    /\ w.m # 0 /\ w.modal = 0 /\ w.synced # NoHeader
    /\ HeaderOf(w.form) # w.synced \/ CobradoOf(HeaderOf(w.form)) # w.cob

\* The debounced creation is armed for a complete header without a movement.
NeedsCreate(w) == w.m = 0 /\ w.resume = 0 /\ Complete(w.form)

\* The state after a render in which old became new.
Rendered(old, new) ==
    [new EXCEPT
      !.patchTimer = IF <<old.form, old.m, old.modal>> # <<new.form, new.m, new.modal>>
                     THEN NeedsPatch(new) ELSE @,
      !.createTimer = IF <<old.form.type, old.form.client, old.m, old.resume>>
                           # <<new.form.type, new.form.client, new.m, new.resume>>
                      THEN NeedsCreate(new) ELSE @]

\* The effect that writes the pointer, after a render in which old became new.
Pointed(old, new, before) ==
    IF new.m # 0 /\ new.form.type # "" /\ <<old.m, old.form>> # <<new.m, new.form>>
    THEN [m |-> new.m, form |-> new.form] ELSE before

Render(new, before) ==
    /\ wiz' = Rendered(wiz, new)
    /\ pointer' = Pointed(wiz, new, before)

\* resetWizard: the blank wizard, and the pointer it leaves.
Reset(w) == [w |-> [Closed EXCEPT !.open = TRUE, !.token = w.token,
                                  !.resume = w.resume, !.list = w.list],
             pointer |-> None]

RenderReset(w) == Render(Reset(w).w, Reset(w).pointer)

----------------------------------------------------------------------------
(* Requests                                                                *)

\* A draft may yet end by a request of a page that is gone.
Unanswered(n) == \E r \in n.lost : r.kind # "create"

HeaderInFlight == net.create # None \/ net.patches # {} \/ net.details # {}

Existing == {m \in Movements : server[m].status = "BORRADOR"}
ServerItems == {[m |-> m, header |-> server[m].header] : m \in Existing}

\* fetchDrafts: one at a time.  It keeps the list the server has by now.
Fetching(n) == IF n.fetch = None THEN [n EXCEPT !.fetch = [m |-> 0, items |-> ServerItems]] ELSE n

\* Mutant of HoldsDiscarded: the wizard is never the one that was discarded.
HoldsNothing(d) == FALSE

HoldsDiscarded(d) == d.was = d.m

AfterDiscard(d) == IF HoldsDiscarded(d) THEN "discarded" ELSE "nothing"

\* A request of a page that is gone, and what its handler does when it is told.
Stray(kind, r, header, late) ==
    [kind |-> IF r.answer = "ok" THEN "answered" ELSE kind, m |-> r.m, header |-> header, late |-> late]

Waiting(r) == {x \in {r} : x # None /\ x.answer # "error"}

\* The page is gone: what was sent may still be served, and the handlers that end
\* a draft go on.
Abandoned(n) ==
    [n EXCEPT !.create = None,
              !.lost = @ \cup {[kind |-> "create", m |-> 0, header |-> c.header, late |-> "nothing"] :
                                 c \in {x \in {n.create} : x # None /\ ~x.served}}
                         \cup {Stray("delete", r, NoHeader, "cancelled") : r \in Waiting(n.cancel)}
                         \cup {Stray("delete", r, NoHeader, AfterDiscard(r)) :
                                 r \in {x \in Waiting(n.discard) :
                                          x.answer = "none" \/ HoldsDiscarded(x)}}
                         \cup {Stray("execute", r, [NoHeader EXCEPT !.type = r.type], "done") :
                                 r \in Waiting(n.submit)},
              !.patches = {[p EXCEPT !.latest = FALSE] : p \in {q \in @ : q.answer = "none"}},
              !.details = {}, !.fetch = None, !.submit = None,
              !.cancel = None, !.discard = None]

\* A reload ends the handlers too.
Unheard(n) ==
    [n EXCEPT !.lost = {[r EXCEPT !.late = "nothing"] : r \in {x \in @ : x.kind # "answered"}}]

\* The user acts, and may do it while a header request is in flight.
Act ==
    /\ acts < MaxActs
    /\ acts' = acts + 1

Acting == Act /\ unsure' = (unsure \/ HeaderInFlight)

\* The dialog may be answered once more than the bound says.
Answering ==
    /\ acts <= MaxActs
    /\ acts' = acts + 1
    /\ unsure' = (unsure \/ HeaderInFlight)

\* Fields may be edited while the draft is being created.
Editing == Act /\ unsure' = (unsure \/ net.patches # {} \/ net.details # {})

----------------------------------------------------------------------------
(* Opening the page                                                        *)

\* The layout effect restores the pointer unless the user asked for something else.
Restored(w) ==
    IF w.resume = 0 /\ ~w.token /\ w.m = 0 /\ pointer # None
    THEN [w EXCEPT !.m = pointer.m, !.form = pointer.form,
                   !.synced = HeaderOf(pointer.form), !.cob = CobradoOf(HeaderOf(pointer.form))]
    ELSE w

\* A mount with this location state, its effects in order.
Mounted(token, resume) ==
    LET blank == [Closed EXCEPT !.open = TRUE, !.token = token, !.resume = resume]
    IN IF token THEN Reset(blank).w ELSE Restored(blank)

\* Whether this is the header of an open draft.
Current(m, h) == server[m].status = "BORRADOR" /\ server[m].header = h

\* What is left of the requests once they are abandoned.
Mount(token, resume, left) ==
    LET w == Mounted(token, resume)
        n == Fetching(left) IN
    /\ wiz' = Rendered(Closed, w)
    /\ pointer' = Pointed(Closed, w, IF token THEN None ELSE pointer)
    /\ net' = IF resume = 0 THEN n
              ELSE [n EXCEPT !.details = {[m |-> resume, kind |-> "resume", header |-> NoHeader]}]
    /\ unsure' = (\/ HeaderInFlight
                  \/ Unanswered(n)
                  \/ w.m # 0 /\ ~Current(w.m, w.synced)
                  \/ pointer' # None /\ server[pointer'.m].status # "BORRADOR")

\* The menu: location state with a new token, on the page or off it.
Menu ==
    /\ \/ /\ ~wiz.open /\ Mount(TRUE, 0, Abandoned(net))
          /\ UNCHANGED acts
       \/ /\ Act /\ wiz.open /\ wiz.modal = 0
          /\ RenderReset([wiz EXCEPT !.token = TRUE, !.resume = 0])
          /\ unsure' = HeaderInFlight
          /\ UNCHANGED net
    /\ UNCHANGED server

\* Any other link, or the detail of a movement in correction.
Enter(resume) ==
    /\ ~wiz.open
    /\ resume # 0 => server[resume].status = "BORRADOR"
    /\ Mount(FALSE, resume, Abandoned(net))
    /\ UNCHANGED <<server, acts>>

\* F5 keeps the location state, the reset token included.
ReloadPage ==
    /\ Act /\ wiz.open
    /\ Mount(wiz.token, wiz.resume, Unheard(Abandoned(net)))
    /\ UNCHANGED server

\* A link to another page; the pointer of the session stays.
Leave ==
    /\ Act /\ wiz.open /\ wiz.modal = 0
    /\ wiz' = Closed
    /\ net' = Abandoned(net)
    /\ unsure' = (unsure \/ net' # net)
    /\ UNCHANGED <<server, pointer>>

----------------------------------------------------------------------------
(* Editing the header                                                      *)

\* The dialog that asks for confirmation keeps the focus.
MayEdit == wiz.open /\ wiz.modal = 0

EditType(type) ==
    /\ Editing /\ MayEdit
    /\ type # wiz.form.type
    /\ wiz.m # 0 => type # ""
    /\ Render([wiz EXCEPT !.form = [EmptyForm EXCEPT !.type = type]], pointer)
    /\ UNCHANGED <<server, net>>

\* The combo of the header, or the two of the arbitrage form: a choice, or none
\* while something is typed or after it is cleared.
EditClient(c) ==
    /\ Editing /\ MayEdit
    /\ \/ /\ ClientRequired(wiz.form.type)
          /\ c # wiz.form.client
          /\ Render([wiz EXCEPT !.form.client = c], pointer)
       \/ /\ wiz.form.type = TwoClients /\ wiz.m # 0
          /\ \/ c # wiz.form.cost /\ Render([wiz EXCEPT !.form.cost = c], pointer)
             \/ c # wiz.form.cob /\ Render([wiz EXCEPT !.form.cob = c], pointer)
    /\ UNCHANGED <<server, net>>

\* The timer of the creation: ensureMovementHeader.
SendCreate ==
    /\ wiz.createTimer
    /\ wiz' = [wiz EXCEPT !.createTimer = FALSE,
                          !.error = IF net.create = None THEN FALSE ELSE @]
    /\ net' = IF net.create # None THEN net
              ELSE [net EXCEPT !.create =
                     [m |-> 0, served |-> FALSE, refused |-> FALSE,
                      header |-> [type |-> wiz.form.type, client |-> wiz.form.client, cost |-> ""]]]
    /\ UNCHANGED <<server, pointer, acts, unsure>>

\* The server creates the draft, or fails.
ServeCreate(m, ok) ==
    /\ server[m].status = "none"
    /\ net.create # None /\ ~net.create.served
    /\ net' = [net EXCEPT !.create = [@ EXCEPT !.served = TRUE, !.refused = ~ok,
                                               !.m = IF ok THEN m ELSE 0]]
    /\ server' = IF ok THEN [server EXCEPT ![m] = NewDraft(net.create.header)] ELSE server
    /\ UNCHANGED <<wiz, pointer, acts, unsure>>

\* The bound on movements is reached.
RefuseCreate ==
    /\ net.create # None /\ ~net.create.served
    /\ \A m \in Movements : server[m].status # "none"
    /\ net' = [net EXCEPT !.create = [@ EXCEPT !.served = TRUE, !.refused = TRUE]]
    /\ UNCHANGED <<server, wiz, pointer, acts, unsure>>

\* What the wizard believes after its POST: the values of the closure.
SyncedByCreate(h) == [h EXCEPT !.client = IF h.type = TwoClients THEN "" ELSE @]

AnswerCreate ==
    LET c == net.create
        done == [net EXCEPT !.create = None] IN
    /\ c # None /\ c.served
    /\ \/ /\ c.refused
          /\ wiz' = [wiz EXCEPT !.error = TRUE]
          /\ net' = done
          /\ UNCHANGED <<pointer, unsure>>
       \/ /\ ~c.refused
          /\ Render([wiz EXCEPT !.m = c.m, !.synced = SyncedByCreate(c.header), !.cob = ""], pointer)
          /\ net' = Fetching(done)
          /\ unsure' = (unsure \/ wiz.m # 0)
    /\ UNCHANGED <<server, acts>>

\* Twelve seconds without an answer.
CreateTimeout ==
    /\ net.create # None
    /\ wiz' = [wiz EXCEPT !.error = TRUE]
    /\ net' = [net EXCEPT !.create = None,
                          !.lost = Abandoned([Silent EXCEPT !.create = net.create]).lost \cup @]
    /\ UNCHANGED <<server, pointer, acts, unsure>>

\* patchMovementHeader.
PatchSent(confirm) ==
    /\ Cardinality(net.patches) < 2
    /\ net' = [net EXCEPT !.patches =
                 {[p EXCEPT !.latest = FALSE] : p \in @} \cup
                 {[m |-> wiz.m, header |-> HeaderOf(wiz.form), confirm |-> confirm,
                   modal |-> wiz.modal, answer |-> "none", latest |-> TRUE]}]

SendPatch ==
    /\ wiz.patchTimer
    /\ PatchSent(FALSE)
    /\ wiz' = [wiz EXCEPT !.patchTimer = FALSE, !.error = FALSE]
    /\ unsure' = (unsure \/ HeaderInFlight)
    /\ UNCHANGED <<server, pointer, acts>>

\* "Descartar datos y aplicar".
ConfirmClear ==
    /\ Answering /\ wiz.modal # 0 /\ wiz.m # 0
    /\ PatchSent(TRUE)
    /\ wiz' = [wiz EXCEPT !.error = FALSE]
    /\ UNCHANGED <<server, pointer>>

\* revertHeaderToLastSynced.
Reverted(w) ==
    IF w.synced = NoHeader THEN [w EXCEPT !.modal = 0]
    ELSE [w EXCEPT !.modal = 0,
                   !.form = [type |-> w.synced.type, client |-> w.synced.client,
                             cost |-> w.synced.cost, cob |-> w.cob]]

Revert ==
    /\ Answering /\ wiz.modal # 0
    /\ Render(Reverted(wiz), pointer)
    /\ UNCHANGED <<server, net>>

\* The server does what it is asked and answers; or the connection breaks, the page
\* is told of an error, and only the server knows whether it did.
Served(done, answer, told) ==
    \/ told = answer /\ server' = done /\ UNCHANGED unsure
    \/ told = "error" /\ server' \in {server, done} /\ unsure' = (unsure \/ server' # server)

\* Mutant of PatchAnswer: a stored payload is no reason to ask.
PatchAnswerUnasked(p) ==
    IF server[p.m].status # "BORRADOR" \/ ~Complete(p.header) THEN "error" ELSE "ok"

\* What PATCH /movements/{id}/header answers.
PatchAnswer(p) ==
    IF server[p.m].status # "BORRADOR" \/ ~Complete(p.header) THEN "error"
    ELSE IF server[p.m].payload /\ server[p.m].header # p.header /\ ~p.confirm
    THEN "conflict" ELSE "ok"

Patched(p) ==
    IF PatchAnswer(p) # "ok" THEN server
    ELSE [server EXCEPT ![p.m].header = p.header,
                        ![p.m].payload = @ /\ server[p.m].header = p.header]

\* An answer nobody waits for any more is not kept.
ServePatch(p) ==
    /\ p.answer = "none"
    /\ \E told \in {"ok", "conflict", "error"} :
          /\ Served(Patched(p), PatchAnswer(p), told)
          /\ net' = [net EXCEPT !.patches =
                       (@ \ {p}) \cup IF p.latest THEN {[p EXCEPT !.answer = told]} ELSE {}]
    /\ UNCHANGED <<wiz, pointer, acts>>

\* Mutant of AfterPatchError: the failed PATCH is sent again.
AfterPatchErrorRetries(w, p) == [w EXCEPT !.error = TRUE, !.patchTimer = w.m # 0]

AfterPatchError(w, p) == [w EXCEPT !.error = TRUE]

AnswerPatch(p) ==
    /\ p.answer # "none"
    /\ net' = [net EXCEPT !.patches = @ \ {p}]
    /\ \/ /\ ~p.latest
          /\ UNCHANGED <<wiz, pointer>>
       \/ /\ p.latest /\ p.answer = "ok"
          /\ Render([wiz EXCEPT !.synced = p.header, !.cob = CobradoOf(p.header), !.modal = 0],
                    pointer)
       \/ /\ p.latest /\ p.answer = "conflict"
          /\ Render([wiz EXCEPT !.modal = p.m], pointer)
       \/ /\ p.latest /\ p.answer = "error"
          /\ wiz' = AfterPatchError(wiz, p)
          /\ UNCHANGED pointer
    /\ UNCHANGED <<server, acts, unsure>>

----------------------------------------------------------------------------
(* Drafts of the list                                                      *)

\* handleResumeDraft takes the header of the list, and asks for the two
\* clients of an arbitrage apart.
Resume(item) ==
    LET h == item.header
        form == [EmptyForm EXCEPT !.type = h.type, !.client = h.client] IN
    /\ Act /\ MayEdit
    /\ item \in wiz.list /\ net.discard.m # item.m
    /\ Render([wiz EXCEPT !.m = item.m, !.form = form, !.error = FALSE,
                          !.synced = [h EXCEPT !.cost = ""], !.cob = ""], pointer)
    /\ net' = IF h.type # TwoClients THEN net
              ELSE [net EXCEPT !.details = @ \cup {[m |-> item.m, kind |-> "list", header |-> NoHeader]}]
    /\ unsure' = (HeaderInFlight \/ Unanswered(net) \/ ~Current(item.m, h))
    /\ UNCHANGED server

\* The server reads the movement for resumeMovementId or for an arbitrage; or that
\* fails, which is told of the former only.
ServeDetail(d) ==
    /\ d.header = NoHeader
    /\ \/ /\ server[d.m].status # "deleted"
          /\ net' = [net EXCEPT !.details = (@ \ {d}) \cup {[d EXCEPT !.header = server[d.m].header]}]
          /\ UNCHANGED <<wiz, unsure>>
       \/ /\ net' = [net EXCEPT !.details = @ \ {d}]
          /\ wiz' = [wiz EXCEPT !.error = @ \/ d.kind = "resume"]
          /\ unsure' = (unsure \/ d.kind = "list")
    /\ UNCHANGED <<server, pointer, acts>>

AnswerDetail(d) ==
    LET f == FormOf(d.header) IN
    /\ d.header # NoHeader
    /\ net' = [net EXCEPT !.details = @ \ {d}]
    /\ \/ /\ d.kind = "resume"
          /\ Render([wiz EXCEPT !.m = d.m, !.form = f, !.synced = d.header, !.cob = f.cob], pointer)
       \/ /\ d.kind = "list"
          /\ Render([wiz EXCEPT !.form.cost = f.cost, !.form.cob = f.cob,
                                !.synced = d.header, !.cob = f.cob], pointer)
    /\ unsure' = (unsure \/ ~Current(d.m, d.header))
    /\ UNCHANGED <<server, acts>>

\* The server read the list when it was asked for, or has just read it.
AnswerFetch ==
    /\ net.fetch # None
    /\ \E items \in {net.fetch.items, ServerItems, {}} :
        wiz' = [wiz EXCEPT !.list = items]
    /\ net' = [net EXCEPT !.fetch = None]
    /\ UNCHANGED <<server, pointer, acts, unsure>>

\* handleDiscardListedDraft hides the draft at once, and any error shown.
DiscardListed(item) ==
    /\ Act /\ MayEdit
    /\ unsure' = (unsure \/ HeaderInFlight \/ wiz.error)
    /\ item \in wiz.list /\ net.discard = None
    /\ wiz' = [wiz EXCEPT !.list = {i \in @ : i.m # item.m}, !.error = FALSE]
    /\ net' = [net EXCEPT !.discard = [m |-> item.m, was |-> wiz.m, list |-> wiz.list, answer |-> "none"]]
    /\ UNCHANGED <<server, pointer>>

\* handleCancelDraft: "Cancelar" of the form.
CancelDraft ==
    /\ Acting /\ MayEdit
    /\ wiz.m # 0 /\ wiz.form.type # "" /\ net.cancel = None
    /\ net' = [net EXCEPT !.cancel = [m |-> wiz.m, answer |-> "none"]]
    /\ UNCHANGED <<server, wiz, pointer>>

\* DELETE /movements/{id}/discard-draft.
Deleted(m) == [server EXCEPT ![m].status = IF @ = "BORRADOR" THEN "deleted" ELSE @]
DeleteAnswer(m) == IF server[m].status = "BORRADOR" THEN "ok" ELSE "error"

ServeDiscard ==
    LET d == net.discard IN
    /\ d # None /\ d.answer = "none"
    /\ \E told \in {"ok", "error"} :
          /\ Served(Deleted(d.m), DeleteAnswer(d.m), told)
          /\ net' = [net EXCEPT !.discard = [@ EXCEPT !.answer = told]]
    /\ UNCHANGED <<wiz, pointer, acts>>

ServeCancel ==
    LET c == net.cancel IN
    /\ c # None /\ c.answer = "none"
    /\ \E told \in {"ok", "error"} :
          /\ Served(Deleted(c.m), DeleteAnswer(c.m), told)
          /\ net' = [net EXCEPT !.cancel = [@ EXCEPT !.answer = told]]
    /\ UNCHANGED <<wiz, pointer, acts>>

AnswerDiscard ==
    LET d == net.discard IN
    /\ d # None /\ d.answer # "none"
    /\ net' = Fetching([net EXCEPT !.discard = None])
    /\ \/ /\ d.answer = "ok" /\ HoldsDiscarded(d)
          /\ RenderReset(wiz)
          /\ unsure' = HeaderInFlight
       \/ /\ d.answer = "ok" /\ ~HoldsDiscarded(d)
          /\ UNCHANGED <<wiz, pointer, unsure>>
       \/ /\ d.answer = "error"
          /\ wiz' = [wiz EXCEPT !.list = d.list, !.error = TRUE]
          /\ UNCHANGED <<pointer, unsure>>
    /\ UNCHANGED <<server, acts>>

\* The answer resets whatever the wizard holds by now.
AnswerCancel ==
    LET c == net.cancel IN
    /\ c # None /\ c.answer # "none"
    /\ \/ /\ c.answer = "ok"
          /\ RenderReset([wiz EXCEPT !.token = FALSE, !.resume = 0])
          /\ net' = Fetching([net EXCEPT !.cancel = None])
          /\ unsure' = HeaderInFlight
       \/ /\ c.answer = "error"
          /\ wiz' = [wiz EXCEPT !.error = TRUE]
          /\ net' = [net EXCEPT !.cancel = None]
          /\ UNCHANGED <<pointer, unsure>>
    /\ UNCHANGED <<server, acts>>

----------------------------------------------------------------------------
(* The form below the header                                               *)

\* "Guardar borrador" stores a payload for the header of the server.
SaveDraft ==
    /\ Acting /\ MayEdit
    /\ wiz.m # 0 /\ wiz.form.type # ""
    /\ server[wiz.m].status = "BORRADOR" /\ server[wiz.m].header.type = wiz.form.type
    /\ ~server[wiz.m].payload
    /\ server' = [server EXCEPT ![wiz.m].payload = TRUE]
    /\ UNCHANGED <<wiz, net, pointer>>

Submit ==
    /\ Acting /\ MayEdit
    /\ wiz.m # 0 /\ wiz.form.type # "" /\ net.submit = None
    /\ net' = [net EXCEPT !.submit = [m |-> wiz.m, type |-> wiz.form.type, answer |-> "none"]]
    /\ UNCHANGED <<server, wiz, pointer>>

\* POST of the operation: the type of the draft must be that of the form.
Executes(m, type) == server[m].status = "BORRADOR" /\ server[m].header.type = type
Executed(m, type) ==
    IF Executes(m, type) THEN [server EXCEPT ![m].status = "CONFIRMADA"] ELSE server

ExecuteAnswer(m, type) == IF Executes(m, type) THEN "ok" ELSE "error"

ServeSubmit ==
    LET s == net.submit IN
    /\ s # None /\ s.answer = "none"
    /\ \E told \in {"ok", "error"} :
          /\ Served(Executed(s.m, s.type), ExecuteAnswer(s.m, s.type), told)
          /\ net' = [net EXCEPT !.submit = [@ EXCEPT !.answer = told]]
    /\ UNCHANGED <<wiz, pointer, acts>>

\* The server gets to a request whose page is gone or gave up waiting; its handler
\* may be told.
ServeLost(r) ==
    /\ \/ r.kind = "create" /\ \E m \in Movements :
            server[m].status = "none" /\ server' = [server EXCEPT ![m] = NewDraft(r.header)]
       \/ r.kind = "delete" /\ server' = Deleted(r.m)
       \/ r.kind = "execute" /\ server' = Executed(r.m, r.header.type)
    /\ \/ net' = [net EXCEPT !.lost = @ \ {r}]
       \/ /\ r.late # "nothing" /\ server' # server
          /\ net' = [net EXCEPT !.lost = (@ \ {r}) \cup {[r EXCEPT !.kind = "answered"]}]
    /\ UNCHANGED <<wiz, pointer, acts, unsure>>

\* handleDone, with the movement of the form that sent it: the wizard is reset
\* whatever it holds, and the page is left.
AnswerSubmit ==
    LET s == net.submit IN
    /\ s # None /\ s.answer # "none"
    /\ \/ /\ s.answer = "ok"
          /\ wiz' = Closed
          /\ pointer' = Reset(wiz).pointer
          /\ net' = Abandoned(net)
          /\ unsure' = FALSE
       \/ /\ s.answer = "error"
          /\ net' = [net EXCEPT !.submit = None]
          /\ UNCHANGED <<wiz, pointer, unsure>>
    /\ UNCHANGED <<server, acts>>

\* The handlers of a page that is gone clear the pointer, whatever it names by now.
\* handleDone then leaves the page that is open, handleCancelDraft opens a blank one
\* or takes its location state from the one that is open.
AnswerLate(r) ==
    LET others == [net EXCEPT !.lost = @ \ {r}] IN
    /\ r.kind = "answered"
    /\ pointer' = None
    /\ \/ r.late = "discarded" /\ net' = others /\ UNCHANGED <<wiz, unsure>>
       \/ /\ r.late = "done"
          /\ wiz' = Closed /\ net' = Abandoned(others)
          /\ unsure' = (unsure \/ net' # others)
       \/ /\ r.late = "cancelled" /\ wiz.open
          /\ wiz' = Rendered(wiz, [wiz EXCEPT !.token = FALSE, !.resume = 0])
          /\ net' = others /\ UNCHANGED unsure
       \/ /\ r.late = "cancelled" /\ ~wiz.open
          /\ wiz' = [Closed EXCEPT !.open = TRUE] /\ net' = Fetching(Abandoned(others))
          /\ unsure' = (HeaderInFlight \/ Unanswered(net'))
    /\ UNCHANGED <<server, acts>>

----------------------------------------------------------------------------
\* One draft of any header; the other movements are not there yet, or new
\* drafts of one header.  The session may come from a page that was left.
WizardInit ==
    /\ \E h \in FirstHeaders, payload \in BOOLEAN, others \in BOOLEAN :
        LET m == CHOOSE x \in Movements : TRUE
            other == CHOOSE x \in Headers : x.type # TwoClients /\ Complete(x) /\ x.cost = "" IN
        /\ Complete(h)
        /\ h.type # TwoClients => h.cost = ""
        /\ server = [x \in Movements |->
                      IF x = m THEN [NewDraft(h) EXCEPT !.payload = payload]
                      ELSE IF others THEN NewDraft(other) ELSE NoMovement]
    /\ wiz = Closed
    /\ net = Silent
    /\ pointer \in {None} \cup {[m |-> x, form |-> FormOf(server[x].header)] : x \in Existing}
    /\ acts = 0
    /\ unsure = FALSE

User ==
    \/ Menu \/ ReloadPage \/ Leave \/ ConfirmClear \/ Revert \/ CancelDraft \/ SaveDraft \/ Submit
    \/ \E m \in Movements \cup {0} : Enter(m)
    \/ \E type \in Types \cup {""} : EditType(type)
    \/ \E c \in Chosen : EditClient(c)
    \/ \E item \in wiz.list : Resume(item) \/ DiscardListed(item)

\* Timers, the server and the answers.
System ==
    \/ SendCreate \/ RefuseCreate \/ AnswerCreate \/ CreateTimeout \/ SendPatch
    \/ AnswerFetch \/ ServeDiscard \/ ServeCancel \/ ServeSubmit
    \/ AnswerDiscard \/ AnswerCancel \/ AnswerSubmit
    \/ \E m \in Movements, ok \in BOOLEAN : ServeCreate(m, ok)
    \/ \E p \in net.patches : ServePatch(p) \/ AnswerPatch(p)
    \/ \E d \in net.details : ServeDetail(d) \/ AnswerDetail(d)
    \/ \E r \in net.lost : ServeLost(r) \/ AnswerLate(r)

WizardNext == User \/ System

\* Timers fire and requests are answered or time out; the user need not act.
WizardSpec == WizardInit /\ [][WizardNext]_wizardVars /\ WF_wizardVars(System)

----------------------------------------------------------------------------
(* Properties                                                              *)

Quiet ==
    /\ ~wiz.patchTimer /\ ~wiz.createTimer
    /\ net.create = None /\ net.patches = {} /\ net.details = {}
    /\ net.cancel = None /\ net.discard = None /\ net.submit = None

\* When nothing is pending and no error or question is shown, the header on the
\* screen is the one the server would execute, provided the user waited for the
\* PATCHes and reads of the header before acting again, did not hide a refusal
\* by discarding another draft and did not start from a list, a pointer or a
\* read older than the draft, that no PATCH was carried out but answered with an
\* error, and that the clients of an arbitrage taken from the list could be read:
\* the code says nothing when they could not (lastSyncedHeaderRef and the effects
\* around it, NuevaOperacionPage.tsx:771).
ShownIsStored ==
    Quiet /\ ~unsure /\ wiz.open /\ wiz.m # 0 /\ ~wiz.error /\ wiz.modal = 0 =>
        server[wiz.m].header = HeaderOf(wiz.form)

\* A payload is given up only for the draft the dialog was opened about: no
\* other answer changed the wizard between question and confirmation
\* (confirmClearOpen and patchMovementHeader).
ConsentIsForThisDraft ==
    \A p \in net.patches : p.latest /\ p.confirm /\ ~unsure => p.m = p.modal

\* A draft that was executed or discarded from this page stays neither in the
\* wizard nor in the pointer of the session, under the same proviso, and if the
\* page was told: after an error the handlers keep the draft, though the server may
\* have ended it (resetWizard, called by three handlers from the closures of their
\* renders; the catches at NuevaOperacionPage.tsx:730 and 793).
HoldsAnOpenDraft ==
    Quiet /\ ~unsure =>
        /\ wiz.m # 0 => server[wiz.m].status = "BORRADOR"
        /\ pointer # None => server[pointer.m].status = "BORRADOR"

\* The draft in the user's hands is one that is still there and the one that was
\* asked about, and its timers and requests name it.
DraftInHand == WizardTypes /\ HoldsAnOpenDraft /\ ConsentIsForThisDraft

\* A payload disappears from the server only by an execution, a discard or a
\* confirmed PATCH: an edit alone never loses it.
EditsKeepPayload ==
    [][\A m \in Movements :
        server[m].payload /\ ~server'[m].payload =>
            \E p \in net.patches : p.m = m /\ p.confirm]_wizardVars

\* A dialog that is cancelled leaves nothing to send, but for an arbitrage of the
\* list whose clients were not read: its collecting client was never noted apart,
\* and the same PATCH is armed again (revertHeaderToLastSynced: "para evitar bucle
\* 409 <-> PATCH debounced").
RevertsRest ==
    [][Revert => \/ ~wiz'.patchTimer
                 \/ wiz.synced.type = TwoClients /\ wiz.cob # wiz.synced.client]_wizardVars

\* The wizard comes to rest, whatever is refused or lost: no timer sends the same
\* PATCH for ever unless the user goes on answering its dialog.
WizardSettles == <>[]Quiet /\ RevertsRest
=============================================================================
