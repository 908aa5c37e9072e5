------------------------- MODULE PendingPageProofs -------------------------
(***************************************************************************)
(* Theorems about PendingPage, for any items, accounts and formats, and    *)
(* any number of requests and lists under way.                             *)
(*                                                                         *)
(* A list is shown whatever was asked for since, so that the last one to   *)
(* arrive is current rests on how lists are marked: those asked for before *)
(* one that arrived, and all of them when an answer is lost, are late, so  *)
(* the late ones come first (QueueInv).  What a dialog sends is what its   *)
(* own checks allow and what it was opened with (Fits), and of a dialog    *)
(* opened at rest nothing but its own request is under way (SureInv).      *)
(***************************************************************************)
EXTENDS PendingPage, TLAPS

Progress == {"asked", "here", "failed"}

ResolveDialogs ==
    [kind : {"resolve"}, item : Items, shown : Rows, sending : BOOLEAN,
     mode : {"REAL_EXECUTION", "COMPENSATED"}, amount : Nat, account : Maybe(Accounts),
     format : Formats, ref : References, accounts : Progress, settings : Progress,
     partial : BOOLEAN, sure : BOOLEAN, again : BOOLEAN, chosen : BOOLEAN]

CancelDialogs ==
    [kind : {"cancel"}, item : Items, shown : Rows, sending : BOOLEAN, sure : BOOLEAN,
     again : BOOLEAN]

OpeningDialogs ==
    [kind : {"opening"}, leg : Legs, client : BOOLEAN, sending : BOOLEAN,
     accounts : Progress, clients : Progress, again : BOOLEAN]

Dialogs == ResolveDialogs \cup CancelDialogs \cup OpeningDialogs

\* The dialogs about an item.
OfItem(d) == d.kind \in {"resolve", "cancel"}

Lists == UNION {[shown -> Rows] : shown \in SUBSET Items}
Fetches == [read : {FALSE}, late : BOOLEAN] \cup [read : {TRUE}, late : BOOLEAN, items : Lists]
Sent == [state : {"sent", "done", "refused"}, owner : {"dialog", "page", "nobody"}, body : Dialogs]

-----------------------------------------------------------------------------
(* The invariant                                                           *)

\* What a dialog keeps through any inputs and answers.
ResolveFits(d) ==
    /\ d.shown.status = "ABIERTO"
    /\ ~d.chosen /\ d.account # "" /\ d.shown.account \in Active => d.account = d.shown.account

OpeningFits(d) ==
    LET allowed == AllowedFormats(d.leg.list, d.leg.currency)
    IN d.leg.account \in Maybe(Active) /\ (allowed # {} => d.leg.format \in allowed)

Fits(d) ==
    /\ d.kind = "resolve" => ResolveFits(d)
    /\ d.kind = "opening" => OpeningFits(d)

Types ==
    /\ item \in [Items -> Rows]
    /\ partial \in BOOLEAN /\ doubt \in BOOLEAN
    /\ list \in Lists
    /\ fetches \in Seq(Fetches) /\ Len(fetches) <= MaxLists
    /\ dialog \in {NoDialog} \cup Dialogs
    /\ dialog # NoDialog => Fits(dialog)
    /\ request \in [Slots -> {NoRequest} \cup Sent]
    /\ \A s \in Slots : request[s] # NoRequest => Fits(request[s].body) /\ Submits(request[s].body)
    /\ acts \in 0..MaxActs

HasRow(i) == item[i].status # "NO_ROW"

\* Nothing of an annulled movement is open, or will be; what is shown has a row.
RowsInv ==
    /\ \A i \in Items : ~HasRow(i) => Start[i].status = "NO_ROW"
    /\ \A i \in Items : item[i].status \in {"NO_ROW", "ABIERTO"} => Movement[i] \notin annulled
    /\ \A i \in DOMAIN list : HasRow(i) /\ list[i].status = "ABIERTO"
    /\ \A k \in DOMAIN fetches :
          fetches[k].read =>
              \A i \in DOMAIN fetches[k].items :
                  HasRow(i) /\ fetches[k].items[i].status = "ABIERTO"
    /\ OfItem(dialog) => HasRow(dialog.item)
    /\ \A s \in Slots :
          request[s] # NoRequest /\ OfItem(request[s].body) => HasRow(request[s].body.item)

\* A dialog that is sending has one request, sent with what it was opened with.
OwnersInv ==
    \A s \in Slots :
        request[s].owner = "dialog" =>
            /\ dialog # NoDialog /\ dialog.sending
            /\ request[s].body.kind = dialog.kind /\ request[s].body.again = dialog.again
            /\ OfItem(dialog) => /\ request[s].body.item = dialog.item
                                 /\ request[s].body.shown = dialog.shown
                                 /\ request[s].body.sure = dialog.sure
            /\ \A t \in Slots : request[t].owner = "dialog" => t = s

NoneDone == \A s \in Slots : request[s].state # "done"

SureInv ==
    OfItem(dialog) /\ dialog.sure /\ ~dialog.again =>
        /\ \A s \in Slots : request[s] # NoRequest => request[s].owner = "dialog"
        /\ NoneDone /\ dialog.item \notin others =>
              item[dialog.item] = dialog.shown

\* What other users left alone is listed as it is.
Current(rows) ==
    \A i \in Items \ others :
        /\ i \in DOMAIN rows <=> i \in Open
        /\ i \in Open => rows[i] = item[i]

Newest == fetches[Len(fetches)]

QueueInv ==
    /\ \A j, k \in DOMAIN fetches : j < k /\ fetches[k].late => fetches[j].late
    /\ NoneDone /\ fetches # <<>> /\ ~Newest.late /\ Newest.read => Current(Newest.items)
    /\ NoneDone /\ ~doubt /\ (fetches = <<>> \/ Newest.late) => Current(list)

IInv == Types /\ RowsInv /\ OwnersInv /\ SureInv /\ QueueInv

-----------------------------------------------------------------------------
(* Legs and dialogs                                                        *)

LEMMA NoDialogIs ==
    /\ NoDialog \notin Dialogs /\ NoDialog.kind = "none"
    /\ NoRequest \notin Sent /\ NoRequest.state = "none" /\ NoRequest.owner = "none"
<1>1. ASSUME NoDialog \in Dialogs
      PROVE  FALSE
  <2>1. NoDialog.kind \in {"resolve", "cancel", "opening"}
    BY <1>1 DEF Dialogs, ResolveDialogs, CancelDialogs, OpeningDialogs
  <2> QED
    BY <2>1 DEF NoDialog
<1>2. ASSUME NoRequest \in Sent
      PROVE  FALSE
  <2>1. NoRequest.state \in {"sent", "done", "refused"}
    BY <1>2 DEF Sent
  <2> QED
    BY <2>1 DEF NoRequest
<1> QED
  BY <1>1, <1>2 DEF NoDialog, NoRequest

\* The kind of a dialog says which fields it has.
LEMMA KindIs ==
    ASSUME NEW d \in Dialogs
    PROVE  /\ d.kind = "resolve" <=> d \in ResolveDialogs
           /\ d.kind = "cancel" <=> d \in CancelDialogs
           /\ d.kind = "opening" <=> d \in OpeningDialogs
           /\ d.kind \in {"resolve", "cancel", "opening"}
           /\ OfItem(d) => d.item \in Items /\ d.shown \in Rows /\ d.sure \in BOOLEAN
           /\ d.sending \in BOOLEAN /\ d.again \in BOOLEAN
<1>1. ASSUME d \in ResolveDialogs
      PROVE  d.kind = "resolve" /\ d.item \in Items /\ d.shown \in Rows /\ d.sure \in BOOLEAN
             /\ d.sending \in BOOLEAN /\ d.again \in BOOLEAN
  BY <1>1 DEF ResolveDialogs
<1>2. ASSUME d \in CancelDialogs
      PROVE  d.kind = "cancel" /\ d.item \in Items /\ d.shown \in Rows /\ d.sure \in BOOLEAN
             /\ d.sending \in BOOLEAN /\ d.again \in BOOLEAN
  BY <1>2 DEF CancelDialogs
<1>3. ASSUME d \in OpeningDialogs
      PROVE  d.kind = "opening" /\ d.sending \in BOOLEAN /\ d.again \in BOOLEAN
  BY <1>3 DEF OpeningDialogs
<1>4. d \in ResolveDialogs \/ d \in CancelDialogs \/ d \in OpeningDialogs
  BY DEF Dialogs
<1> QED
  BY <1>1, <1>2, <1>3, <1>4 DEF OfItem

\* What a dialog that goes on keeps of what it was.
Framed(d, e) ==
    /\ e \in Dialogs /\ e.kind = d.kind /\ e.sending = d.sending /\ e.again = d.again
    /\ OfItem(d) => e.item = d.item /\ e.shown = d.shown /\ e.sure = d.sure
    /\ Fits(e)

LEMMA AllowedType ==
    ASSUME NEW a \in Maybe(Accounts), NEW c \in Maybe(Currencies)
    PROVE  AllowedFormats(a, c) \subseteq Formats
BY FormLegsAssumption DEF AllowedFormats, Maybe, Formats

\* The effect on the format leaves a format that is allowed, when some is.
LEMMA AlignedFits ==
    ASSUME NEW leg \in Legs
    PROVE  LET n == Aligned(leg)
               allowed == AllowedFormats(n.list, n.currency)
           IN n \in Legs /\ n.account = leg.account /\ (allowed # {} => n.format \in allowed)
<1> DEFINE allowed == AllowedFormats(leg.list, leg.currency)
           next == ResolveFormat(allowed, leg.format)
<1>1. allowed \subseteq Formats /\ leg.format \in Formats
  BY AllowedType DEF Legs
<1>2. next \in Formats /\ (allowed # {} => next \in allowed)
  BY <1>1 DEF ResolveFormat, Formats
<1> HIDE DEF next, allowed
<1>3. CASE allowed = {}
  BY <1>3 DEF Aligned, AlignedTo, allowed, next
<1>4. CASE allowed # {}
  <2>1. Aligned(leg) = [leg EXCEPT !.format = next, !.pending = @ /\ next = "CASH"]
    BY <1>4 DEF Aligned, AlignedTo, allowed, next
  <2>2. PICK b : b = (leg.pending /\ next = "CASH") /\ b \in BOOLEAN
    OBVIOUS
  <2>3. PICK n : n = [leg EXCEPT !.format = next, !.pending = b]
    OBVIOUS
  <2>4. n = Aligned(leg)
    BY <2>1, <2>2, <2>3
  <2>5. n \in Legs /\ n.account = leg.account /\ n.list = leg.list /\ n.currency = leg.currency
        /\ n.format = next
    BY <1>2, <2>2, <2>3 DEF Legs
  <2> QED
    BY <1>2, <1>4, <2>4, <2>5 DEF allowed
<1> QED
  BY <1>3, <1>4

LEMMA TypedAreNumbers == Typed \subseteq Nat
<1>1. Amounts \subseteq Nat \ {0}
  BY FormLegsAssumption, Zenon
<1> QED
  BY <1>1 DEF Typed

LEMMA ResolveEditFrames ==
    ASSUME NEW d \in ResolveDialogs, Fits(d), NEW e \in ResolveInputs(d)
    PROVE  Framed(d, e)
<1>0. d.kind = "resolve" /\ ResolveFits(d)
  BY DEF ResolveDialogs, Fits
<1>1. ASSUME NEW m \in {"REAL_EXECUTION", "COMPENSATED"}, e = [d EXCEPT !.mode = m]
      PROVE  Framed(d, e)
  BY <1>0, <1>1 DEF Framed, ResolveDialogs, Dialogs, Fits, ResolveFits
<1>2. ASSUME NEW x \in Typed, e = [d EXCEPT !.amount = x]
      PROVE  Framed(d, e)
  <2>1. x \in Nat
    BY TypedAreNumbers
  <2> QED
    BY <1>0, <1>2, <2>1 DEF Framed, ResolveDialogs, Dialogs, Fits, ResolveFits
<1>3. ASSUME NEW r \in References, e = [d EXCEPT !.ref = r]
      PROVE  Framed(d, e)
  BY <1>0, <1>3 DEF Framed, ResolveDialogs, Dialogs, Fits, ResolveFits
<1>4. ASSUME NEW f \in Formats, e = [d EXCEPT !.format = f]
      PROVE  Framed(d, e)
  BY <1>0, <1>4 DEF Framed, ResolveDialogs, Dialogs, Fits, ResolveFits
<1>5. ASSUME NEW a \in Active, e = [d EXCEPT !.account = a, !.chosen = TRUE]
      PROVE  Framed(d, e)
  <2>1. a \in Maybe(Accounts)
    BY PendingPageAssumption DEF Maybe
  <2> QED
    BY <1>0, <1>5, <2>1 DEF Framed, ResolveDialogs, Dialogs, Fits, ResolveFits
<1>6. \/ \E m \in {"REAL_EXECUTION", "COMPENSATED"} : e = [d EXCEPT !.mode = m]
      \/ \E x \in Typed : e = [d EXCEPT !.amount = x]
      \/ \E r \in References : e = [d EXCEPT !.ref = r]
      \/ \E f \in Formats : e = [d EXCEPT !.format = f]
      \/ \E a \in Active : e = [d EXCEPT !.account = a, !.chosen = TRUE]
  BY DEF ResolveInputs
<1> QED
  BY <1>1, <1>2, <1>3, <1>4, <1>5, <1>6

\* What a user may do to a leg leaves a leg.
LEMMA InputIsLeg ==
    ASSUME NEW leg \in Legs, leg.account \in Maybe(Active),
           NEW n \in CurrenciesFor(leg, Shown(leg.list)) \cup FormatsFor(leg, leg.currency)
                       \cup AmountsFor(leg) \cup AccountsFor(leg, Active)
    PROVE  n \in Legs /\ n.account \in Maybe(Active)
<1>1. CASE n \in CurrenciesFor(leg, Shown(leg.list))
  <2>1. PICK c \in Maybe(Currencies) : n = [leg EXCEPT !.currency = c]
    BY <1>1 DEF CurrenciesFor, Shown, Maybe
  <2> QED
    BY <2>1 DEF Legs
<1>2. CASE n \in FormatsFor(leg, leg.currency)
  <2>1. PICK f \in AllowedFormats(leg.list, leg.currency) :
            n = [leg EXCEPT !.format = f, !.pending = @ /\ f = "CASH"]
    BY <1>2 DEF FormatsFor
  <2>2. f \in Formats
    BY <2>1, AllowedType DEF Legs
  <2>3. PICK b \in BOOLEAN : b = (leg.pending /\ f = "CASH")
    OBVIOUS
  <2>4. n = [leg EXCEPT !.format = f, !.pending = b]
    BY <2>1, <2>3
  <2> QED
    BY <2>2, <2>4 DEF Legs
<1>3. CASE n \in AmountsFor(leg)
  <2>1. PICK x \in Nat : n = [leg EXCEPT !.amount = x]
    BY <1>3, TypedAreNumbers DEF AmountsFor
  <2> QED
    BY <2>1 DEF Legs
<1>4. CASE n \in AccountsFor(leg, Active)
  <2>1. PICK a \in Maybe(Active) : n = [leg EXCEPT !.account = a, !.currency = ""]
    BY <1>4 DEF AccountsFor
  <2>2. a \in Maybe(Accounts) /\ "" \in Maybe(Currencies)
    BY PendingPageAssumption DEF Maybe
  <2> QED
    BY <2>1, <2>2 DEF Legs
<1> QED
  BY <1>1, <1>2, <1>3, <1>4

\* So do the lists it is given.
LEMMA AskedIsLeg ==
    ASSUME NEW old \in Legs, NEW new \in Legs
    PROVE  ListAsked(old, new) \in Legs /\ ListAsked(old, new).account = new.account
<1>1. CASE new.account = old.account
  BY <1>1 DEF ListAsked
<1>2. CASE new.account # old.account /\ new.account = ""
  BY <1>2 DEF ListAsked, Legs, Maybe
<1>3. CASE new.account # old.account /\ new.account # ""
  <2>1. PICK S : S = new.asked \cup {new.account}
    OBVIOUS
  <2>2. S \subseteq Accounts
    BY <1>3, <2>1 DEF Legs, Maybe
  <2>3. ListAsked(old, new) = [new EXCEPT !.asked = S]
    BY <1>3, <2>1 DEF ListAsked
  <2> QED
    BY <2>2, <2>3 DEF Legs
<1> QED
  BY <1>1, <1>2, <1>3

LEMMA AnsweredIsLeg ==
    ASSUME NEW leg \in Legs, NEW a \in Accounts, NEW ok \in BOOLEAN
    PROVE  ListAnswered(leg, a, ok) \in Legs /\ ListAnswered(leg, a, ok).account = leg.account
<1>1. PICK l, S : l = (IF ok THEN a ELSE "") /\ S = leg.asked \ {a}
  OBVIOUS
<1>2. l \in Maybe(Accounts) /\ S \subseteq Accounts
  BY <1>1 DEF Maybe, Legs
<1>3. ListAnswered(leg, a, ok) = [leg EXCEPT !.list = l, !.asked = S]
  BY <1>1 DEF ListAnswered
<1> QED
  BY <1>2, <1>3 DEF Legs

\* An opening with another leg.
LEMMA LegFrames ==
    ASSUME NEW d \in OpeningDialogs, NEW leg \in Legs, leg.account \in Maybe(Active),
           NEW e, e = [d EXCEPT !.leg = Aligned(leg)]
    PROVE  Framed(d, e)
<1>1. PICK n : n = Aligned(leg)
  OBVIOUS
<1>2. /\ n \in Legs /\ n.account = leg.account
      /\ AllowedFormats(n.list, n.currency) # {} => n.format \in AllowedFormats(n.list, n.currency)
  BY <1>1, AlignedFits
<1>3. e = [d EXCEPT !.leg = n]
  BY <1>1
<1>4. /\ e \in OpeningDialogs /\ e.leg = n /\ e.kind = "opening" /\ d.kind = "opening"
      /\ e.sending = d.sending /\ e.again = d.again
  BY <1>2, <1>3 DEF OpeningDialogs
<1> QED
  BY <1>2, <1>4 DEF Framed, Dialogs, Fits, OpeningFits, OfItem

LEMMA OpeningEditFrames ==
    ASSUME NEW d \in OpeningDialogs, Fits(d), NEW e \in OpeningInputs(d)
    PROVE  Framed(d, e)
<1>1. d.kind = "opening" /\ d.leg \in Legs /\ d.leg.account \in Maybe(Active) /\ OpeningFits(d)
  BY DEF OpeningDialogs, Fits, OpeningFits
<1>2. CASE e = [d EXCEPT !.client = ~@]
  <2>1. PICK b \in BOOLEAN : b = ~d.client
    OBVIOUS
  <2>2. e = [d EXCEPT !.client = b]
    BY <1>2, <2>1
  <2>3. /\ e \in OpeningDialogs /\ e.kind = d.kind /\ e.sending = d.sending /\ e.again = d.again
        /\ e.leg = d.leg
    BY <2>2 DEF OpeningDialogs
  <2> QED
    BY <1>1, <2>3 DEF Framed, Dialogs, Fits, OpeningFits, OfItem
<1>3. ASSUME NEW leg \in CurrenciesFor(d.leg, Shown(d.leg.list)) \cup FormatsFor(d.leg, d.leg.currency)
                           \cup AmountsFor(d.leg) \cup AccountsFor(d.leg, Active),
             e = [d EXCEPT !.leg = Aligned(ListAsked(d.leg, leg))]
      PROVE  Framed(d, e)
  <2>1. leg \in Legs /\ leg.account \in Maybe(Active)
    BY <1>1, InputIsLeg
  <2>2. PICK n : n = ListAsked(d.leg, leg)
    OBVIOUS
  <2>3. n \in Legs /\ n.account \in Maybe(Active)
    BY <1>1, <2>1, <2>2, AskedIsLeg
  <2>4. e = [d EXCEPT !.leg = Aligned(n)]
    BY <1>3, <2>2
  <2> QED
    BY <2>3, <2>4, LegFrames
<1>4. \/ e = [d EXCEPT !.client = ~@]
      \/ \E leg \in CurrenciesFor(d.leg, Shown(d.leg.list)) \cup FormatsFor(d.leg, d.leg.currency)
                      \cup AmountsFor(d.leg) \cup AccountsFor(d.leg, Active) :
            e = [d EXCEPT !.leg = Aligned(ListAsked(d.leg, leg))]
  BY DEF OpeningInputs
<1> QED
  BY <1>2, <1>3, <1>4

\* What the user does to an open dialog.
LEMMA EditFrames ==
    ASSUME NEW d \in Dialogs, Fits(d), NEW e \in Inputs(d)
    PROVE  Framed(d, e)
<1>1. CASE d.kind = "resolve"
  BY <1>1, KindIs, ResolveEditFrames DEF Inputs
<1>2. CASE d.kind = "opening"
  BY <1>2, KindIs, OpeningEditFrames DEF Inputs
<1>3. CASE d.kind = "cancel"
  BY <1>3 DEF Inputs
<1> QED
  BY <1>1, <1>2, <1>3, KindIs

\* What a dialog is told frames it too.
LEMMA ToldFrames ==
    ASSUME dialog \in Dialogs, Fits(dialog), partial \in BOOLEAN, NEW ok \in BOOLEAN,
           \/ AnswerAccounts(ok) \/ AnswerSettings(ok) \/ AnswerClients(ok)
           \/ \E a \in Accounts : AnswerCurrencies(a, ok)
    PROVE  Framed(dialog, dialog')
<1>1. ASSUME NEW p \in Progress, NEW e, dialog \in OpeningDialogs,
             e = [dialog EXCEPT !.accounts = p] \/ e = [dialog EXCEPT !.clients = p]
      PROVE  Framed(dialog, e)
  <2>1. dialog.kind = "opening" /\ OpeningFits(dialog)
    BY <1>1, KindIs DEF Fits
  <2>2. /\ e \in OpeningDialogs /\ e.kind = dialog.kind /\ e.sending = dialog.sending
        /\ e.again = dialog.again /\ e.leg = dialog.leg
    BY <1>1 DEF OpeningDialogs
  <2> QED
    BY <2>1, <2>2 DEF Framed, Dialogs, Fits, OpeningFits, OfItem
<1>2. ASSUME NEW p \in Progress, NEW a \in Maybe(Accounts), NEW e, dialog \in ResolveDialogs,
             e = [dialog EXCEPT !.accounts = p, !.account = a],
             dialog.shown.account \in Active => a = dialog.shown.account
      PROVE  Framed(dialog, e)
  <2>1. dialog.kind = "resolve" /\ ResolveFits(dialog)
    BY <1>2, KindIs DEF Fits
  <2> QED
    BY <1>2, <2>1 DEF Framed, ResolveDialogs, Dialogs, Fits, ResolveFits
<1>3. ASSUME NEW p \in Progress, NEW b \in BOOLEAN, NEW e, dialog \in ResolveDialogs,
             \/ e = [dialog EXCEPT !.accounts = p] \/ e = [dialog EXCEPT !.settings = p]
             \/ e = [dialog EXCEPT !.settings = p, !.partial = b]
      PROVE  Framed(dialog, e)
  <2>1. dialog.kind = "resolve" /\ ResolveFits(dialog)
    BY <1>3, KindIs DEF Fits
  <2>2. /\ e \in ResolveDialogs /\ e.kind = dialog.kind /\ e.sending = dialog.sending
        /\ e.again = dialog.again /\ e.item = dialog.item /\ e.shown = dialog.shown
        /\ e.sure = dialog.sure /\ e.account = dialog.account /\ e.chosen = dialog.chosen
    <3>1. CASE e = [dialog EXCEPT !.accounts = p]
      BY <1>3, <3>1 DEF ResolveDialogs
    <3>2. CASE e = [dialog EXCEPT !.settings = p]
      BY <1>3, <3>2 DEF ResolveDialogs
    <3>3. CASE e = [dialog EXCEPT !.settings = p, !.partial = b]
      BY <1>3, <3>3 DEF ResolveDialogs
    <3> QED
      BY <1>3, <3>1, <3>2, <3>3
  <2> QED
    BY <2>1, <2>2 DEF Framed, Dialogs, Fits, ResolveFits
<1>4. CASE AnswerAccounts(ok) /\ dialog.kind = "resolve" /\ ok
  <2>1. PICK a \in Preferred(dialog) : dialog' = [dialog EXCEPT !.accounts = "here", !.account = a]
    BY <1>4 DEF AnswerAccounts
  <2>2. dialog \in ResolveDialogs
    BY <1>4, KindIs
  <2>3. a \in Maybe(Accounts) /\ (dialog.shown.account \in Active => a = dialog.shown.account)
    BY <2>1, PendingPageAssumption DEF Preferred, Maybe
  <2>4. "here" \in Progress
    BY DEF Progress
  <2> QED
    BY <1>2, <2>1, <2>2, <2>3, <2>4
<1>5. CASE AnswerAccounts(ok) /\ ~(dialog.kind = "resolve" /\ ok)
  <2>1. PICK p \in Progress : dialog' = [dialog EXCEPT !.accounts = p]
    <3>1. dialog' = [dialog EXCEPT !.accounts = IF ok THEN "here" ELSE "failed"]
      BY <1>5 DEF AnswerAccounts
    <3>2. (IF ok THEN "here" ELSE "failed") \in Progress
      BY DEF Progress
    <3> QED
      BY <3>1, <3>2
  <2>2. dialog \in ResolveDialogs \/ dialog \in OpeningDialogs
    BY <1>5, KindIs DEF AnswerAccounts
  <2> QED
    BY <1>1, <1>3, <2>1, <2>2
<1>6. CASE AnswerSettings(ok)
  <2>1. dialog \in ResolveDialogs /\ "here" \in Progress /\ "failed" \in Progress
    BY <1>6, KindIs DEF AnswerSettings, Progress
  <2>2. \/ dialog' = [dialog EXCEPT !.settings = "here", !.partial = partial]
        \/ dialog' = [dialog EXCEPT !.settings = "failed"]
    BY <1>6 DEF AnswerSettings
  <2> QED
    BY <1>3, <2>1, <2>2
<1>7. CASE AnswerClients(ok)
  <2>1. PICK p \in Progress : dialog' = [dialog EXCEPT !.clients = p]
    <3>1. dialog' = [dialog EXCEPT !.clients = IF ok THEN "here" ELSE "failed"]
      BY <1>7 DEF AnswerClients
    <3>2. (IF ok THEN "here" ELSE "failed") \in Progress
      BY DEF Progress
    <3> QED
      BY <3>1, <3>2
  <2>2. dialog \in OpeningDialogs
    BY <1>7, KindIs DEF AnswerClients
  <2> QED
    BY <1>1, <2>1, <2>2
<1>8. ASSUME NEW a \in Accounts, AnswerCurrencies(a, ok)
      PROVE  Framed(dialog, dialog')
  <2>1. dialog \in OpeningDialogs /\ dialog' = [dialog EXCEPT !.leg = Aligned(ListAnswered(@, a, ok))]
    BY <1>8, KindIs DEF AnswerCurrencies
  <2>2. dialog.leg \in Legs /\ dialog.leg.account \in Maybe(Active)
    BY <2>1 DEF OpeningDialogs, Fits, OpeningFits
  <2>3. PICK leg : leg = ListAnswered(dialog.leg, a, ok)
    OBVIOUS
  <2>4. leg \in Legs /\ leg.account \in Maybe(Active)
    BY <2>2, <2>3, AnsweredIsLeg
  <2>5. dialog' = [dialog EXCEPT !.leg = Aligned(leg)]
    BY <2>1, <2>3
  <2> QED
    BY <2>1, <2>4, <2>5, LegFrames
<1> QED
  BY <1>4, <1>5, <1>6, <1>7, <1>8

\* A dialog that opens.
LEMMA OpeningFitsFirst ==
    /\ OpeningDialog \in Dialogs /\ OpeningDialog.kind = "opening" /\ ~OpeningDialog.sending
    /\ Fits(OpeningDialog)
<1>1. EmptyLeg \in Legs /\ EmptyLeg.account = "" /\ EmptyLeg.list = ""
  BY DEF EmptyLeg, Legs, Maybe, Formats
<1>2. AllowedFormats("", EmptyLeg.currency) = {}
  BY DEF AllowedFormats
<1>3. OpeningDialog.leg = EmptyLeg /\ OpeningDialog.kind = "opening" /\ ~OpeningDialog.sending
  BY DEF OpeningDialog
<1>4. OpeningDialog \in OpeningDialogs
  BY <1>1 DEF OpeningDialog, OpeningDialogs, Progress
<1> QED
  BY <1>1, <1>2, <1>3, <1>4 DEF Dialogs, Fits, OpeningFits, Maybe

\* It shows the item as it is listed.
LEMMA OpenedFits ==
    ASSUME NEW i \in Items, list[i] \in Rows, list[i].status = "ABIERTO", doubt \in BOOLEAN,
           NEW d, d = CancelDialog(i) \/ \E mode \in {"REAL_EXECUTION", "COMPENSATED"} :
                                            d = ResolveDialog(i, mode)
    PROVE  /\ d \in Dialogs /\ OfItem(d) /\ d.item = i /\ d.shown = list[i]
           /\ ~d.sending /\ ~d.again /\ (d.sure <=> AtRest /\ ~doubt)
           /\ Fits(d)
<1>1. PICK b \in BOOLEAN : b = (AtRest /\ ~doubt)
  OBVIOUS
<1>2. CASE d = CancelDialog(i)
  <2>1. d = [kind |-> "cancel", item |-> i, shown |-> list[i], sending |-> FALSE,
             sure |-> b, again |-> FALSE]
    BY <1>1, <1>2 DEF CancelDialog
  <2>2. d \in CancelDialogs
    BY <2>1 DEF CancelDialogs
  <2> QED
    BY <1>1, <2>1, <2>2 DEF Dialogs, OfItem, Fits
<1>3. ASSUME NEW mode \in {"REAL_EXECUTION", "COMPENSATED"}, d = ResolveDialog(i, mode)
      PROVE  /\ d \in Dialogs /\ OfItem(d) /\ d.item = i /\ d.shown = list[i]
             /\ ~d.sending /\ ~d.again /\ (d.sure <=> AtRest /\ ~doubt)
             /\ Fits(d)
  <2>1. d = [kind |-> "resolve", item |-> i, shown |-> list[i], sending |-> FALSE,
             mode |-> mode, amount |-> list[i].amount, account |-> "", format |-> "CASH",
             ref |-> "", accounts |-> "asked", settings |-> "asked", partial |-> TRUE,
             sure |-> b, again |-> FALSE, chosen |-> FALSE]
    BY <1>1, <1>3 DEF ResolveDialog
  <2>2. list[i].amount \in Nat /\ "" \in Maybe(Accounts) /\ "CASH" \in Formats /\ "asked" \in Progress
        /\ "" \in References
    BY DEF Rows, Maybe, Formats, Progress, References
  <2>3. d \in ResolveDialogs
    BY <2>1, <2>2 DEF ResolveDialogs
  <2> QED
    BY <1>1, <2>1, <2>3 DEF Dialogs, OfItem, Fits, ResolveFits
<1> QED
  BY <1>2, <1>3

-----------------------------------------------------------------------------
(* The steps of the page                                                   *)

LEMMA ActBound ==
    ASSUME acts \in 0..MaxActs, Act \/ acts' = acts
    PROVE  acts' \in 0..MaxActs
BY PendingPageAssumption DEF Act

\* The dialog goes on, and nothing else changes.
LEMMA FramedKeeps ==
    ASSUME IInv, dialog # NoDialog, Framed(dialog, dialog'), Act \/ acts' = acts,
           UNCHANGED <<service, list, fetches, request, doubt>>
    PROVE  IInv'
<1>1. Types'
  <2>1. dialog' # NoDialog
    BY NoDialogIs DEF Framed
  <2> QED
    BY <2>1, ActBound DEF Framed, IInv, Types, service
<1>2. OfItem(dialog)' <=> OfItem(dialog)
  BY DEF Framed, OfItem
<1>3. RowsInv'
  BY <1>2 DEF Framed, IInv, RowsInv, HasRow, service
<1>4. OwnersInv'
  BY <1>2, NoDialogIs DEF Framed, IInv, OwnersInv
<1>5. SureInv'
  BY <1>2 DEF Framed, IInv, SureInv, NoneDone, service
<1>6. QueueInv'
  BY DEF IInv, QueueInv, NoneDone, Newest, Current, Open, service
<1> QED
  BY <1>1, <1>3, <1>4, <1>5, <1>6 DEF IInv

LEMMA EditKeeps ==
    ASSUME IInv, Edit
    PROVE  IInv'
<1>1. dialog \in Dialogs /\ Fits(dialog)
  BY DEF Edit, IInv, Types
<1> QED
  BY <1>1, EditFrames, FramedKeeps DEF Edit

LEMMA AnswerDialogKeeps ==
    ASSUME IInv, AnswerDialog
    PROVE  IInv'
<1>1. PICK ok \in BOOLEAN :
          /\ Outcome(ok)
          /\ \/ AnswerAccounts(ok) \/ AnswerSettings(ok) \/ AnswerClients(ok)
             \/ \E a \in Accounts : AnswerCurrencies(a, ok)
  BY DEF AnswerDialog
<1>2. dialog # NoDialog
  BY <1>1, NoDialogIs DEF AnswerAccounts, AnswerSettings, AnswerClients, AnswerCurrencies
<1>3. dialog \in Dialogs /\ Fits(dialog) /\ partial \in BOOLEAN
  BY <1>2 DEF IInv, Types
<1>4. Framed(dialog, dialog')
  BY <1>1, <1>3, ToldFrames
<1>5. Act \/ acts' = acts
  BY <1>1 DEF Outcome
<1> QED
  BY <1>2, <1>4, <1>5, FramedKeeps DEF AnswerDialog

\* At rest with no doubt the list is current.
LEMMA RestIsCurrent ==
    ASSUME QueueInv, AtRest, ~doubt
    PROVE  Current(list)
BY NoDialogIs DEF QueueInv, AtRest, NoneDone

LEMMA OpenDialogKeeps ==
    ASSUME IInv, OpenDialog
    PROVE  IInv'
<1>0. /\ UNCHANGED <<item, annulled, partial, others, list, fetches, request, doubt>>
      /\ dialog = NoDialog
  BY DEF OpenDialog, service
<1>a. /\ doubt \in BOOLEAN /\ list \in Lists
      /\ \A i \in DOMAIN list : i \in Items /\ list[i] \in Rows /\ HasRow(i)
                                /\ list[i].status = "ABIERTO"
  BY DEF IInv, Types, RowsInv, Lists
<1>1. \/ dialog' = OpeningDialog
      \/ \E i \in DOMAIN list :
            dialog' = CancelDialog(i) \/ \E mode \in {"REAL_EXECUTION", "COMPENSATED"} :
                                            dialog' = ResolveDialog(i, mode)
  BY DEF OpenDialog
<1>2. /\ dialog' \in Dialogs /\ ~dialog'.sending /\ Fits(dialog')
      /\ OfItem(dialog') =>
            /\ dialog'.item \in DOMAIN list /\ dialog'.shown = list[dialog'.item]
            /\ dialog'.sure <=> AtRest /\ ~doubt
  <2>1. CASE dialog' = OpeningDialog
    BY <2>1, OpeningFitsFirst DEF OfItem
  <2>2. ASSUME NEW i \in DOMAIN list,
               dialog' = CancelDialog(i) \/ \E mode \in {"REAL_EXECUTION", "COMPENSATED"} :
                                               dialog' = ResolveDialog(i, mode)
        PROVE  /\ dialog' \in Dialogs /\ ~dialog'.sending /\ Fits(dialog')
               /\ dialog'.item = i /\ dialog'.shown = list[i]
               /\ dialog'.sure <=> AtRest /\ ~doubt
    <3>1. i \in Items /\ list[i] \in Rows /\ list[i].status = "ABIERTO"
      BY <1>a
    <3>2. PICK d : d = dialog'
      OBVIOUS
    <3> QED
      BY <1>a, <2>2, <3>1, <3>2, OpenedFits
  <2> QED
    BY <1>1, <2>1, <2>2
<1>3. dialog' # NoDialog
  BY <1>2, NoDialogIs
<1>4. Types'
  BY <1>0, <1>2, <1>3, ActBound DEF OpenDialog, IInv, Types
<1>5. RowsInv'
  BY <1>0, <1>2, <1>a DEF IInv, RowsInv, HasRow
<1>6. \A s \in Slots : request[s].owner # "dialog"
  BY <1>0, NoDialogIs DEF IInv, OwnersInv
<1>7. OwnersInv'
  BY <1>0, <1>6 DEF OwnersInv
<1>8. SureInv'
  <2>1. SUFFICES ASSUME OfItem(dialog'), dialog'.sure
                 PROVE  /\ \A s \in Slots : request[s] = NoRequest
                        /\ dialog'.item \notin others => item[dialog'.item] = dialog'.shown
    BY <1>0 DEF SureInv
  <2>2. AtRest /\ Current(list) /\ dialog'.item \in DOMAIN list /\ dialog'.item \in Items
    BY <1>2, <1>a, <2>1, RestIsCurrent DEF IInv
  <2> QED
    BY <1>2, <2>1, <2>2 DEF AtRest, Current
<1>9. QueueInv'
  BY <1>0 DEF IInv, QueueInv, NoneDone, Newest, Current, Open
<1> QED
  BY <1>4, <1>5, <1>7, <1>8, <1>9 DEF IInv

\* A request that nobody's dialog waits for any more is the same request.
LEMMA ReleasedIs ==
    ASSUME NEW q \in Sent, NEW owner \in {"page", "nobody"}, NEW p, p = [q EXCEPT !.owner = owner]
    PROVE  /\ p \in Sent /\ p # NoRequest /\ p.state = q.state /\ p.body = q.body
           /\ p.owner = owner
BY NoDialogIs DEF Sent

LEMMA LeftIs ==
    ASSUME request \in [Slots -> {NoRequest} \cup Sent], NEW s \in Slots
    PROVE  /\ Left("page") \in [Slots -> {NoRequest} \cup Sent]
           /\ Left("page")[s] = NoRequest <=> request[s] = NoRequest
           /\ Left("page")[s].state = request[s].state
           /\ request[s] # NoRequest => Left("page")[s].body = request[s].body
           /\ Left("page")[s].owner # "dialog"
<1>1. ASSUME NEW t \in Slots
      PROVE  /\ Left("page")[t] \in {NoRequest} \cup Sent
             /\ Left("page")[t] = NoRequest <=> request[t] = NoRequest
             /\ Left("page")[t].state = request[t].state
             /\ request[t] # NoRequest => Left("page")[t].body = request[t].body
             /\ Left("page")[t].owner # "dialog"
  <2>1. CASE request[t].owner = "dialog"
    <3>1. request[t] \in Sent /\ request[t] # NoRequest
      BY <2>1, NoDialogIs
    <3>2. Left("page")[t] = [request[t] EXCEPT !.owner = "page"]
      BY <2>1 DEF Left
    <3> QED
      BY <3>1, <3>2, ReleasedIs
  <2>2. CASE request[t].owner # "dialog"
    BY <2>2 DEF Left
  <2> QED
    BY <2>1, <2>2
<1> QED
  BY <1>1 DEF Left

\* The dialog is gone, and with it whatever only concerned it.
LEMMA CloseKeeps ==
    ASSUME IInv, Close
    PROVE  IInv'
<1>0. /\ UNCHANGED <<item, annulled, partial, others, list, fetches, doubt>>
      /\ dialog' = NoDialog /\ request' = Left("page") /\ Act
  BY DEF Close, service
<1>a. request \in [Slots -> {NoRequest} \cup Sent]
  BY DEF IInv, Types
<1>1. /\ request' \in [Slots -> {NoRequest} \cup Sent]
      /\ \A s \in Slots :
            /\ request'[s] = NoRequest <=> request[s] = NoRequest
            /\ request'[s].state = request[s].state
            /\ request[s] # NoRequest => request'[s].body = request[s].body
            /\ request'[s].owner # "dialog"
  BY <1>0, <1>a, LeftIs DEF Left
<1>2. Types'
  BY <1>0, <1>1, ActBound DEF IInv, Types
<1>3. RowsInv'
  BY <1>0, <1>1, NoDialogIs DEF IInv, RowsInv, HasRow, OfItem
<1>4. OwnersInv' /\ SureInv'
  BY <1>0, <1>1, NoDialogIs DEF OwnersInv, SureInv, OfItem
<1>5. QueueInv'
  BY <1>0, <1>1 DEF IInv, QueueInv, NoneDone, Newest, Current, Open
<1> QED
  BY <1>2, <1>3, <1>4, <1>5 DEF IInv

\* The dialog sends itself as it is.
LEMMA SubmitKeeps ==
    ASSUME IInv, Submit
    PROVE  IInv'
<1>0. /\ UNCHANGED <<item, annulled, partial, others, list, fetches, doubt>>
      /\ dialog \in Dialogs /\ ~dialog.sending /\ Submits(dialog) /\ Fits(dialog) /\ Act
  BY DEF Submit, service, IInv, Types, MaySend
<1>1. PICK s, q :
          /\ s \in Slots /\ request[s] = NoRequest /\ request' = [request EXCEPT ![s] = q]
          /\ q = [state |-> "sent", owner |-> "dialog", body |-> dialog]
  BY DEF Submit
<1>2. q \in Sent /\ q # NoRequest
  BY <1>0, <1>1, NoDialogIs DEF Sent
<1>3. dialog' = [dialog EXCEPT !.sending = TRUE]
  BY DEF Submit
<1>4. /\ dialog' \in Dialogs /\ dialog'.sending /\ dialog'.kind = dialog.kind
      /\ dialog'.again = dialog.again /\ Fits(dialog') /\ (OfItem(dialog)' <=> OfItem(dialog))
      /\ OfItem(dialog) => /\ dialog'.item = dialog.item /\ dialog'.shown = dialog.shown
                           /\ dialog'.sure = dialog.sure
  <2>1. CASE dialog \in ResolveDialogs
    <3>1. dialog.kind = "resolve" /\ ResolveFits(dialog)
      BY <1>0, <2>1, KindIs DEF Fits
    <3> QED
      BY <1>3, <2>1, <3>1 DEF ResolveDialogs, Dialogs, Fits, ResolveFits, OfItem
  <2>2. CASE dialog \in CancelDialogs
    BY <1>3, <2>2 DEF CancelDialogs, Dialogs, Fits, OfItem
  <2>3. CASE dialog \in OpeningDialogs
    <3>1. dialog.kind = "opening" /\ OpeningFits(dialog)
      BY <1>0, <2>3, KindIs DEF Fits
    <3>2. /\ dialog' \in OpeningDialogs /\ dialog'.sending /\ dialog'.kind = dialog.kind
          /\ dialog'.again = dialog.again /\ dialog'.leg = dialog.leg
      BY <1>3, <2>3 DEF OpeningDialogs
    <3> QED
      BY <3>1, <3>2 DEF Dialogs, Fits, OpeningFits, OfItem
  <2> QED
    BY <1>0, <2>1, <2>2, <2>3 DEF Dialogs
<1>5. dialog' # NoDialog /\ dialog # NoDialog
  BY <1>0, <1>4, NoDialogIs
<1>6. /\ request' \in [Slots -> {NoRequest} \cup Sent] /\ request'[s] = q
      /\ \A t \in Slots \ {s} : request'[t] = request[t]
  BY <1>1, <1>2 DEF IInv, Types
<1>7. q.state = "sent" /\ q.owner = "dialog" /\ q.body = dialog
  BY <1>1
<1>8. Types'
  BY <1>0, <1>4, <1>5, <1>6, <1>7, ActBound DEF IInv, Types
<1>9. RowsInv'
  BY <1>0, <1>1, <1>4, <1>6, <1>7 DEF IInv, RowsInv, HasRow
<1>10. \A t \in Slots : request[t].owner # "dialog"
  BY <1>0 DEF IInv, OwnersInv
<1>11. OwnersInv'
  BY <1>4, <1>5, <1>6, <1>7, <1>10 DEF OwnersInv
<1>12. NoneDone <=> NoneDone'
  BY <1>1, <1>6, <1>7, NoDialogIs DEF NoneDone
<1>13. SureInv'
  BY <1>0, <1>4, <1>6, <1>7, <1>12 DEF IInv, SureInv
<1>14. QueueInv'
  BY <1>0, <1>12 DEF IInv, QueueInv, Newest, Current, Open
<1> QED
  BY <1>8, <1>9, <1>11, <1>13, <1>14 DEF IInv

\* One list asked for and nothing shown.
LEMMA FirstFetch ==
    /\ <<Unread>> \in Seq(Fetches) /\ Len(<<Unread>>) = 1 /\ <<Unread>> # <<>>
    /\ DOMAIN <<Unread>> = {1} /\ <<Unread>>[1] = Unread
    /\ ~Unread.read /\ ~Unread.late /\ Unread \in Fetches
    /\ <<>> \in Lists /\ DOMAIN <<>> = {}
<1>1. Unread \in Fetches /\ ~Unread.read /\ ~Unread.late
  BY DEF Unread, Fetches
<1>2. <<>> \in Lists /\ DOMAIN <<>> = {}
  <2>1. <<>> \in [{} -> Rows] /\ {} \in SUBSET Items
    OBVIOUS
  <2> QED
    BY <2>1 DEF Lists
<1> QED
  BY <1>1, <1>2

LEMMA ReturnKeeps ==
    ASSUME IInv, Return
    PROVE  IInv'
<1>0. /\ UNCHANGED <<item, annulled, partial, others>> /\ Act
      /\ list' = <<>> /\ fetches' = <<Unread>> /\ dialog' = NoDialog /\ doubt' = FALSE
  BY DEF Return, service
<1>1. /\ request' \in [Slots -> {NoRequest} \cup Sent]
      /\ \A s \in Slots :
            /\ request'[s] = NoRequest <=> request[s] = NoRequest
            /\ request[s] # NoRequest => request'[s].body = request[s].body
            /\ request'[s].owner # "dialog"
  <2>1. ASSUME NEW s \in Slots
        PROVE  /\ request'[s] \in {NoRequest} \cup Sent
               /\ request'[s] = NoRequest <=> request[s] = NoRequest
               /\ request[s] # NoRequest => request'[s].body = request[s].body
               /\ request'[s].owner # "dialog"
    <3>1. CASE request[s] = NoRequest
      BY <3>1, NoDialogIs DEF Return
    <3>2. CASE request[s] # NoRequest
      <4>1. request[s] \in Sent /\ request'[s] = [request[s] EXCEPT !.owner = "nobody"]
        BY <3>2 DEF Return, IInv, Types
      <4> QED
        BY <3>2, <4>1, ReleasedIs
    <3> QED
      BY <3>1, <3>2
  <2> QED
    BY <2>1 DEF Return
<1>2. Types'
  <2>1. Len(fetches') <= MaxLists
    BY <1>0, FirstFetch, PendingPageAssumption
  <2> QED
    BY <1>0, <1>1, <2>1, FirstFetch, ActBound DEF IInv, Types
<1>3. RowsInv'
  BY <1>0, <1>1, NoDialogIs, FirstFetch DEF IInv, RowsInv, HasRow, OfItem
<1>4. OwnersInv' /\ SureInv'
  BY <1>0, <1>1, NoDialogIs DEF OwnersInv, SureInv, OfItem
<1>5. QueueInv'
  BY <1>0, FirstFetch DEF QueueInv, Newest
<1> QED
  BY <1>2, <1>3, <1>4, <1>5 DEF IInv

-----------------------------------------------------------------------------
(* The service and the other users                                         *)

\* What an item may become: it keeps its row, and opens only as a new one.
Becomes(i, p) ==
    /\ p \in Rows /\ p.status # "NO_ROW"
    /\ p.status = "ABIERTO" => item[i].status \in {"ABIERTO", "NO_ROW"}

\* One item changes.
LEMMA ItemChanges ==
    ASSUME Types, RowsInv, NEW i \in Items, NEW p, Becomes(i, p), item' = [item EXCEPT ![i] = p],
           UNCHANGED annulled
    PROVE  /\ item' \in [Items -> Rows]
           /\ \A j \in Items : HasRow(j) => HasRow(j)'
           /\ \A j \in Items : ~HasRow(j)' => Start[j].status = "NO_ROW"
           /\ \A j \in Items : item'[j].status \in {"NO_ROW", "ABIERTO"} => Movement[j] \notin annulled'
<1>1. /\ item' \in [Items -> Rows] /\ item'[i] = p
      /\ \A j \in Items \ {i} : item'[j] = item[j]
  BY DEF Types, Becomes
<1> QED
  BY <1>1 DEF RowsInv, HasRow, Becomes

LEMMA ResolvedBecomes ==
    ASSUME Types, NEW d \in ResolveDialogs, ResolveAccepts(d)
    PROVE  Becomes(d.item, Resolved(item[d.item], d))
<1>1. PICK p \in Rows : p = item[d.item]
  BY DEF ResolveDialogs, Types
<1>2. p.status = "ABIERTO" /\ d.amount \in Nat /\ d.amount >= 1 /\ d.amount <= p.amount
      /\ p.amount \in Nat
  BY <1>1 DEF ResolveAccepts, ResolveDialogs, Rows
<1>3. CASE d.amount < p.amount
  <2>1. PICK x : x = p.amount - d.amount
    OBVIOUS
  <2>2. x \in Nat \ {0}
    BY <1>2, <1>3, <2>1
  <2>3. Resolved(p, d) = [p EXCEPT !.amount = x]
    BY <1>3, <2>1 DEF Resolved
  <2> QED
    BY <1>1, <1>2, <2>2, <2>3 DEF Becomes, Rows
<1>4. CASE ~(d.amount < p.amount)
  <2>1. Resolved(p, d) = [p EXCEPT !.status = "RESUELTO"]
    BY <1>4 DEF Resolved
  <2> QED
    BY <1>1, <2>1 DEF Becomes, Rows
<1> QED
  BY <1>3, <1>4

\* An annulment reaches every item of the movement that has a row, and an item
\* without one has another movement.
LEMMA AnnulmentIs ==
    ASSUME Types, RowsInv, NEW i \in Items, HasRow(i), Annulment(i)
    PROVE  /\ item' \in [Items -> Rows]
           /\ \A j \in Items : HasRow(j) => HasRow(j)'
           /\ \A j \in Items : ~HasRow(j)' => Start[j].status = "NO_ROW"
           /\ \A j \in Items : item'[j].status \in {"NO_ROW", "ABIERTO"} => Movement[j] \notin annulled'
<1>1. ASSUME NEW j \in Items
      PROVE  /\ item'[j] \in Rows
             /\ HasRow(j) <=> item'[j].status # "NO_ROW"
             /\ item'[j].status \in {"NO_ROW", "ABIERTO"} =>
                   item'[j] = item[j] /\ (HasRow(j) => Movement[j] # Movement[i])
  <2>1. item[j] \in Rows
    BY DEF Types
  <2>2. CASE HasRow(j) /\ Movement[j] = Movement[i]
    <3>1. item'[j] = [item[j] EXCEPT !.status = "CANCELADO"]
      BY <2>2 DEF Annulment, HasRow
    <3> QED
      BY <2>1, <2>2, <3>1 DEF Rows
  <2>3. CASE ~(HasRow(j) /\ Movement[j] = Movement[i])
    <3>1. item'[j] = item[j]
      BY <2>3 DEF Annulment, HasRow
    <3> QED
      BY <2>1, <2>3, <3>1 DEF HasRow
  <2> QED
    BY <2>2, <2>3
<1>2. item' \in [Items -> Rows]
  BY <1>1 DEF Annulment
<1>3. ASSUME NEW j \in Items, ~HasRow(j)
      PROVE  Start[j].status = "NO_ROW" /\ Movement[j] # Movement[i]
  <2>1. Start[j].status = "NO_ROW" /\ j # i
    BY <1>3 DEF RowsInv
  <2> QED
    BY <2>1, PendingPageAssumption
<1>4. annulled' = annulled \cup {Movement[i]}
  BY DEF Annulment
<1>5. ASSUME NEW j \in Items, item'[j].status \in {"NO_ROW", "ABIERTO"}
      PROVE  Movement[j] \notin annulled'
  <2>1. item[j].status \in {"NO_ROW", "ABIERTO"} /\ Movement[j] # Movement[i]
    BY <1>1, <1>3, <1>5
  <2> QED
    BY <1>4, <2>1 DEF RowsInv
<1> QED
  BY <1>1, <1>2, <1>3, <1>5 DEF HasRow

LEMMA CarriedOutIs ==
    ASSUME Types, RowsInv, NEW d \in Dialogs, Fits(d), Submits(d), Accepts(d), CarriedOut(d),
           OfItem(d) => HasRow(d.item)
    PROVE  /\ item' \in [Items -> Rows]
           /\ \A j \in Items : HasRow(j) => HasRow(j)'
           /\ \A j \in Items : ~HasRow(j)' => Start[j].status = "NO_ROW"
           /\ \A j \in Items : item'[j].status \in {"NO_ROW", "ABIERTO"} => Movement[j] \notin annulled'
<1>1. CASE d.kind = "resolve"
  <2>1. d \in ResolveDialogs /\ d.item \in Items /\ ResolveAccepts(d)
    BY <1>1, KindIs DEF Accepts, OfItem
  <2>2. item' = [item EXCEPT ![d.item] = Resolved(item[d.item], d)] /\ UNCHANGED annulled
    BY <1>1 DEF CarriedOut
  <2> QED
    BY <2>1, <2>2, ResolvedBecomes, ItemChanges
<1>2. CASE d.kind = "opening"
  <2>1. d \in OpeningDialogs /\ d.leg \in Legs /\ d.leg.amount > 0
    BY <1>2, KindIs DEF OpeningDialogs, Submits, OpeningSubmits
  <2>2. PICK i \in Items, cc \in BOOLEAN :
            /\ item[i].status = "NO_ROW"
            /\ item' = [item EXCEPT ![i] = [status |-> "ABIERTO", amount |-> d.leg.amount, cc |-> cc,
                                            account |-> d.leg.account, currency |-> d.leg.currency]]
    BY <1>2 DEF CarriedOut, Registered
  <2>3. PICK p : p = [status |-> "ABIERTO", amount |-> d.leg.amount, cc |-> cc,
                      account |-> d.leg.account, currency |-> d.leg.currency]
    OBVIOUS
  <2>4. Becomes(i, p)
    BY <2>1, <2>2, <2>3 DEF Becomes, Rows, Legs
  <2>5. UNCHANGED annulled
    BY <1>2 DEF CarriedOut
  <2> QED
    BY <2>2, <2>3, <2>4, <2>5, ItemChanges
<1>3. CASE d.kind = "cancel"
  <2>1. d.item \in Items /\ HasRow(d.item) /\ Annulment(d.item)
    BY <1>3, KindIs DEF CarriedOut, OfItem
  <2> QED
    BY <2>1, AnnulmentIs
<1> QED
  BY <1>1, <1>2, <1>3, KindIs

\* The answer of the service.
LEMMA MarkedIs ==
    ASSUME NEW q \in Sent, NEW state \in {"done", "refused"}, NEW p, p = [q EXCEPT !.state = state]
    PROVE  /\ p \in Sent /\ p # NoRequest /\ p.state = state /\ p.body = q.body
           /\ p.owner = q.owner
BY NoDialogIs DEF Sent

LEMMA ServeKeeps ==
    ASSUME IInv, NEW s \in Slots, Serve(s)
    PROVE  IInv'
<1>0. /\ UNCHANGED <<partial, others, list, fetches, dialog, doubt, acts>>
      /\ request[s] \in Sent /\ request[s] # NoRequest /\ request[s].state = "sent"
      /\ Types /\ RowsInv
  BY NoDialogIs DEF Serve, IInv, Types
<1>1. PICK d : d = request[s].body
  OBVIOUS
<1>2. d \in Dialogs /\ Fits(d) /\ Submits(d) /\ (OfItem(d) => HasRow(d.item))
  BY <1>0, <1>1 DEF Types, RowsInv, Sent
<1>3. PICK state \in {"done", "refused"} :
          /\ request' = [request EXCEPT ![s].state = state]
          /\ state = "done" => Accepts(d) /\ CarriedOut(d)
          /\ state = "refused" => UNCHANGED <<item, annulled>>
  BY <1>1 DEF Serve
<1>4. /\ item' \in [Items -> Rows]
      /\ \A j \in Items : HasRow(j) => HasRow(j)'
      /\ \A j \in Items : ~HasRow(j)' => Start[j].status = "NO_ROW"
      /\ \A j \in Items : item'[j].status \in {"NO_ROW", "ABIERTO"} => Movement[j] \notin annulled'
  <2>1. CASE state = "done"
    BY <1>0, <1>2, <1>3, <2>1, CarriedOutIs
  <2>2. CASE state = "refused"
    BY <1>0, <1>3, <2>2 DEF Types, RowsInv, HasRow
  <2> QED
    BY <2>1, <2>2
<1>5. PICK p : p = [request[s] EXCEPT !.state = state]
  OBVIOUS
<1>6. /\ p \in Sent /\ p # NoRequest /\ p.state = state /\ p.body = d
      /\ p.owner = request[s].owner
  BY <1>0, <1>1, <1>5, MarkedIs
<1>7. /\ request' \in [Slots -> {NoRequest} \cup Sent] /\ request'[s] = p
      /\ \A t \in Slots \ {s} : request'[t] = request[t]
  BY <1>0, <1>3, <1>5, <1>6 DEF Types
<1>8. Types'
  BY <1>0, <1>2, <1>4, <1>6, <1>7 DEF Types
<1>9. RowsInv'
  <2>1. list \in Lists /\ \A i \in DOMAIN list : i \in Items
    BY <1>0 DEF Types, Lists
  <2>2. ASSUME NEW k \in DOMAIN fetches, fetches[k].read
        PROVE  \A i \in DOMAIN fetches[k].items : i \in Items
    <3>1. fetches[k] \in Fetches
      BY <1>0, <2>2 DEF Types
    <3> QED
      BY <2>2, <3>1 DEF Fetches, Lists
  <2>3. OfItem(dialog) => dialog.item \in Items
    BY <1>0, KindIs, NoDialogIs DEF Types, OfItem
  <2>4. ASSUME NEW t \in Slots, request[t] # NoRequest, OfItem(request[t].body)
        PROVE  request[t].body.item \in Items
    <3>1. request[t].body \in Dialogs
      BY <1>0, <2>4 DEF Types, Sent
    <3> QED
      BY <2>4, <3>1, KindIs
  <2>5. \A t \in Slots : /\ request'[t] = NoRequest <=> request[t] = NoRequest
                         /\ request[t] # NoRequest => request'[t].body = request[t].body
    BY <1>0, <1>1, <1>6, <1>7
  <2>6. \A i \in DOMAIN list : HasRow(i)' /\ list'[i].status = "ABIERTO"
    BY <1>0, <1>4, <2>1 DEF RowsInv
  <2>7. \A k \in DOMAIN fetches :
            fetches[k].read =>
                \A i \in DOMAIN fetches[k].items :
                    HasRow(i)' /\ fetches[k].items[i].status = "ABIERTO"
    BY <1>0, <1>4, <2>2 DEF RowsInv
  <2>8. (OfItem(dialog) => item'[dialog.item].status # "NO_ROW")
        /\ \A t \in Slots : request[t] # NoRequest /\ OfItem(request[t].body)
                                => item'[request[t].body.item].status # "NO_ROW"
    BY <1>0, <1>4, <2>3, <2>4 DEF RowsInv, HasRow
  <2> QED
    BY <1>0, <1>4, <2>5, <2>6, <2>7, <2>8 DEF RowsInv, HasRow
<1>10. OwnersInv'
  BY <1>0, <1>1, <1>6, <1>7 DEF IInv, OwnersInv
<1>11. CASE state = "done"
  <2>1. ~NoneDone'
    BY <1>6, <1>7, <1>11 DEF NoneDone
  <2>2. SureInv'
    BY <1>0, <1>6, <1>7, <2>1 DEF IInv, SureInv
  <2>3. QueueInv'
    BY <1>0, <2>1 DEF IInv, QueueInv
  <2> QED
    BY <1>8, <1>9, <1>10, <2>2, <2>3 DEF IInv
<1>12. CASE state = "refused"
  <2>1. NoneDone' <=> NoneDone
    BY <1>0, <1>6, <1>7, <1>12 DEF NoneDone
  <2>2. SureInv'
    BY <1>0, <1>3, <1>6, <1>7, <1>12, <2>1 DEF IInv, SureInv
  <2>3. QueueInv'
    BY <1>0, <1>3, <1>12, <2>1 DEF IInv, QueueInv, Newest, Current, Open
  <2> QED
    BY <1>8, <1>9, <1>10, <2>2, <2>3 DEF IInv
<1> QED
  BY <1>11, <1>12

\* Another user changes an item, which is then no concern of what is listed.
LEMMA ElsewhereKeeps ==
    ASSUME IInv, Elsewhere
    PROVE  IInv'
<1>0. /\ UNCHANGED <<annulled, list, fetches, dialog, request, doubt>> /\ Act
      /\ Types /\ RowsInv
  BY DEF Elsewhere, page, IInv
<1>1. CASE partial' = ~partial /\ UNCHANGED <<item, others>>
  <2>1. Types'
    BY <1>0, <1>1, ActBound DEF Types
  <2>2. RowsInv'
    BY <1>0, <1>1 DEF RowsInv, HasRow
  <2>3. OwnersInv' /\ SureInv'
    BY <1>0, <1>1 DEF IInv, OwnersInv, SureInv, NoneDone
  <2>4. QueueInv'
    BY <1>0, <1>1 DEF IInv, QueueInv, NoneDone, Newest, Current, Open
  <2> QED
    BY <2>1, <2>2, <2>3, <2>4 DEF IInv
<1>2. ASSUME NEW i \in Open, NEW p \in Changed(item[i]), item' = [item EXCEPT ![i] = p],
             others' = others \cup {i}, UNCHANGED partial
      PROVE  IInv'
  <2>1. i \in Items /\ item[i] \in Rows /\ item[i].status = "ABIERTO"
    BY <1>0 DEF Open, Types
  <2>2. p \in Rows /\ p.status \in {"RESUELTO", "ABIERTO"}
    <3>1. CASE p = [item[i] EXCEPT !.status = "RESUELTO"]
      BY <2>1, <3>1 DEF Rows
    <3>2. CASE p = [item[i] EXCEPT !.cc = ~@]
      <4>1. PICK b \in BOOLEAN : b = ~item[i].cc
        OBVIOUS
      <4>2. p = [item[i] EXCEPT !.cc = b]
        BY <3>2, <4>1
      <4> QED
        BY <2>1, <4>2 DEF Rows
    <3>3. ASSUME NEW x \in 1..(item[i].amount - 1), p = [item[i] EXCEPT !.amount = x]
          PROVE  p \in Rows /\ p.status \in {"RESUELTO", "ABIERTO"}
      <4>1. x \in Nat \ {0}
        BY <2>1 DEF Rows
      <4> QED
        BY <2>1, <3>3, <4>1 DEF Rows
    <3> QED
      BY <3>1, <3>2, <3>3 DEF Changed
  <2>3. Becomes(i, p)
    BY <2>1, <2>2 DEF Becomes
  <2>4. /\ item' \in [Items -> Rows]
        /\ \A j \in Items : HasRow(j) => HasRow(j)'
        /\ \A j \in Items : ~HasRow(j)' => Start[j].status = "NO_ROW"
        /\ \A j \in Items : item'[j].status \in {"NO_ROW", "ABIERTO"} => Movement[j] \notin annulled'
    BY <1>0, <1>2, <2>1, <2>3, ItemChanges
  <2>5. \A j \in Items : HasRow(j)' <=> HasRow(j)
    BY <1>2, <2>1, <2>2 DEF HasRow
  <2>6. Types'
    BY <1>0, <1>2, <2>4, ActBound DEF Types
  <2>7. RowsInv'
    <3>1. \A j : HasRow(j) => HasRow(j)'
      BY <1>0, <1>2, <2>1, <2>2 DEF HasRow, Types
    <3> QED
      BY <1>0, <2>4, <3>1 DEF RowsInv
  <2>8. OwnersInv'
    BY <1>0 DEF IInv, OwnersInv
  <2>9. \A j \in Items \ others' : item'[j] = item[j] /\ j \notin others
    BY <1>2, <2>1 DEF Types
  <2>10. \A rows : Current(rows) => Current(rows)'
    BY <2>9 DEF Current, Open
  <2>11. SureInv'
    <3>1. OfItem(dialog) => dialog.item \in Items
      BY <1>0, KindIs, NoDialogIs DEF Types, OfItem
    <3> QED
      BY <1>0, <2>9, <3>1 DEF IInv, SureInv, NoneDone
  <2>12. QueueInv'
    BY <1>0, <2>10 DEF IInv, QueueInv, NoneDone, Newest
  <2> QED
    BY <2>6, <2>7, <2>8, <2>11, <2>12 DEF IInv
<1> QED
  BY <1>1, <1>2 DEF Elsewhere

-----------------------------------------------------------------------------
(* Answers and lists                                                       *)

\* A list that is marked late is the same list.
LEMMA LateFetch ==
    ASSUME NEW f \in Fetches, NEW g, g = [f EXCEPT !.late = TRUE]
    PROVE  g \in Fetches /\ g.late /\ g.read = f.read /\ (f.read => g.items = f.items)
BY DEF Fetches

LEMMA LateIs ==
    ASSUME NEW q \in Seq(Fetches)
    PROVE  /\ Late(q) \in Seq(Fetches) /\ Len(Late(q)) = Len(q) /\ DOMAIN Late(q) = DOMAIN q
           /\ \A k \in DOMAIN q : /\ Late(q)[k].late /\ Late(q)[k].read = q[k].read
                                  /\ q[k].read => Late(q)[k].items = q[k].items
<1>1. \A k \in DOMAIN q : Late(q)[k] = [q[k] EXCEPT !.late = TRUE] /\ q[k] \in Fetches
  BY DEF Late
<1>2. \A k \in DOMAIN q : Late(q)[k] \in Fetches
  BY <1>1, LateFetch
<1>3. DOMAIN Late(q) = 1..Len(q) /\ Len(q) \in Nat
  BY DEF Late
<1>4. Late(q) \in [1..Len(q) -> Fetches]
  BY <1>2, <1>3 DEF Late
<1>5. Late(q) \in Seq(Fetches) /\ Len(Late(q)) = Len(q)
  BY <1>3, <1>4
<1>6. ASSUME NEW k \in DOMAIN q
      PROVE  /\ Late(q)[k].late /\ Late(q)[k].read = q[k].read
             /\ q[k].read => Late(q)[k].items = q[k].items
  <2>1. PICK f, g : f = q[k] /\ g = Late(q)[k]
    OBVIOUS
  <2>2. f \in Fetches /\ g = [f EXCEPT !.late = TRUE]
    BY <1>1, <2>1
  <2>3. g.late /\ g.read = f.read /\ (f.read => g.items = f.items)
    BY <2>2, LateFetch
  <2> QED
    BY <2>1, <2>3
<1>7. DOMAIN Late(q) = DOMAIN q
  BY DEF Late
<1> QED
  BY <1>5, <1>6, <1>7

\* The list asked for last is the only one that is not as it was.
LEMMA AskedIs ==
    ASSUME NEW q \in Seq(Fetches)
    PROVE  /\ AskedAgain(q) \in Seq(Fetches) /\ Len(AskedAgain(q)) = Len(q) + 1
           /\ AskedAgain(q) # <<>> /\ AskedAgain(q)[Len(q) + 1] = Unread
           /\ DOMAIN AskedAgain(q) = DOMAIN q \cup {Len(q) + 1}
           /\ \A k \in DOMAIN q : AskedAgain(q)[k] = q[k] /\ k <= Len(q) /\ k \in Nat
<1>1. Unread \in Fetches
  BY FirstFetch
<1> QED
  BY <1>1 DEF AskedAgain

LEMMA AnswerDoneKeeps ==
    ASSUME IInv, NEW s \in Slots, AnswerDone(s)
    PROVE  IInv'
<1>0. /\ UNCHANGED <<item, annulled, partial, others, list, doubt, acts>>
      /\ request[s].state = "done" /\ request[s] # NoRequest /\ Types /\ RowsInv
      /\ Len(fetches) < MaxLists /\ fetches' = AskedAgain(fetches) /\ fetches \in Seq(Fetches)
  BY NoDialogIs DEF AnswerDone, service, IInv, Types
<1>1. PICK q : /\ q = request \/ q = Left("page")
               /\ request' = [q EXCEPT ![s] = NoRequest]
               /\ \/ q = Left("page") /\ dialog' = NoDialog
                  \/ q = request /\ dialog' = dialog /\ dialog.kind # request[s].body.kind
  BY DEF AnswerDone
<1>2. /\ q \in [Slots -> {NoRequest} \cup Sent]
      /\ \A t \in Slots : /\ q[t] = NoRequest <=> request[t] = NoRequest
                          /\ q[t].state = request[t].state
                          /\ request[t] # NoRequest => q[t].body = request[t].body
                          /\ q[t].owner = "dialog" => q = request
  BY <1>0, <1>1, LeftIs DEF Types
<1>3. /\ request' \in [Slots -> {NoRequest} \cup Sent] /\ request'[s] = NoRequest
      /\ \A t \in Slots \ {s} : request'[t] = q[t]
  BY <1>1, <1>2
<1>4. /\ fetches' \in Seq(Fetches) /\ Len(fetches') = Len(fetches) + 1 /\ fetches' # <<>>
      /\ fetches'[Len(fetches) + 1] = Unread
      /\ DOMAIN fetches' = DOMAIN fetches \cup {Len(fetches) + 1}
      /\ \A k \in DOMAIN fetches : fetches'[k] = fetches[k] /\ k <= Len(fetches) /\ k \in Nat
  BY <1>0, AskedIs
<1>5. Types'
  <2>1. Len(fetches') <= MaxLists
    BY <1>0, <1>4, PendingPageAssumption
  <2>2. \A t \in Slots : request'[t] # NoRequest => Fits(request'[t].body) /\ Submits(request'[t].body)
    BY <1>0, <1>2, <1>3 DEF Types
  <2> QED
    BY <1>0, <1>1, <1>3, <1>4, <2>1, <2>2 DEF Types
<1>6. RowsInv'
  <2>1. \A k \in DOMAIN fetches' :
            fetches'[k].read => k \in DOMAIN fetches /\ fetches'[k] = fetches[k]
    BY <1>4, FirstFetch
  <2>2. OfItem(dialog)' => OfItem(dialog) /\ dialog' = dialog
    BY <1>1, NoDialogIs DEF OfItem
  <2> QED
    BY <1>0, <1>2, <1>3, <2>1, <2>2 DEF RowsInv, HasRow
<1>7. request[s].owner = "dialog" => dialog' = NoDialog
  BY <1>1 DEF IInv, OwnersInv
<1>8. OwnersInv'
  <2>1. CASE q = Left("page")
    <3>1. \A t \in Slots : request'[t].owner # "dialog"
      BY <1>0, <1>3, <2>1, LeftIs, NoDialogIs DEF Types
    <3> QED
      BY <3>1 DEF OwnersInv
  <2>2. CASE q = request /\ dialog' = dialog
    <3>1. \A t \in Slots : request'[t].owner = "dialog" =>
              request'[t] = request[t] /\ request[t].owner = "dialog"
      BY <1>3, <2>2, NoDialogIs
    <3> QED
      BY <2>2, <3>1 DEF IInv, OwnersInv
  <2> QED
    BY <1>1, <2>1, <2>2
<1>9. SureInv'
  <2>1. CASE dialog' = NoDialog
    BY <2>1, NoDialogIs DEF SureInv, OfItem
  <2>2. CASE dialog' = dialog /\ dialog' # NoDialog
    BY <1>0, <1>7, <2>2 DEF IInv, SureInv
  <2> QED
    BY <1>1, <2>1, <2>2
<1>10. QueueInv'
  <2>1. Newest' = Unread
    BY <1>4 DEF Newest
  <2>2. \A j, k \in DOMAIN fetches' : j < k /\ fetches'[k].late => fetches'[j].late
    <3>1. SUFFICES ASSUME NEW j \in DOMAIN fetches', NEW k \in DOMAIN fetches', j < k, fetches'[k].late
                   PROVE  fetches'[j].late
      OBVIOUS
    <3>2. k \in DOMAIN fetches /\ j \in DOMAIN fetches
      BY <1>0, <1>4, <3>1, FirstFetch
    <3> QED
      BY <1>4, <3>1, <3>2 DEF IInv, QueueInv
  <2> QED
    BY <1>4, <2>1, <2>2, FirstFetch DEF QueueInv
<1> QED
  BY <1>5, <1>6, <1>8, <1>9, <1>10 DEF IInv

\* The dialog that hears of an error, or of nothing.
Answered(d, b) == [d EXCEPT !.sending = FALSE, !.again = b]

LEMMA ToldOfError ==
    ASSUME NEW d \in Dialogs, Fits(d), NEW b \in BOOLEAN, NEW e, e = Answered(d, b)
    PROVE  /\ e \in Dialogs /\ e # NoDialog /\ e.kind = d.kind /\ Fits(e) /\ e.again = b
           /\ OfItem(d) => e.item = d.item /\ e.shown = d.shown /\ e.sure = d.sure
<1>1. CASE d \in ResolveDialogs
  <2>1. d.kind = "resolve" /\ ResolveFits(d)
    BY <1>1, KindIs DEF Fits
  <2>2. /\ e \in ResolveDialogs /\ e.kind = d.kind /\ e.item = d.item /\ e.shown = d.shown
        /\ e.sure = d.sure /\ e.account = d.account /\ e.chosen = d.chosen /\ e.again = b
    BY <1>1 DEF ResolveDialogs, Answered
  <2> QED
    BY <2>1, <2>2, NoDialogIs DEF Dialogs, Fits, ResolveFits
<1>2. CASE d \in CancelDialogs
  <2>1. /\ e \in CancelDialogs /\ e.kind = d.kind /\ e.item = d.item /\ e.shown = d.shown
        /\ e.sure = d.sure /\ e.again = b /\ e.kind = "cancel"
    BY <1>2 DEF CancelDialogs, Answered
  <2> QED
    BY <2>1, NoDialogIs DEF Dialogs, Fits
<1>3. CASE d \in OpeningDialogs
  <2>1. d.kind = "opening" /\ OpeningFits(d)
    BY <1>3, KindIs DEF Fits
  <2>2. e \in OpeningDialogs /\ e.kind = d.kind /\ e.leg = d.leg /\ e.again = b
    BY <1>3 DEF OpeningDialogs, Answered
  <2> QED
    BY <2>1, <2>2, NoDialogIs DEF Dialogs, Fits, OpeningFits, OfItem
<1> QED
  BY <1>1, <1>2, <1>3 DEF Dialogs

LEMMA AnswerErrorKeeps ==
    ASSUME IInv, NEW s \in Slots, AnswerError(s)
    PROVE  IInv'
<1>0. /\ UNCHANGED <<item, annulled, partial, others, list>> /\ (Act \/ acts' = acts)
      /\ request[s] # NoRequest /\ request[s] \in Sent /\ Types /\ RowsInv
      /\ \/ request' = [request EXCEPT ![s] = NoRequest]
         \/ request[s].state = "sent" /\ request' = [request EXCEPT ![s].owner = "nobody"]
      /\ fetches \in Seq(Fetches)
  BY DEF AnswerError, Outcome, service, IInv, Types
<1>1. /\ request' \in [Slots -> {NoRequest} \cup Sent]
      /\ request'[s].owner # "dialog" /\ request'[s].state # "done"
      /\ request'[s] # NoRequest => request'[s].body = request[s].body
      /\ \A t \in Slots \ {s} : request'[t] = request[t]
  <2>1. CASE request' = [request EXCEPT ![s] = NoRequest]
    BY <1>0, <2>1, NoDialogIs DEF Types
  <2>2. CASE request[s].state = "sent" /\ request' = [request EXCEPT ![s].owner = "nobody"]
    <3>1. PICK p : p = [request[s] EXCEPT !.owner = "nobody"]
      OBVIOUS
    <3>2. p \in Sent /\ p.owner = "nobody" /\ p.state = "sent" /\ p.body = request[s].body
      BY <1>0, <2>2, <3>1 DEF Sent
    <3>3. request' = [request EXCEPT ![s] = p]
      BY <2>2, <3>1
    <3> QED
      BY <1>0, <3>2, <3>3 DEF Types
  <2> QED
    BY <1>0, <2>1, <2>2
<1>2. /\ dialog' \in {NoDialog} \cup Dialogs
      /\ dialog' # NoDialog => Fits(dialog')
      /\ OfItem(dialog)' <=> OfItem(dialog)
      /\ OfItem(dialog) => /\ dialog'.item = dialog.item /\ dialog'.shown = dialog.shown
                           /\ dialog'.sure = dialog.sure
      /\ \/ request[s].owner # "dialog" /\ dialog' = dialog
         \/ /\ request[s].owner = "dialog"
            /\ dialog'.again = (dialog.again \/ request[s].state # "refused")
  <2>1. CASE request[s].owner # "dialog"
    BY <1>0, <2>1 DEF AnswerError, Types
  <2>2. CASE request[s].owner = "dialog"
    <3>1. dialog \in Dialogs /\ Fits(dialog)
      BY <1>0, <2>2 DEF IInv, OwnersInv, Types
    <3>2. PICK b : b = (dialog.again \/ request[s].state # "refused") /\ b \in BOOLEAN
      OBVIOUS
    <3>3. dialog' = [dialog EXCEPT !.sending = FALSE, !.again = b]
      BY <2>2, <3>2 DEF AnswerError
    <3>4. PICK d, e : d = dialog /\ e = dialog'
      OBVIOUS
    <3>5. d \in Dialogs /\ Fits(d) /\ b \in BOOLEAN /\ e = Answered(d, b)
      BY <3>1, <3>2, <3>3, <3>4 DEF Answered
    <3>6. /\ e \in Dialogs /\ e # NoDialog /\ e.kind = d.kind /\ Fits(e) /\ e.again = b
          /\ OfItem(d) => e.item = d.item /\ e.shown = d.shown /\ e.sure = d.sure
      BY <3>5, ToldOfError
    <3> QED
      BY <2>2, <3>2, <3>4, <3>6 DEF OfItem
  <2> QED
    BY <2>1, <2>2
<1>3. /\ doubt' \in BOOLEAN /\ fetches' \in Seq(Fetches) /\ Len(fetches') = Len(fetches)
      /\ DOMAIN fetches' = DOMAIN fetches
      /\ \A k \in DOMAIN fetches : /\ fetches'[k].read = fetches[k].read
                                   /\ fetches[k].read => fetches'[k].items = fetches[k].items
      /\ \/ request[s].state = "done" /\ doubt' /\ \A k \in DOMAIN fetches' : fetches'[k].late
         \/ request[s].state # "done" /\ UNCHANGED <<doubt, fetches>>
  <2>1. CASE request[s].state = "done"
    <3>1. doubt' = TRUE /\ fetches' = Late(fetches)
      BY <2>1 DEF AnswerError
    <3>2. PICK n : n = Late(fetches)
      OBVIOUS
    <3>3. /\ n \in Seq(Fetches) /\ Len(n) = Len(fetches) /\ DOMAIN n = DOMAIN fetches
          /\ \A k \in DOMAIN fetches : /\ n[k].late /\ n[k].read = fetches[k].read
                                       /\ fetches[k].read => n[k].items = fetches[k].items
      BY <1>0, <3>2, LateIs
    <3> QED
      BY <2>1, <3>1, <3>2, <3>3
  <2>2. CASE request[s].state # "done"
    BY <1>0, <2>2 DEF AnswerError, Types
  <2> QED
    BY <2>1, <2>2
<1>4. Types'
  <2>1. \A t \in Slots : request'[t] # NoRequest => Fits(request'[t].body) /\ Submits(request'[t].body)
    BY <1>0, <1>1 DEF Types
  <2> QED
    BY <1>0, <1>1, <1>2, <1>3, <2>1, ActBound DEF Types
<1>5. RowsInv'
  BY <1>0, <1>1, <1>2, <1>3 DEF RowsInv, HasRow
<1>6. OwnersInv'
  <2>1. CASE request[s].owner # "dialog"
    BY <1>1, <1>2, <2>1, NoDialogIs DEF IInv, OwnersInv
  <2>2. CASE request[s].owner = "dialog"
    BY <1>1, <2>2, NoDialogIs DEF IInv, OwnersInv
  <2> QED
    BY <2>1, <2>2
<1>7. SureInv'
  <2>1. SUFFICES ASSUME OfItem(dialog), dialog.sure, ~dialog'.again
                 PROVE  /\ \A t \in Slots : request'[t] # NoRequest => request'[t].owner = "dialog"
                        /\ NoneDone' /\ dialog.item \notin others =>
                              item[dialog.item] = dialog.shown
    BY <1>0, <1>2 DEF SureInv
  <2>2. CASE request[s].owner # "dialog"
    <3>1. ~dialog.again
      BY <1>2, <2>1, <2>2
    <3> QED
      BY <1>0, <2>1, <2>2, <3>1 DEF IInv, SureInv
  <2>3. CASE request[s].owner = "dialog"
    <3>1. ~dialog.again /\ request[s].state = "refused"
      BY <1>2, <2>1, <2>3
    <3>2. \A t \in Slots : request[t] # NoRequest => t = s
      BY <2>1, <2>3, <3>1 DEF IInv, SureInv, OwnersInv
    <3>3. request' = [request EXCEPT ![s] = NoRequest]
      BY <1>0, <3>1
    <3>4. \A t \in Slots : request'[t] = NoRequest
      BY <1>0, <3>2, <3>3 DEF Types
    <3>5. NoneDone
      BY <3>1, <3>2, NoDialogIs DEF NoneDone
    <3> QED
      BY <2>1, <3>1, <3>4, <3>5 DEF IInv, SureInv
  <2> QED
    BY <2>2, <2>3
<1>8. QueueInv'
  <2>1. CASE request[s].state = "done"
    <3>1. doubt' /\ \A k \in DOMAIN fetches' : fetches'[k].late
      BY <1>3, <2>1
    <3>2. fetches' # <<>> => Newest'.late
      BY <1>3, <3>1 DEF Newest
    <3> QED
      BY <3>1, <3>2 DEF QueueInv
  <2>2. CASE request[s].state # "done"
    <3>1. NoneDone' <=> NoneDone
      BY <1>1, <2>2, NoDialogIs DEF NoneDone
    <3>2. UNCHANGED <<doubt, fetches>>
      BY <1>3, <2>2
    <3> QED
      BY <1>0, <3>1, <3>2 DEF IInv, QueueInv, Newest, Current, Open
  <2> QED
    BY <2>1, <2>2
<1> QED
  BY <1>4, <1>5, <1>6, <1>7, <1>8 DEF IInv

\* A list that is taken out: the ones before it are late, the ones after it move up.
LEMMA WithoutIs ==
    ASSUME NEW q \in Seq(Fetches), NEW k \in DOMAIN q, NEW r, r = Without(q, k)
    PROVE  /\ r \in Seq(Fetches) /\ Len(r) = Len(q) - 1
           /\ \A j \in 1..(k - 1) : /\ r[j].late /\ r[j].read = q[j].read
                                    /\ q[j].read => r[j].items = q[j].items
           /\ \A j \in k..(Len(q) - 1) : r[j] = q[j + 1]
<1>0. k \in 1..Len(q) /\ Len(q) \in Nat
  OBVIOUS
<1>1. PICK a, b : a = SubSeq(q, 1, k - 1) /\ b = SubSeq(q, k + 1, Len(q))
  OBVIOUS
<1>2. /\ a \in Seq(Fetches) /\ Len(a) = k - 1 /\ DOMAIN a = 1..(k - 1)
      /\ \A j \in 1..(k - 1) : a[j] = q[j]
  BY <1>0, <1>1
<1>3. /\ b \in Seq(Fetches) /\ Len(b) = Len(q) - k
      /\ \A j \in 1..(Len(q) - k) : b[j] = q[j + k]
  BY <1>0, <1>1
<1>4. PICK l : l = Late(a)
  OBVIOUS
<1>5. /\ l \in Seq(Fetches) /\ Len(l) = k - 1
      /\ \A j \in 1..(k - 1) : /\ l[j].late /\ l[j].read = a[j].read
                               /\ a[j].read => l[j].items = a[j].items
  BY <1>2, <1>4, LateIs
<1>6. r = l \o b
  BY <1>1, <1>4 DEF Without
<1>7. r \in Seq(Fetches) /\ Len(r) = Len(q) - 1
  BY <1>0, <1>3, <1>5, <1>6
<1>8. \A j \in 1..(k - 1) : r[j] = l[j]
  BY <1>0, <1>3, <1>5, <1>6
<1>9. \A j \in k..(Len(q) - 1) : r[j] = q[j + 1]
  <2>1. ASSUME NEW j \in k..(Len(q) - 1)
        PROVE  r[j] = q[j + 1]
    <3>1. r[j] = b[j - (k - 1)]
      <4>1. j \in (Len(l) + 1)..(Len(l) + Len(b)) /\ Len(l) = k - 1
        BY <1>0, <1>3, <1>5
      <4>2. l \in Seq(Fetches) /\ b \in Seq(Fetches)
        BY <1>3, <1>5
      <4>3. (l \o b)[j] = b[j - Len(l)]
        BY <4>1, <4>2
      <4> QED
        BY <1>6, <4>1, <4>3
    <3>2. j - (k - 1) \in 1..(Len(q) - k)
      BY <1>0
    <3>3. b[j - (k - 1)] = q[(j - (k - 1)) + k]
      BY <1>3, <3>2
    <3> QED
      BY <1>0, <3>1, <3>3
  <2> QED
    BY <2>1
<1> QED
  BY <1>2, <1>5, <1>7, <1>8, <1>9

\* The open items, as the service reads them.
LEMMA ReadIs ==
    ASSUME item \in [Items -> Rows], NEW rows, rows = [i \in Open |-> item[i]]
    PROVE  /\ rows \in Lists /\ Current(rows) /\ DOMAIN rows \subseteq Items
           /\ \A i \in DOMAIN rows : HasRow(i) /\ rows[i].status = "ABIERTO"
<1>1. Open \subseteq Items
  BY DEF Open
<1>2. rows \in [Open -> Rows]
  BY <1>1
<1>3. rows \in Lists
  BY <1>1, <1>2 DEF Lists
<1> QED
  BY <1>1, <1>2, <1>3 DEF Current, Open, HasRow

\* The service reads the items for one of the lists asked for.
LEMMA ReadListKeeps ==
    ASSUME IInv, NEW k \in DOMAIN fetches, ReadList(k)
    PROVE  IInv'
<1>0. /\ UNCHANGED <<item, annulled, partial, others, list, dialog, request, doubt, acts>>
      /\ ~fetches[k].read /\ Types /\ RowsInv /\ fetches \in Seq(Fetches) /\ fetches[k] \in Fetches
  BY DEF ReadList, service, IInv, Types
<1>1. PICK rows : rows = [i \in Open |-> item[i]]
  OBVIOUS
<1>2. /\ rows \in Lists /\ Current(rows) /\ DOMAIN rows \subseteq Items
      /\ \A i \in DOMAIN rows : HasRow(i) /\ rows[i].status = "ABIERTO"
  BY <1>0, <1>1, ReadIs DEF Types
<1>3. PICK f : f = [read |-> TRUE, late |-> fetches[k].late, items |-> rows]
  OBVIOUS
<1>4. f \in Fetches /\ f.read /\ f.late = fetches[k].late /\ f.items = rows
  <2>1. fetches[k].late \in BOOLEAN
    BY <1>0 DEF Fetches
  <2>2. f \in [read : {TRUE}, late : BOOLEAN, items : Lists]
    BY <1>2, <1>3, <2>1
  <2> QED
    BY <1>3, <2>2 DEF Fetches
<1>5. fetches' = [fetches EXCEPT ![k] = f]
  BY <1>1, <1>3 DEF ReadList
<1>6. /\ fetches' \in Seq(Fetches) /\ Len(fetches') = Len(fetches) /\ DOMAIN fetches' = DOMAIN fetches
      /\ fetches'[k] = f /\ \A j \in DOMAIN fetches \ {k} : fetches'[j] = fetches[j]
      /\ Len(fetches) \in Nat /\ DOMAIN fetches = 1..Len(fetches)
  BY <1>0, <1>4, <1>5
<1>7. Types'
  BY <1>0, <1>6 DEF Types
<1>8. RowsInv'
  BY <1>0, <1>2, <1>4, <1>6 DEF RowsInv, HasRow
<1>9. OwnersInv' /\ SureInv'
  BY <1>0 DEF IInv, OwnersInv, SureInv, NoneDone
<1>10. QueueInv'
  <2>1. \A j \in DOMAIN fetches : fetches'[j].late = fetches[j].late
    BY <1>4, <1>6
  <2>2. \A any : Current(any)' <=> Current(any)
    BY <1>0 DEF Current, Open
  <2>3. NoneDone' <=> NoneDone
    BY <1>0 DEF NoneDone
  <2>4. CASE k = Len(fetches)
    <3>1. Newest'.late = Newest.late /\ Newest'.items = rows
      BY <1>4, <1>6, <2>4 DEF Newest
    <3>2. fetches # <<>> /\ fetches' # <<>>
      BY <1>6
    <3> QED
      BY <1>0, <1>2, <1>6, <2>1, <2>2, <2>3, <3>1, <3>2 DEF IInv, QueueInv
  <2>5. CASE k # Len(fetches)
    <3>1. fetches # <<>> /\ fetches' # <<>> /\ Newest' = Newest
      BY <1>6, <2>5 DEF Newest
    <3> QED
      BY <1>0, <1>6, <2>1, <2>2, <2>3, <3>1 DEF IInv, QueueInv
  <2> QED
    BY <2>4, <2>5
<1> QED
  BY <1>7, <1>8, <1>9, <1>10 DEF IInv

\* A list arrives, or fails.  The newest list changes only when it is the one taken
\* out; one that arrives before it leaves it to arrive, or is late itself.
LEMMA AnswerListKeeps ==
    ASSUME IInv, NEW k \in DOMAIN fetches, NEW ok \in BOOLEAN, AnswerList(k, ok)
    PROVE  IInv'
<1> DEFINE n == Len(fetches)
<1>0. /\ UNCHANGED <<item, annulled, partial, others, dialog, request>> /\ (Act \/ acts' = acts)
      /\ Types /\ RowsInv /\ fetches \in Seq(Fetches) /\ n \in Nat /\ DOMAIN fetches = 1..n
      /\ k \in 1..n /\ fetches[k] \in Fetches /\ fetches[k].late \in BOOLEAN
  <2>1. fetches \in Seq(Fetches) /\ Types /\ RowsInv
    BY DEF IInv, Types
  <2>2. fetches[k] \in Fetches
    BY <2>1
  <2>3. fetches[k].late \in BOOLEAN
    BY <2>2 DEF Fetches
  <2> QED
    BY <2>1, <2>2, <2>3 DEF AnswerList, Outcome, service
<1>1. /\ fetches' \in Seq(Fetches) /\ Len(fetches') = n - 1 /\ DOMAIN fetches' = 1..(n - 1)
      /\ \A j \in 1..(k - 1) : /\ fetches'[j].late /\ fetches'[j].read = fetches[j].read
                               /\ fetches[j].read => fetches'[j].items = fetches[j].items
      /\ \A j \in k..(n - 1) : fetches'[j] = fetches[j + 1]
  <2>1. PICK q, r : q = fetches /\ r = Without(q, k)
    OBVIOUS
  <2>2. q \in Seq(Fetches) /\ k \in DOMAIN q
    BY <1>0, <2>1
  <2>3. /\ r \in Seq(Fetches) /\ Len(r) = Len(q) - 1
        /\ \A j \in 1..(k - 1) : /\ r[j].late /\ r[j].read = q[j].read
                                 /\ q[j].read => r[j].items = q[j].items
        /\ \A j \in k..(Len(q) - 1) : r[j] = q[j + 1]
    BY <2>1, <2>2, WithoutIs
  <2>4. fetches' = r
    BY <2>1 DEF AnswerList
  <2>5. DOMAIN fetches' = 1..(n - 1)
    BY <2>1, <2>3, <2>4
  <2> QED
    BY <2>1, <2>3, <2>4, <2>5
<1>2. \/ /\ ok /\ fetches[k].read /\ fetches[k].items \in Lists
         /\ list' = fetches[k].items /\ doubt' = fetches[k].late
      \/ ~ok /\ list' = list /\ doubt' = (doubt \/ ~fetches[k].late)
  <2>1. fetches[k].read => fetches[k].items \in Lists
    BY <1>0 DEF Fetches
  <2> QED
    BY <2>1 DEF AnswerList
<1>3. Types'
  <2>1. list' \in Lists /\ doubt' \in BOOLEAN
    BY <1>0, <1>2 DEF Types
  <2>2. Len(fetches') <= MaxLists
    BY <1>0, <1>1, PendingPageAssumption DEF Types
  <2> QED
    BY <1>0, <1>1, <2>1, <2>2, ActBound DEF Types
<1>4. RowsInv'
  <2>1. \A i \in DOMAIN list' : HasRow(i)' /\ list'[i].status = "ABIERTO"
    BY <1>0, <1>2 DEF RowsInv, HasRow
  <2>2. ASSUME NEW j \in DOMAIN fetches', fetches'[j].read
        PROVE  \A i \in DOMAIN fetches'[j].items :
                   HasRow(i)' /\ fetches'[j].items[i].status = "ABIERTO"
    <3>1. PICK m \in DOMAIN fetches : fetches[m].read /\ fetches'[j].items = fetches[m].items
      <4>1. CASE j \in 1..(k - 1)
        BY <1>0, <1>1, <2>2, <4>1
      <4>2. CASE j \in k..(n - 1)
        BY <1>0, <1>1, <2>2, <4>2
      <4> QED
        BY <1>0, <1>1, <4>1, <4>2
    <3> QED
      BY <1>0, <3>1 DEF RowsInv, HasRow
  <2> QED
    BY <1>0, <2>1, <2>2 DEF RowsInv, HasRow
<1>5. OwnersInv' /\ SureInv'
  BY <1>0 DEF IInv, OwnersInv, SureInv, NoneDone
<1>6. QueueInv'
  <2>1. \A any : Current(any)' <=> Current(any)
    BY <1>0 DEF Current, Open
  <2>2. NoneDone' <=> NoneDone
    BY <1>0 DEF NoneDone
  <2>3. QueueInv /\ fetches # <<>>
    BY <1>0 DEF IInv
  <2>4. \A j, m \in DOMAIN fetches : j < m /\ fetches[m].late => fetches[j].late
    BY <2>3 DEF QueueInv
  <2>5. \A j, m \in DOMAIN fetches' : j < m /\ fetches'[m].late => fetches'[j].late
    <3>1. SUFFICES ASSUME NEW j \in 1..(n - 1), NEW m \in 1..(n - 1), j < m, fetches'[m].late
                   PROVE  fetches'[j].late
      BY <1>1
    <3>2. CASE j < k
      BY <1>0, <1>1, <3>2
    <3>3. CASE j >= k
      <4>1. fetches'[j] = fetches[j + 1] /\ fetches'[m] = fetches[m + 1]
        BY <1>0, <1>1, <3>1, <3>3
      <4>2. j + 1 \in DOMAIN fetches /\ m + 1 \in DOMAIN fetches /\ j + 1 < m + 1
        BY <1>0, <3>1
      <4> QED
        BY <2>4, <3>1, <4>1, <4>2
    <3> QED
      BY <1>0, <3>2, <3>3
  <2>6. CASE k = n
    <3>1. fetches' # <<>> => Newest'.late
      BY <1>0, <1>1, <2>6 DEF Newest
    <3>2. Newest = fetches[k]
      BY <2>6 DEF Newest
    <3>3. NoneDone /\ ~doubt' => Current(list')
      BY <1>0, <1>2, <2>3, <3>2 DEF QueueInv
    <3> QED
      BY <2>1, <2>2, <2>5, <3>1, <3>3 DEF QueueInv
  <2>7. CASE k < n
    <3>1. fetches' # <<>> /\ Newest' = Newest
      BY <1>0, <1>1, <2>7 DEF Newest
    <3>2. Newest.late => fetches[k].late
      BY <1>0, <2>4, <2>7 DEF Newest
    <3>3. ~doubt' /\ Newest.late => ~doubt /\ list' = list
      BY <1>0, <1>2, <3>2
    <3> QED
      BY <2>1, <2>2, <2>3, <2>5, <3>1, <3>3 DEF QueueInv
  <2> QED
    BY <1>0, <2>6, <2>7
<1> QED
  BY <1>3, <1>4, <1>5, <1>6 DEF IInv

-----------------------------------------------------------------------------
(* The invariant, and the theorems                                         *)

LEMMA StutterKeeps ==
    ASSUME IInv, UNCHANGED vars
    PROVE  IInv'
<1>1. UNCHANGED <<item, annulled, partial, list, fetches, dialog, request, doubt, others, acts>>
  BY DEF vars
<1>2. Types' /\ RowsInv'
  BY <1>1 DEF IInv, Types, RowsInv, HasRow
<1>3. OwnersInv' /\ SureInv'
  BY <1>1 DEF IInv, OwnersInv, SureInv, NoneDone
<1>4. QueueInv'
  BY <1>1 DEF IInv, QueueInv, NoneDone, Newest, Current, Open
<1> QED
  BY <1>2, <1>3, <1>4 DEF IInv

LEMMA InitHolds == Init => IInv
<1> SUFFICES ASSUME Init
             PROVE  IInv
  OBVIOUS
<1>1. /\ Start \in [Items -> Rows] /\ MaxLists \in Nat \ {0} /\ MaxActs \in Nat
      /\ request = [s \in Slots |-> NoRequest] /\ item = Start /\ annulled = {}
      /\ list = <<>> /\ fetches = <<Unread>> /\ dialog = NoDialog
  BY PendingPageAssumption DEF Init
<1>2. \A s \in Slots : request[s] = NoRequest /\ request[s].owner = "none"
  BY <1>1, NoDialogIs
<1>3. fetches \in Seq(Fetches) /\ Len(fetches) = 1 /\ DOMAIN fetches = {1} /\ fetches[1] = Unread
      /\ fetches # <<>> /\ ~Unread.read /\ ~Unread.late
  BY <1>1, FirstFetch
<1>4. Types
  <2>1. list \in Lists
    BY <1>1, FirstFetch
  <2>2. Len(fetches) <= MaxLists
    BY <1>1, <1>3
  <2>3. acts \in 0..MaxActs /\ partial \in BOOLEAN /\ doubt \in BOOLEAN
    <3>1. acts = 0 /\ partial \in BOOLEAN /\ doubt = FALSE
      BY DEF Init
    <3>2. acts \in 0..MaxActs
      BY <3>1, PendingPageAssumption
    <3>3. doubt \in BOOLEAN
      BY <3>1
    <3> QED
      BY <3>1, <3>2, <3>3
  <2>4. request \in [Slots -> {NoRequest} \cup Sent]
    BY <1>1
  <2> QED
    BY <1>1, <1>2, <1>3, <2>1, <2>2, <2>3, <2>4 DEF Types
<1>5. RowsInv
  <2>1. DOMAIN list = {}
    BY <1>1, FirstFetch
  <2> QED
    BY <1>1, <1>2, <1>3, <2>1, NoDialogIs DEF RowsInv, HasRow, OfItem
<1>6. OwnersInv
  BY <1>2 DEF OwnersInv
<1>7. SureInv
  BY <1>1, NoDialogIs DEF SureInv, OfItem
<1>8. QueueInv
  <2>1. Newest = Unread
    BY <1>3 DEF Newest
  <2> QED
    BY <1>3, <2>1 DEF QueueInv
<1> QED
  BY <1>4, <1>5, <1>6, <1>7, <1>8 DEF IInv

LEMMA StepKeeps == IInv /\ [Next]_vars => IInv'
<1> SUFFICES ASSUME IInv, [Next]_vars
             PROVE  IInv'
  OBVIOUS
<1>1. CASE OpenDialog \/ Edit \/ Close \/ Submit \/ Return \/ Elsewhere \/ AnswerDialog
  BY <1>1, OpenDialogKeeps, EditKeeps, CloseKeeps, SubmitKeeps, ReturnKeeps, ElsewhereKeeps,
     AnswerDialogKeeps
<1>2. ASSUME NEW s \in Slots, Serve(s) \/ AnswerDone(s) \/ AnswerError(s)
      PROVE  IInv'
  BY <1>2, ServeKeeps, AnswerDoneKeeps, AnswerErrorKeeps
<1>3. ASSUME NEW k \in DOMAIN fetches, ReadList(k) \/ \E ok \in BOOLEAN : AnswerList(k, ok)
      PROVE  IInv'
  BY <1>3, ReadListKeeps, AnswerListKeeps
<1>4. CASE UNCHANGED vars
  BY <1>4, StutterKeeps
<1> QED
  BY <1>1, <1>2, <1>3, <1>4 DEF Next

\* The invariant holds in every state the page can reach.
THEOREM PageInvariant == Spec => []IInv
BY InitHolds, StepKeeps, PTL DEF Spec

LEMMA InOrder == IInv => PageInv
<1> SUFFICES ASSUME IInv
             PROVE  PageInv
  OBVIOUS
<1>0. Types /\ RowsInv /\ OwnersInv /\ QueueInv
  BY DEF IInv
<1>1. TypeOK
  <2>1. \A i \in Open : Movement[i] \notin annulled
    BY <1>0 DEF RowsInv, Open
  <2>2. DOMAIN list \subseteq Items
    <3>1. PICK shown \in SUBSET Items : list \in [shown -> Rows]
      BY <1>0 DEF Types, Lists
    <3> QED
      BY <3>1
  <2>3. dialog.kind \in {"none", "resolve", "opening", "cancel"}
    BY <1>0, KindIs, NoDialogIs DEF Types
  <2>4. \A s \in Slots : request[s].owner = "dialog" => dialog.kind = request[s].body.kind
    BY <1>0 DEF OwnersInv
  <2> QED
    BY <1>0, <2>1, <2>2, <2>3, <2>4 DEF Types, TypeOK
<1>2. ListIsCurrent
  <2>1. AtRest /\ ~doubt => Current(list)
    BY <1>0, RestIsCurrent
  <2> QED
    BY <2>1 DEF ListIsCurrent, Current
<1> QED
  BY <1>1, <1>2 DEF PageInv

LEMMA PaysAsShown == IInv => PaysWhatItShows
<1> SUFFICES ASSUME IInv, NEW s \in Slots, NEW d, d = request[s].body,
                    request[s].state = "sent", request[s].owner = "dialog", d.kind # "opening",
                    d.sure, ~d.again, d.item \notin others
             PROVE  item[d.item] = d.shown
  BY DEF PaysWhatItShows
<1>1. Types /\ OwnersInv /\ SureInv /\ request[s] # NoRequest
  BY NoDialogIs DEF IInv
<1>2. /\ dialog \in Dialogs /\ d.kind = dialog.kind /\ d.again = dialog.again
      /\ OfItem(dialog) => d.item = dialog.item /\ d.shown = dialog.shown /\ d.sure = dialog.sure
      /\ \A t \in Slots : request[t].owner = "dialog" => t = s
  BY <1>1 DEF OwnersInv, Types
<1>3. OfItem(dialog)
  BY <1>2, KindIs DEF OfItem
<1>4. \A t \in Slots : request[t] # NoRequest => t = s
  BY <1>1, <1>2, <1>3 DEF SureInv
<1>5. NoneDone
  BY <1>4, NoDialogIs DEF NoneDone
<1> QED
  BY <1>1, <1>2, <1>3, <1>5 DEF SureInv

\* The service's checks of a payment follow from those of its dialog.
LEMMA ResolveIsAccepted ==
    ASSUME NEW d \in ResolveDialogs, Fits(d), ResolveSubmits(d), Fair(d)
    PROVE  ResolveAccepts(d)
<1>1. /\ d.kind = "resolve" /\ d.mode \in {"REAL_EXECUTION", "COMPENSATED"} /\ d.amount \in Nat
      /\ d.account \in Maybe(Accounts) /\ d.shown \in Rows
  BY DEF ResolveDialogs
<1>2. /\ item[d.item] = d.shown /\ ~d.chosen /\ (d.amount < d.shown.amount => d.partial = partial)
      /\ d.mode = "REAL_EXECUTION" =>
            d.shown.account \in Active /\ PairTakes(d.shown.account, d.shown.currency, d.format)
      /\ d.mode = "COMPENSATED" => d.ref # "NO_MOVEMENT"
  BY <1>1 DEF Fair
<1>3. /\ d.shown.status = "ABIERTO"
      /\ d.account # "" /\ d.shown.account \in Active => d.account = d.shown.account
  BY <1>1, <1>2 DEF Fits, ResolveFits
<1>4. d.shown.amount \in Nat \ {0}
  BY <1>1 DEF Rows
<1>5. CASE d.mode = "REAL_EXECUTION"
  <2>1. /\ d.amount \in 1..d.shown.amount /\ (d.partial \/ d.amount = d.shown.amount)
        /\ d.account # ""
    BY <1>5 DEF ResolveSubmits
  <2>2. d.account = d.shown.account /\ d.account \in Active
        /\ PairTakes(d.account, d.shown.currency, d.format)
    BY <1>2, <1>3, <1>5, <2>1
  <2>3. d.amount < d.shown.amount => partial
    <3>1. SUFFICES ASSUME d.amount < d.shown.amount
                   PROVE  partial
      OBVIOUS
    <3>2. d.amount # d.shown.amount
      BY <1>1, <1>4, <3>1
    <3>3. d.partial
      BY <2>1, <3>2, Zenon
    <3>4. d.partial = partial
      BY <1>2, <3>1, Zenon
    <3> QED
      BY <3>3, <3>4, Zenon
  <2> QED
    BY <1>2, <1>3, <1>5, <2>1, <2>2, <2>3 DEF ResolveAccepts
<1>6. CASE d.mode = "COMPENSATED"
  <2>1. d.amount \in 1..d.shown.amount /\ d.shown.cc /\ d.amount = d.shown.amount /\ d.ref # ""
    BY <1>6 DEF ResolveSubmits
  <2>2. d.ref = "MOVEMENT"
    <3>1. d.ref \in References
      BY DEF ResolveDialogs
    <3>2. d.ref # "NO_MOVEMENT"
      BY <1>2, <1>6, Zenon
    <3>3. d.ref # ""
      BY <2>1, Zenon
    <3> QED
      BY <3>1, <3>2, <3>3 DEF References
  <2> QED
    <3>1. ~(d.amount < d.shown.amount) /\ d.mode # "REAL_EXECUTION"
      <4>1. d.amount = d.shown.amount
        BY <2>1, Zenon
      <4> QED
        BY <1>1, <1>4, <1>6, <4>1
    <3> QED
      BY <1>2, <1>3, <2>1, <2>2, <3>1, Zenon DEF ResolveAccepts
<1> QED
  BY <1>1, <1>5, <1>6

LEMMA OpeningIsAccepted ==
    ASSUME NEW d \in OpeningDialogs, Fits(d), OpeningSubmits(d), Fair(d)
    PROVE  OpeningAccepts(d)
<1>1. d.kind = "opening" /\ d.leg \in Legs
  BY DEF OpeningDialogs
<1>2. d.leg.list = d.leg.account /\ d.leg.currency \in Shown(d.leg.list)
  BY <1>1 DEF Fair
<1>3. d.client /\ d.leg.account # "" /\ d.leg.currency # "" /\ d.leg.amount > 0
  BY DEF OpeningSubmits
<1>4. PICK allowed : allowed = AllowedFormats(d.leg.account, d.leg.currency)
  OBVIOUS
<1>5. d.leg.account \in Active /\ allowed # {} /\ d.leg.format \in allowed
  <2>1. d.leg.account \in Maybe(Active) /\ (allowed # {} => d.leg.format \in allowed)
    BY <1>1, <1>2, <1>4 DEF Fits, OpeningFits
  <2>2. allowed # {}
    BY <1>2, <1>4 DEF Shown
  <2> QED
    BY <1>3, <2>1, <2>2 DEF Maybe
<1>6. PairTakes(d.leg.account, d.leg.currency, d.leg.format)
  BY <1>3, <1>4, <1>5 DEF AllowedFormats, PairTakes
<1> QED
  BY <1>3, <1>5, <1>6 DEF OpeningAccepts

LEMMA SentIsFit == IInv => ConfirmedIsAccepted
<1> SUFFICES ASSUME IInv, NEW s \in Slots, request[s].state = "sent", Fair(request[s].body)
             PROVE  Accepts(request[s].body)
  BY DEF ConfirmedIsAccepted
<1>1. PICK d : d = request[s].body
  OBVIOUS
<1>2. Types /\ RowsInv /\ request[s] # NoRequest /\ request[s] \in Sent
  BY NoDialogIs DEF IInv, Types
<1>3. d \in Dialogs /\ Fits(d) /\ Submits(d) /\ Fair(d)
  BY <1>1, <1>2 DEF Types, Sent
<1>4. CASE d.kind = "resolve"
  <2>1. ResolveSubmits(d) /\ d \in ResolveDialogs
    BY <1>3, <1>4, KindIs DEF Submits
  <2> QED
    BY <1>1, <1>3, <1>4, <2>1, ResolveIsAccepted DEF Accepts
<1>5. CASE d.kind = "opening"
  <2>1. OpeningSubmits(d) /\ d \in OpeningDialogs
    BY <1>3, <1>5, KindIs DEF Submits
  <2> QED
    BY <1>1, <1>3, <1>5, <2>1, OpeningIsAccepted DEF Accepts
<1>6. CASE d.kind = "cancel"
  <2>1. d.item \in Items /\ item[d.item].status = "ABIERTO"
    BY <1>3, <1>6, KindIs DEF Fair, OfItem
  <2>2. Movement[d.item] \notin annulled
    BY <1>2, <2>1 DEF RowsInv
  <2> QED
    BY <1>1, <1>6, <2>2 DEF Accepts
<1> QED
  BY <1>3, <1>4, <1>5, <1>6, KindIs

\* No item of an annulled movement is open, and on a page at rest the list is the
\* open items as the page left them, whatever the order in which the answers came.
THEOREM PageStaysInOrder == Spec => []PageInv
BY PageInvariant, InOrder, PTL

\* However answers overlap with what the user does, a dialog opened at rest never
\* works twice on its item: until it is told of an error, what it sends is about
\* the item as it is.
THEOREM DialogsPayWhatTheyShow == Spec => []PaysWhatItShows
BY PageInvariant, PaysAsShown, PTL

\* In every mode the checks of a dialog imply those of the service on what it sends:
\* the amount, the account and format proposed, the movement not annulled.
THEOREM SentIsAccepted == Spec => []ConfirmedIsAccepted
BY PageInvariant, SentIsFit, PTL
=============================================================================
