-------------------------- MODULE MovementsProofs --------------------------
(***************************************************************************)
(* Theorems about Movements, for every set of movements, clients, types,   *)
(* requests and amounts.                                                   *)
(*                                                                         *)
(* The first section says once what a request has read and what the        *)
(* transactions that confirm a movement write; then come the types, the    *)
(* entries, and the corrections.                                           *)
(***************************************************************************)
EXTENDS Movements, SumTheorems, TLAPS

\* What a request in flight has read is told by its operation.
LEMMA RequestType ==
    ASSUME TypeOK, NEW r \in Requests
    PROVE  /\ request[r].op = "EXECUTE" => request[r] \in ExecuteRequests
           /\ request[r].op = "SAVE" => request[r] \in SaveRequests
           /\ request[r].op = "DISCARD" => request[r] \in DiscardRequests
           /\ request[r].op = "PATCH" => request[r] \in PatchRequests
           /\ request[r].op = "START" => request[r] \in StartRequests
BY DEF TypeOK, Idle, ExecuteRequests, SaveRequests, DiscardRequests, PatchRequests, StartRequests

\* The header of a row that does not exist is a header.
LEMMA NoHeaderType == NoHeader \in Headers
<1>1. \E h \in Headers : TRUE
  <2>1. PICK t \in Types, c \in Clients : TRUE
    BY SomeHeader
  <2>2. [type |-> t, client |-> c] \in Headers
    BY <2>1 DEF Headers
  <2> QED
    BY <2>2
<1> QED
  BY <1>1 DEF NoHeader

\* Postings and reversals are integers for every client.
LEMMA EntryType ==
    /\ NoEntries \in [Clients -> Int]
    /\ \A e, f \in [Clients -> Int] : Sum(e, f) \in [Clients -> Int]
    /\ \A e \in [Clients -> Int] : Reversal(e) \in [Clients -> Int]
BY DEF NoEntries, Sum, Reversal

\* An entry and its reversal leave nothing.
LEMMA ReversalCancels ==
    ASSUME NEW e \in [Clients -> Int]
    PROVE  Sum(e, Reversal(e)) = NoEntries
BY DEF Sum, Reversal, NoEntries

\* What an execution posts is an integer for every client.
LEMMA PostingType ==
    ASSUME NEW q, NEW amount \in Amounts \cup {0}
    PROVE  Posting(q, amount) \in [Clients -> Int]
BY AmountsAreSigned DEF Posting

\* A correction that was applied is still a correction of the same movement.
LEMMA AppliedType ==
    ASSUME NEW fix \in Corrections \cup {NoCorrection}
    PROVE  /\ fix = NoCorrection => AfterConfirm(fix) = NoCorrection
           /\ fix # NoCorrection =>
                 AfterConfirm(fix) = [status |-> "APPLIED", mode |-> fix.mode, source |-> fix.source]
           /\ AfterConfirm(fix) \in Corrections \cup {NoCorrection}
BY DEF AfterConfirm, Corrections, NoCorrection

\* A pending modification is a correction.
LEMMA ReplacesType ==
    ASSUME TypeOK, NEW m \in Movements, Replaces(m)
    PROVE  correction[m] \in Corrections
BY DEF TypeOK, Replaces, NoCorrection

-----------------------------------------------------------------------------
(* Types and entries                                                       *)

\* The movement m is confirmed with the lines of the header h.
Confirms(m, h, r) ==
    /\ status[m] = "BORRADOR"
    /\ operation' = [operation EXCEPT ![m] = h]
    /\ correction' = [correction EXCEPT ![m] = AfterConfirm(@)]
    /\ request' = [request EXCEPT ![r] = Idle]
    /\ UNCHANGED <<header, draft, ccEnabled>>

\* What an execution writes.
LEMMA ExecuteEffect ==
    ASSUME TypeOK, NEW r \in Requests, NEW amount \in Amounts \cup {0}, Execute(r, amount)
    PROVE  \E m \in Movements, h \in Headers, p \in [Clients -> Int] :
               /\ Confirms(m, h, r) /\ ~Replaces(m)
               /\ status' = [status EXCEPT ![m] = "CONFIRMADA"]
               /\ entries' = [entries EXCEPT ![m] = Sum(@, p)]
               /\ balance' = Sum(balance, p)
<1> DEFINE m == request[r].movement
           p == Posting(request[r], amount)
<1>1. request[r] \in ExecuteRequests
  BY RequestType DEF Execute
<1>2. m \in Movements /\ request[r].header \in Headers
  BY <1>1 DEF ExecuteRequests
<1>3. p \in [Clients -> Int]
  BY PostingType
<1>4. /\ Confirms(m, request[r].header, r) /\ ~Replaces(m)
      /\ status' = [status EXCEPT ![m] = "CONFIRMADA"]
      /\ entries' = [entries EXCEPT ![m] = Sum(@, p)]
      /\ balance' = Sum(balance, p)
  BY DEF Execute, Confirms, Record, Finish
<1> QED
  BY <1>2, <1>3, <1>4

\* What the execution of a modification writes: it annuls the source as well.
LEMMA ReplacementEffect ==
    ASSUME TypeOK, NEW r \in Requests, NEW amount \in Amounts \cup {0}, ExecuteReplacement(r, amount)
    PROVE  \E m \in Movements, h \in Headers, p \in [Clients -> Int], s \in Movements :
               /\ s # m
               /\ Confirms(m, h, r) /\ Replaces(m)
               /\ s = correction[m].source
               /\ status[s] = "CONFIRMADA"
               /\ status' = [[status EXCEPT ![s] = "CANCELADA"] EXCEPT ![m] = "CONFIRMADA"]
               /\ entries' = [[entries EXCEPT ![s] = Sum(entries[s], Reversal(entries[s]))]
                                 EXCEPT ![m] = Sum(entries[m], p)]
               /\ balance' = Sum(Sum(balance, p), Reversal(entries[s]))
<1> DEFINE m == request[r].movement
           s == correction[m].source
           p == Posting(request[r], amount)
<1>1. request[r] \in ExecuteRequests
  BY RequestType DEF ExecuteReplacement
<1>2. m \in Movements /\ request[r].header \in Headers
  BY <1>1 DEF ExecuteRequests
<1>3. p \in [Clients -> Int]
  BY PostingType
<1>4. Replaces(m) /\ status[m] = "BORRADOR" /\ status[s] = "CONFIRMADA"
  BY DEF ExecuteReplacement, Annullable
<1>5. s \in Movements /\ s # m
  BY <1>2, <1>4, ReplacesType DEF Corrections
<1>6. Confirms(m, request[r].header, r)
  BY DEF ExecuteReplacement, Confirms, Record, Finish
<1>7. status' = [[status EXCEPT ![s] = "CANCELADA"] EXCEPT ![m] = "CONFIRMADA"]
  BY DEF ExecuteReplacement
<1>8. entries' = [[entries EXCEPT ![s] = Sum(entries[s], Reversal(entries[s]))]
                     EXCEPT ![m] = Sum(entries[m], p)]
  BY <1>2, <1>5 DEF ExecuteReplacement, TypeOK
<1>9. balance' = Sum(Sum(balance, p), Reversal(entries[s]))
  BY DEF ExecuteReplacement
<1> QED
  BY <1>2, <1>3, <1>4, <1>5, <1>6, <1>7, <1>8, <1>9

\* A request that only reads leaves the rows as they are.
Rows == <<status, header, draft, correction, operation, entries, balance, ccEnabled>>

\* What a handler reads is a request of its kind.
LEMMA ReadEffect ==
    ASSUME TypeOK, NEW r \in Requests, NEW m \in Movements,
           \/ ReadForSave(r, m)
           \/ ReadForDiscard(r, m)
           \/ ReadForExecution(r, m)
           \/ \E h \in Headers, confirmClear \in BOOLEAN : ReadForPatch(r, m, h, confirmClear)
           \/ \E mode \in Modes : ReadForCorrection(r, m, mode)
    PROVE  /\ UNCHANGED Rows
           /\ \E q \in ExecuteRequests \cup SaveRequests \cup DiscardRequests
                          \cup PatchRequests \cup StartRequests :
                 /\ request' = [request EXCEPT ![r] = q]
                 /\ q.op = "START" => Correctable(q.movement, q.mode)
<1>1. CASE ReadForSave(r, m)
  <2> DEFINE q == [op |-> "SAVE", movement |-> m, header |-> header[m]]
  <2>2. q \in SaveRequests /\ q.op # "START"
    BY DEF SaveRequests, TypeOK
  <2>3. UNCHANGED Rows /\ request' = [request EXCEPT ![r] = q]
    BY <1>1 DEF ReadForSave, Read, Rows
  <2> QED
    BY <2>2, <2>3
<1>2. CASE ReadForDiscard(r, m)
  <2> DEFINE q == [op |-> "DISCARD", movement |-> m]
  <2>2. q \in DiscardRequests /\ q.op # "START"
    BY DEF DiscardRequests
  <2>3. UNCHANGED Rows /\ request' = [request EXCEPT ![r] = q]
    BY <1>2 DEF ReadForDiscard, Read, Rows
  <2> QED
    BY <2>2, <2>3
<1>3. CASE ReadForExecution(r, m)
  <2> DEFINE q == [op |-> "EXECUTE", movement |-> m, header |-> header[m],
                    cc |-> ccEnabled[header[m].client]]
  <2>1. header[m] \in Headers /\ header[m].client \in Clients
    BY DEF TypeOK, Headers
  <2>2. q \in ExecuteRequests /\ q.op # "START"
    BY <2>1 DEF ExecuteRequests, TypeOK
  <2>3. UNCHANGED Rows /\ request' = [request EXCEPT ![r] = q]
    BY <1>3 DEF ReadForExecution, Read, Rows
  <2> QED
    BY <2>2, <2>3
<1>4. ASSUME NEW h \in Headers, NEW confirmClear \in BOOLEAN, ReadForPatch(r, m, h, confirmClear)
      PROVE  /\ UNCHANGED Rows
             /\ \E q \in PatchRequests :
                   request' = [request EXCEPT ![r] = q] /\ q.op # "START"
  <2> DEFINE clear == NeedsClear(header[m], h) /\ draft[m] # NoDraft
             q == [op |-> "PATCH", movement |-> m, header |-> h, clear |-> clear]
  <2>1. clear \in BOOLEAN
    BY DEF NeedsClear
  <2>2. q \in PatchRequests /\ q.op # "START"
    BY <2>1 DEF PatchRequests
  <2>3. UNCHANGED Rows /\ request' = [request EXCEPT ![r] = q]
    BY <1>4 DEF ReadForPatch, Read, Rows
  <2> QED
    BY <2>2, <2>3
<1>5. ASSUME NEW mode \in Modes, ReadForCorrection(r, m, mode)
      PROVE  /\ UNCHANGED Rows
             /\ \E q \in StartRequests :
                   /\ request' = [request EXCEPT ![r] = q]
                   /\ Correctable(q.movement, q.mode)
  <2> DEFINE q == [op |-> "START", movement |-> m, header |-> header[m], mode |-> mode]
  <2>1. q \in StartRequests /\ q.movement = m /\ q.mode = mode
    BY DEF StartRequests, TypeOK
  <2>2. UNCHANGED Rows /\ request' = [request EXCEPT ![r] = q] /\ Correctable(m, mode)
    BY <1>5 DEF ReadForCorrection, Read, Rows
  <2> QED
    BY <2>1, <2>2
<1> QED
  BY <1>1, <1>2, <1>3, <1>4, <1>5

\* Every step keeps the types of the columns.
LEMMA TypeStep ==
    ASSUME TypeOK, [Next]_vars
    PROVE  TypeOK'
<1>1. ASSUME NEW m \in Movements, NEW h \in Headers, CreateMovement(m, h)
      PROVE  TypeOK'
  BY <1>1 DEF CreateMovement, TypeOK
<1>2. ASSUME NEW m \in Movements, CancelMovement(m)
      PROVE  TypeOK'
  <2>1. Sum(entries[m], Reversal(entries[m])) \in [Clients -> Int]
    BY EntryType DEF TypeOK
  <2>2. Sum(balance, Reversal(entries[m])) \in [Clients -> Int]
    BY EntryType DEF TypeOK
  <2> QED
    BY <1>2, <2>1, <2>2 DEF CancelMovement, TypeOK
<1>3. ASSUME NEW c \in Clients, ToggleCC(c)
      PROVE  TypeOK'
  BY <1>3 DEF ToggleCC, TypeOK
<1>4. ASSUME NEW r \in Requests, NEW m \in Movements,
             \/ ReadForSave(r, m)
             \/ ReadForDiscard(r, m)
             \/ ReadForExecution(r, m)
             \/ \E h \in Headers, confirmClear \in BOOLEAN : ReadForPatch(r, m, h, confirmClear)
             \/ \E mode \in Modes : ReadForCorrection(r, m, mode)
      PROVE  TypeOK'
  <2>1. PICK q \in ExecuteRequests \cup SaveRequests \cup DiscardRequests
                     \cup PatchRequests \cup StartRequests :
            request' = [request EXCEPT ![r] = q]
    BY <1>4, ReadEffect
  <2>2. UNCHANGED Rows
    BY <1>4, ReadEffect
  <2> QED
    BY <2>1, <2>2 DEF Rows, TypeOK
<1>5. ASSUME NEW r \in Requests, NEW d \in Movements, StartCorrection(r, d)
      PROVE  TypeOK'
  <2>1. request[r] \in StartRequests
    BY <1>5, RequestType DEF StartCorrection
  <2>2. [status |-> "PENDING", mode |-> request[r].mode, source |-> request[r].movement]
            \in Corrections
    BY <2>1 DEF StartRequests, Corrections
  <2>3. request[r].header \in Headers /\ request[r].movement \in Movements
    BY <2>1 DEF StartRequests
  <2> QED
    BY <1>5, <2>2, <2>3 DEF StartCorrection, Finish, TypeOK
<1>6. ASSUME NEW r \in Requests, SaveMovementDraft(r)
      PROVE  TypeOK'
  <2>1. request[r] \in SaveRequests
    BY <1>6, RequestType DEF SaveMovementDraft
  <2>2. request[r].header \in Headers
    BY <2>1 DEF SaveRequests
  <2> QED
    BY <1>6, <2>2 DEF SaveMovementDraft, Finish, TypeOK
<1>7. ASSUME NEW r \in Requests, PatchMovementHeader(r)
      PROVE  TypeOK'
  <2>1. request[r] \in PatchRequests
    BY <1>7, RequestType DEF PatchMovementHeader
  <2>2. request[r].header \in Headers
    BY <2>1 DEF PatchRequests
  <2> QED
    BY <1>7, <2>2 DEF PatchMovementHeader, Finish, TypeOK
<1>8. ASSUME NEW r \in Requests, DiscardMovementDraft(r)
      PROVE  TypeOK'
  BY <1>8, EntryType, NoHeaderType DEF DiscardMovementDraft, Finish, TypeOK
<1>9. ASSUME NEW r \in Requests, NEW a \in Amounts \cup {0}, Execute(r, a)
      PROVE  TypeOK'
  <2>1. PICK m \in Movements, h \in Headers, p \in [Clients -> Int] :
            /\ Confirms(m, h, r)
            /\ status' = [status EXCEPT ![m] = "CONFIRMADA"]
            /\ entries' = [entries EXCEPT ![m] = Sum(@, p)]
            /\ balance' = Sum(balance, p)
    BY <1>9, ExecuteEffect
  <2>2. Sum(entries[m], p) \in [Clients -> Int] /\ Sum(balance, p) \in [Clients -> Int]
    BY EntryType DEF TypeOK
  <2>3. AfterConfirm(correction[m]) \in Corrections \cup {NoCorrection}
    BY AppliedType DEF TypeOK
  <2> QED
    BY <2>1, <2>2, <2>3 DEF Confirms, TypeOK
<1>10. ASSUME NEW r \in Requests, NEW a \in Amounts \cup {0}, ExecuteReplacement(r, a)
       PROVE  TypeOK'
  <2>1. PICK m \in Movements, h \in Headers, p \in [Clients -> Int], s \in Movements :
            /\ Confirms(m, h, r)
            /\ status' = [[status EXCEPT ![s] = "CANCELADA"] EXCEPT ![m] = "CONFIRMADA"]
            /\ entries' = [[entries EXCEPT ![s] = Sum(entries[s], Reversal(entries[s]))]
                              EXCEPT ![m] = Sum(entries[m], p)]
            /\ balance' = Sum(Sum(balance, p), Reversal(entries[s]))
    BY <1>10, ReplacementEffect
  <2>2. /\ Sum(entries[s], Reversal(entries[s])) \in [Clients -> Int]
        /\ Sum(entries[m], p) \in [Clients -> Int]
        /\ Sum(Sum(balance, p), Reversal(entries[s])) \in [Clients -> Int]
    BY EntryType DEF TypeOK
  <2>3. AfterConfirm(correction[m]) \in Corrections \cup {NoCorrection}
    BY AppliedType DEF TypeOK
  <2> QED
    BY <2>1, <2>2, <2>3 DEF Confirms, TypeOK
<1>11. ASSUME NEW r \in Requests, RollBack(r)
       PROVE  TypeOK'
  BY <1>11 DEF RollBack, Finish, TypeOK
<1>12. CASE UNCHANGED vars
  BY <1>12 DEF vars, TypeOK
<1> QED
  BY <1>1, <1>2, <1>3, <1>4, <1>5, <1>6, <1>7, <1>8, <1>9, <1>10, <1>11, <1>12 DEF Next

\* What a step does to the status of a movement.
Advances(m) ==
    \/ status[m] = "NONE" /\ status'[m] = "BORRADOR"
    \/ status[m] = "BORRADOR" /\ status'[m] = "CONFIRMADA"
    \/ status[m] = "CONFIRMADA" /\ status'[m] = "CANCELADA"
    \/ status'[m] = "DELETED"

\* No step takes the status of a movement back.
LEMMA StatusStep ==
    ASSUME TypeOK, [Next]_vars
    PROVE  \A m \in Movements : status'[m] # status[m] => Advances(m)
<1>1. ASSUME NEW m \in Movements, NEW h \in Headers, CreateMovement(m, h)
      PROVE  \A n \in Movements : status'[n] # status[n] => Advances(n)
  BY <1>1 DEF CreateMovement, TypeOK, Advances
<1>2. ASSUME NEW m \in Movements, CancelMovement(m)
      PROVE  \A n \in Movements : status'[n] # status[n] => Advances(n)
  BY <1>2 DEF CancelMovement, Annullable, TypeOK, Advances
<1>3. ASSUME NEW r \in Requests, NEW m \in Movements,
             \/ ReadForSave(r, m)
             \/ ReadForDiscard(r, m)
             \/ ReadForExecution(r, m)
             \/ \E h \in Headers, confirmClear \in BOOLEAN : ReadForPatch(r, m, h, confirmClear)
             \/ \E mode \in Modes : ReadForCorrection(r, m, mode)
      PROVE  UNCHANGED status
  <2>1. UNCHANGED Rows
    BY <1>3, ReadEffect
  <2> QED
    BY <2>1 DEF Rows
<1>4. ASSUME NEW r \in Requests, NEW d \in Movements, StartCorrection(r, d)
      PROVE  \A n \in Movements : status'[n] # status[n] => Advances(n)
  BY <1>4 DEF StartCorrection, TypeOK, Advances
<1>5. ASSUME NEW r \in Requests, DiscardMovementDraft(r)
      PROVE  \A n \in Movements : status'[n] # status[n] => Advances(n)
  BY <1>5 DEF DiscardMovementDraft, TypeOK, Advances
<1>6. ASSUME NEW r \in Requests, NEW a \in Amounts \cup {0}, Execute(r, a)
      PROVE  \A n \in Movements : status'[n] # status[n] => Advances(n)
  <2>1. PICK m \in Movements :
            status[m] = "BORRADOR" /\ status' = [status EXCEPT ![m] = "CONFIRMADA"]
    BY <1>6, ExecuteEffect DEF Confirms
  <2> QED
    BY <2>1 DEF TypeOK, Advances
<1>7. ASSUME NEW r \in Requests, NEW a \in Amounts \cup {0}, ExecuteReplacement(r, a)
      PROVE  \A n \in Movements : status'[n] # status[n] => Advances(n)
  <2>1. PICK m \in Movements, s \in Movements :
            /\ status[m] = "BORRADOR" /\ status[s] = "CONFIRMADA"
            /\ status' = [[status EXCEPT ![s] = "CANCELADA"] EXCEPT ![m] = "CONFIRMADA"]
    BY <1>7, ReplacementEffect DEF Confirms
  <2> QED
    BY <2>1 DEF TypeOK, Advances
<1>8. ASSUME NEW r \in Requests, SaveMovementDraft(r) \/ PatchMovementHeader(r) \/ RollBack(r)
      PROVE  UNCHANGED status
  BY <1>8 DEF SaveMovementDraft, PatchMovementHeader, RollBack
<1>9. ASSUME NEW c \in Clients, ToggleCC(c)
      PROVE  UNCHANGED status
  BY <1>9 DEF ToggleCC
<1>10. CASE UNCHANGED vars
  BY <1>10 DEF vars
<1> QED
  BY <1>1, <1>2, <1>3, <1>4, <1>5, <1>6, <1>7, <1>8, <1>9, <1>10 DEF Next

\* Every step leaves the entries of every movement that is not confirmed at nothing.
LEMMA EntriesStep ==
    ASSUME StatusInv, [Next]_vars
    PROVE  OnlyConfirmedHasEntries'
<1> USE DEF StatusInv, OnlyConfirmedHasEntries
<1>1. ASSUME NEW m \in Movements, NEW h \in Headers, CreateMovement(m, h)
      PROVE  OnlyConfirmedHasEntries'
  BY <1>1 DEF CreateMovement, TypeOK
<1>2. ASSUME NEW m \in Movements, CancelMovement(m)
      PROVE  OnlyConfirmedHasEntries'
  <2>1. Sum(entries[m], Reversal(entries[m])) = NoEntries
    BY ReversalCancels DEF TypeOK
  <2> QED
    BY <1>2, <2>1 DEF CancelMovement, TypeOK
<1>3. ASSUME NEW r \in Requests, NEW m \in Movements,
             \/ ReadForSave(r, m)
             \/ ReadForDiscard(r, m)
             \/ ReadForExecution(r, m)
             \/ \E h \in Headers, confirmClear \in BOOLEAN : ReadForPatch(r, m, h, confirmClear)
             \/ \E mode \in Modes : ReadForCorrection(r, m, mode)
      PROVE  OnlyConfirmedHasEntries'
  <2>1. UNCHANGED Rows
    BY <1>3, ReadEffect
  <2> QED
    BY <2>1 DEF Rows
<1>4. ASSUME NEW r \in Requests, NEW d \in Movements, StartCorrection(r, d)
      PROVE  OnlyConfirmedHasEntries'
  BY <1>4 DEF StartCorrection, TypeOK
<1>5. ASSUME NEW r \in Requests, DiscardMovementDraft(r)
      PROVE  OnlyConfirmedHasEntries'
  BY <1>5 DEF DiscardMovementDraft, TypeOK
<1>6. ASSUME NEW r \in Requests, NEW a \in Amounts \cup {0}, Execute(r, a)
      PROVE  OnlyConfirmedHasEntries'
  <2>1. PICK m \in Movements, p \in [Clients -> Int] :
            /\ status' = [status EXCEPT ![m] = "CONFIRMADA"]
            /\ entries' = [entries EXCEPT ![m] = Sum(@, p)]
    BY <1>6, ExecuteEffect
  <2> QED
    BY <2>1 DEF TypeOK
<1>7. ASSUME NEW r \in Requests, NEW a \in Amounts \cup {0}, ExecuteReplacement(r, a)
      PROVE  OnlyConfirmedHasEntries'
  <2>1. PICK m \in Movements, p \in [Clients -> Int], s \in Movements :
            /\ s # m
            /\ status' = [[status EXCEPT ![s] = "CANCELADA"] EXCEPT ![m] = "CONFIRMADA"]
            /\ entries' = [[entries EXCEPT ![s] = Sum(entries[s], Reversal(entries[s]))]
                              EXCEPT ![m] = Sum(entries[m], p)]
    BY <1>7, ReplacementEffect
  <2>2. Sum(entries[s], Reversal(entries[s])) = NoEntries
    BY ReversalCancels DEF TypeOK
  <2> QED
    BY <2>1, <2>2 DEF TypeOK
<1>8. ASSUME NEW r \in Requests, SaveMovementDraft(r) \/ PatchMovementHeader(r) \/ RollBack(r)
      PROVE  OnlyConfirmedHasEntries'
  BY <1>8 DEF SaveMovementDraft, PatchMovementHeader, RollBack
<1>9. ASSUME NEW c \in Clients, ToggleCC(c)
      PROVE  OnlyConfirmedHasEntries'
  BY <1>9 DEF ToggleCC
<1>10. CASE UNCHANGED vars
  BY <1>10 DEF vars
<1> QED
  BY <1>1, <1>2, <1>3, <1>4, <1>5, <1>6, <1>7, <1>8, <1>9, <1>10 DEF Next

\* The empty book has the types and no entry.
LEMMA InitEntries == Init => StatusInv
BY NoHeaderType, EntryType DEF Init, StatusInv, TypeOK, OnlyConfirmedHasEntries

\* Only a confirmed movement weighs on the current accounts, however requests
\* overlap: annulling it, or replacing it, takes back all it posted.
THEOREM EntriesFollowStatus == Spec => []StatusInv
<1>1. StatusInv /\ [Next]_vars => StatusInv'
  BY TypeStep, EntriesStep DEF StatusInv
<1> QED
  BY InitEntries, <1>1, PTL DEF Spec

\* A movement is confirmed only from a draft and annulled only once, however
\* late a request writes.
THEOREM StatusAdvances == Spec => StatusOnlyAdvances
<1>1. StatusInv /\ [Next]_vars =>
          [\A m \in Movements :
              status'[m] # status[m] =>
                  \/ status[m] = "NONE" /\ status'[m] = "BORRADOR"
                  \/ status[m] = "BORRADOR" /\ status'[m] = "CONFIRMADA"
                  \/ status[m] = "CONFIRMADA" /\ status'[m] = "CANCELADA"
                  \/ status'[m] = "DELETED"]_vars
  BY StatusStep DEF StatusInv, Advances
<1> QED
  BY EntriesFollowStatus, <1>1, PTL DEF Spec, StatusOnlyAdvances

-----------------------------------------------------------------------------
(* Corrections                                                             *)

\* A movement that is not in the book is no draft of a correction.
NoneOutside ==
    \A m \in Movements : status[m] \in {"NONE", "DELETED"} => correction[m] = NoCorrection

\* What a late START request read can only have advanced: the movement it
\* corrects is not a draft again.
StartsAdvance ==
    \A r \in Requests :
        request[r].op = "START" =>
            /\ status[request[r].movement] \in {"CONFIRMADA", "CANCELADA", "DELETED"}
            /\ request[r].mode = "RECREATE" =>
                  status[request[r].movement] \in {"CANCELADA", "DELETED"}

CorrectionInv == StatusInv /\ CorrectionsSettleOnce /\ NoneOutside /\ StartsAdvance

\* A request in flight is never about a movement the step confirms or revives.
LEMMA StartsStep ==
    ASSUME CorrectionInv, [Next]_vars
    PROVE  StartsAdvance'
<1> USE DEF CorrectionInv, StatusInv
<1>1. \A m \in Movements : status'[m] # status[m] => Advances(m)
  BY StatusStep
<1>2. \A r \in Requests : request[r].op = "START" => request[r].movement \in Movements
  BY RequestType DEF StartRequests
<1>3. ASSUME NEW r \in Requests, request'[r] = request[r], request[r].op = "START"
      PROVE  /\ status'[request[r].movement] \in {"CONFIRMADA", "CANCELADA", "DELETED"}
             /\ request[r].mode = "RECREATE" =>
                   status'[request[r].movement] \in {"CANCELADA", "DELETED"}
  BY <1>1, <1>2, <1>3 DEF StartsAdvance, Advances
<1>4. ASSUME NEW r \in Requests, NEW m \in Movements,
             \/ ReadForSave(r, m)
             \/ ReadForDiscard(r, m)
             \/ ReadForExecution(r, m)
             \/ \E h \in Headers, confirmClear \in BOOLEAN : ReadForPatch(r, m, h, confirmClear)
             \/ \E mode \in Modes : ReadForCorrection(r, m, mode)
      PROVE  StartsAdvance'
  <2>1. PICK q \in ExecuteRequests \cup SaveRequests \cup DiscardRequests
                     \cup PatchRequests \cup StartRequests :
            /\ request' = [request EXCEPT ![r] = q]
            /\ q.op = "START" => Correctable(q.movement, q.mode)
    BY <1>4, ReadEffect
  <2>2. UNCHANGED status
    BY <1>4, ReadEffect DEF Rows
  <2> QED
    BY <1>3, <2>1, <2>2 DEF StartsAdvance, Correctable, TypeOK
<1>5. CASE \E r \in Requests : Finish(r)
  <2>1. PICK r \in Requests : request' = [request EXCEPT ![r] = Idle]
    BY <1>5 DEF Finish
  <2> QED
    BY <1>3, <2>1 DEF StartsAdvance, TypeOK, Idle
<1>6. CASE UNCHANGED request
  BY <1>3, <1>6 DEF StartsAdvance
<1>7. ASSUME NEW r \in Requests, NEW a \in Amounts \cup {0},
             Execute(r, a) \/ ExecuteReplacement(r, a)
      PROVE  Finish(r)
  BY <1>7 DEF Execute, ExecuteReplacement
<1>8. ASSUME NEW r \in Requests,
             \/ SaveMovementDraft(r) \/ PatchMovementHeader(r)
             \/ DiscardMovementDraft(r) \/ RollBack(r)
             \/ \E d \in Movements : StartCorrection(r, d)
      PROVE  Finish(r)
  BY <1>8 DEF SaveMovementDraft, PatchMovementHeader, DiscardMovementDraft, RollBack, StartCorrection
<1>9. ASSUME \/ \E m \in Movements, h \in Headers : CreateMovement(m, h)
             \/ \E m \in Movements : CancelMovement(m)
             \/ \E c \in Clients : ToggleCC(c)
             \/ UNCHANGED vars
      PROVE  UNCHANGED request
  BY <1>9 DEF CreateMovement, CancelMovement, ToggleCC, vars
<1> QED
  BY <1>4, <1>5, <1>6, <1>7, <1>8, <1>9 DEF Next

\* What the invariant says of one correction.
LEMMA OneCorrection ==
    ASSUME CorrectionInv, NEW d \in Movements, correction[d] # NoCorrection
    PROVE  /\ correction[d] \in Corrections
           /\ correction[d].source \in Movements
           /\ correction[d].status = "PENDING" <=> status[d] = "BORRADOR"
           /\ status[correction[d].source] \in {"CONFIRMADA", "CANCELADA"}
           /\ correction[d].mode = "RECREATE" \/ correction[d].status = "APPLIED"
                 => status[correction[d].source] = "CANCELADA"
<1>1. correction[d] \in Corrections
  BY DEF CorrectionInv, StatusInv, TypeOK
<1> QED
  BY <1>1 DEF CorrectionInv, CorrectionsSettleOnce, Corrections

\* The corrections settle whatever is confirmed: a draft that replaces nothing
\* is no modification, and one that replaces its source is the first to do so.
LEMMA CorrectionStep ==
    ASSUME CorrectionInv, [Next]_vars
    PROVE  CorrectionsSettleOnce' /\ NoneOutside'
<1> USE DEF CorrectionInv, StatusInv
<1>1. ASSUME NEW m \in Movements, NEW h \in Headers, CreateMovement(m, h)
      PROVE  CorrectionsSettleOnce' /\ NoneOutside'
  <2>1. correction[m] = NoCorrection
    BY <1>1 DEF CreateMovement, NoneOutside
  <2> QED
    BY <1>1, <2>1, OneCorrection
    DEF CreateMovement, CorrectionsSettleOnce, NoneOutside, Modification, TypeOK
<1>2. ASSUME NEW m \in Movements, CancelMovement(m)
      PROVE  CorrectionsSettleOnce' /\ NoneOutside'
  BY <1>2, OneCorrection
  DEF CancelMovement, Annullable, CorrectionsSettleOnce, NoneOutside, Modification, TypeOK
<1>3. ASSUME NEW r \in Requests, NEW m \in Movements,
             \/ ReadForSave(r, m)
             \/ ReadForDiscard(r, m)
             \/ ReadForExecution(r, m)
             \/ \E h \in Headers, confirmClear \in BOOLEAN : ReadForPatch(r, m, h, confirmClear)
             \/ \E mode \in Modes : ReadForCorrection(r, m, mode)
      PROVE  UNCHANGED <<status, correction>>
  BY <1>3, ReadEffect DEF Rows
<1>4. ASSUME NEW r \in Requests, NEW d \in Movements, StartCorrection(r, d)
      PROVE  CorrectionsSettleOnce' /\ NoneOutside'
  <2> DEFINE q == request[r]
             new == [status |-> "PENDING", mode |-> q.mode, source |-> q.movement]
  <2>1. q.movement \in Movements /\ q.mode \in Modes
    BY <1>4, RequestType DEF StartCorrection, StartRequests
  <2>2. /\ status[q.movement] \in {"CONFIRMADA", "CANCELADA"}
        /\ q.mode = "RECREATE" => status[q.movement] = "CANCELADA"
    BY <1>4 DEF StartCorrection, StartsAdvance, Exists
  <2>3. /\ status[d] = "NONE" /\ correction[d] = NoCorrection
        /\ status' = [status EXCEPT ![d] = "BORRADOR"]
        /\ correction' = [correction EXCEPT ![d] = new]
    BY <1>4 DEF StartCorrection, NoneOutside
  <2>4. new.status = "PENDING" /\ new.mode = q.mode /\ new.source = q.movement
    OBVIOUS
  <2> HIDE DEF new, q
  <2> QED
    BY <2>1, <2>2, <2>3, <2>4, OneCorrection
    DEF CorrectionsSettleOnce, NoneOutside, Modification, TypeOK
<1>5. ASSUME NEW r \in Requests, DiscardMovementDraft(r)
      PROVE  CorrectionsSettleOnce' /\ NoneOutside'
  <2>1. PICK m \in Movements :
            /\ \A d \in Movements : correction[d] # NoCorrection => correction[d].source # m
            /\ status' = [status EXCEPT ![m] = "DELETED"]
            /\ correction' = [correction EXCEPT ![m] = NoCorrection]
    BY <1>5, RequestType DEF DiscardMovementDraft, DiscardRequests
  <2>2. NoCorrection.status # "APPLIED"
    BY DEF NoCorrection
  <2> QED
    BY <2>1, <2>2, OneCorrection
    DEF CorrectionsSettleOnce, NoneOutside, Modification, TypeOK
<1>6. ASSUME NEW r \in Requests, NEW a \in Amounts \cup {0}, Execute(r, a)
      PROVE  CorrectionsSettleOnce' /\ NoneOutside'
  <2>1. PICK m \in Movements :
            /\ status[m] = "BORRADOR" /\ ~Replaces(m)
            /\ status' = [status EXCEPT ![m] = "CONFIRMADA"]
            /\ correction' = [correction EXCEPT ![m] = AfterConfirm(@)]
    BY <1>6, ExecuteEffect DEF Confirms
  <2>2. correction[m] # NoCorrection =>
            /\ correction[m].mode = "RECREATE"
            /\ AfterConfirm(correction[m]) =
                  [status |-> "APPLIED", mode |-> "RECREATE", source |-> correction[m].source]
    BY <2>1, OneCorrection, AppliedType DEF Replaces, Corrections, Modes
  <2>3. correction[m] = NoCorrection => AfterConfirm(correction[m]) = NoCorrection
    BY AppliedType DEF TypeOK
  <2> QED
    BY <2>1, <2>2, <2>3, OneCorrection
    DEF CorrectionsSettleOnce, NoneOutside, Modification, TypeOK
<1>7. ASSUME NEW r \in Requests, NEW a \in Amounts \cup {0}, ExecuteReplacement(r, a)
      PROVE  CorrectionsSettleOnce' /\ NoneOutside'
  <2>1. PICK m \in Movements, s \in Movements :
            /\ s # m
            /\ status[m] = "BORRADOR" /\ Replaces(m)
            /\ s = correction[m].source /\ status[s] = "CONFIRMADA"
            /\ status' = [[status EXCEPT ![s] = "CANCELADA"] EXCEPT ![m] = "CONFIRMADA"]
            /\ correction' = [correction EXCEPT ![m] = AfterConfirm(@)]
    BY <1>7, ReplacementEffect DEF Confirms
  <2>2. /\ correction[m] # NoCorrection
        /\ AfterConfirm(correction[m]) =
              [status |-> "APPLIED", mode |-> "MODIFY", source |-> s]
    BY <2>1, ReplacesType, AppliedType DEF Replaces, NoCorrection
  <2>3. \A e \in Movements : Modification(e) => correction[e].source # s
    BY <2>1, OneCorrection DEF Modification, NoCorrection
  <2> QED
    BY <2>1, <2>2, <2>3, OneCorrection
    DEF CorrectionsSettleOnce, NoneOutside, Modification, TypeOK
<1>8. ASSUME NEW r \in Requests, SaveMovementDraft(r) \/ PatchMovementHeader(r) \/ RollBack(r)
      PROVE  UNCHANGED <<status, correction>>
  BY <1>8 DEF SaveMovementDraft, PatchMovementHeader, RollBack
<1>9. ASSUME (\E c \in Clients : ToggleCC(c)) \/ UNCHANGED vars
      PROVE  UNCHANGED <<status, correction>>
  BY <1>9 DEF ToggleCC, vars
<1>10. CASE UNCHANGED <<status, correction>>
  BY <1>10 DEF CorrectionsSettleOnce, NoneOutside, Modification
<1> QED
  BY <1>1, <1>2, <1>3, <1>4, <1>5, <1>6, <1>7, <1>8, <1>9, <1>10 DEF Next

\* No movement is replaced by two modifications, however many corrections of it,
\* annulments and discards compete for it.
THEOREM CorrectionsSettle == Spec => []CorrectionsSettleOnce
<1>1. Init => CorrectionInv
  BY InitEntries
  DEF Init, CorrectionInv, CorrectionsSettleOnce, NoneOutside, StartsAdvance, Idle
<1>2. CorrectionInv /\ [Next]_vars => CorrectionInv'
  BY TypeStep, EntriesStep, StartsStep, CorrectionStep DEF CorrectionInv, StatusInv
<1>3. CorrectionInv => CorrectionsSettleOnce
  BY DEF CorrectionInv
<1> QED
  BY <1>1, <1>2, <1>3, PTL DEF Spec

-----------------------------------------------------------------------------
(* One request at a time                                                   *)

\* The handlers do not overlap.
OneRequest == \A r, s \in Requests : r = s

\* What a request in flight has read is still so when it writes: its movement
\* is the draft it saw, under the header it saw, and a correction still starts
\* from a movement of the header it copied.
ReadIsCurrent ==
    \A r \in Requests :
        LET q == request[r]
            m == q.movement
        IN /\ q.op \in {"SAVE", "DISCARD", "PATCH", "EXECUTE"} => status[m] = "BORRADOR"
           /\ q.op \in {"SAVE", "EXECUTE", "START"} => header[m] = q.header
           /\ q.op = "START" => status[m] \in {"CONFIRMADA", "CANCELADA"}
           /\ q.op = "PATCH" => q.clear = (NeedsClear(header[m], q.header) /\ draft[m] # NoDraft)

\* A payload was entered for the header of its movement, also once the movement
\* is confirmed: corrections copy it.  Nobody enters one before the movement is.
PayloadMatches ==
    \A m \in Movements :
        /\ status[m] = "NONE" => draft[m] = NoDraft
        /\ status[m] # "DELETED" /\ draft[m] # NoDraft => draft[m] = header[m]

SequentialInv == ReadIsCurrent /\ PayloadMatches /\ LinesMatchHeader

\* Once the only request has written, nothing is in flight.
LEMMA NothingInFlight ==
    ASSUME OneRequest, TypeOK, NEW r \in Requests, Finish(r)
    PROVE  ReadIsCurrent'
<1>1. \A s \in Requests : request'[s] = Idle
  BY DEF OneRequest, TypeOK, Finish
<1> QED
  BY <1>1 DEF ReadIsCurrent, Idle

\* What the only request reads is current.
LEMMA ReadIsFresh ==
    ASSUME OneRequest, TypeOK, NEW r \in Requests, NEW q, Read(r, q),
           q.op \in {"SAVE", "DISCARD", "PATCH", "EXECUTE"} => status[q.movement] = "BORRADOR",
           q.op \in {"SAVE", "EXECUTE", "START"} => header[q.movement] = q.header,
           q.op = "START" => status[q.movement] \in {"CONFIRMADA", "CANCELADA"},
           q.op = "PATCH" => q.clear = (NeedsClear(header[q.movement], q.header)
                                        /\ draft[q.movement] # NoDraft)
    PROVE  ReadIsCurrent'
<1>1. \A s \in Requests : request'[s] = q
  BY DEF OneRequest, TypeOK, Read
<1>2. UNCHANGED <<status, header, draft>>
  BY DEF Read
<1> QED
  BY <1>1, <1>2 DEF ReadIsCurrent, NeedsClear

\* A step that writes a movement no request is about, or annuls one, leaves what
\* was read as it was.
LEMMA StillCurrent ==
    ASSUME ReadIsCurrent, NEW m \in Movements, UNCHANGED request,
           status[m] \in {"NONE", "CONFIRMADA"},
           \A n \in Movements \ {m} : status'[n] = status[n] /\ header'[n] = header[n],
           status[m] = "CONFIRMADA" => status'[m] = "CANCELADA" /\ header'[m] = header[m],
           UNCHANGED draft,
           \A r \in Requests : request[r].op # "IDLE" => request[r].movement \in Movements
    PROVE  ReadIsCurrent'
<1>1. ASSUME NEW r \in Requests, request[r].op \in {"SAVE", "DISCARD", "PATCH", "EXECUTE"}
      PROVE  status'[request[r].movement] = "BORRADOR"
             /\ header'[request[r].movement] = header[request[r].movement]
  BY <1>1 DEF ReadIsCurrent
<1>2. ASSUME NEW r \in Requests, request[r].op = "START"
      PROVE  status'[request[r].movement] \in {"CONFIRMADA", "CANCELADA"}
             /\ header'[request[r].movement] = header[request[r].movement]
  BY <1>2 DEF ReadIsCurrent
<1> QED
  BY <1>1, <1>2 DEF ReadIsCurrent, NeedsClear

\* A request in flight names a movement.
LEMMA RequestMovement ==
    ASSUME TypeOK, NEW r \in Requests
    PROVE  request[r].op # "IDLE" => request[r].movement \in Movements
BY DEF TypeOK, Idle, ExecuteRequests, SaveRequests, DiscardRequests, PatchRequests, StartRequests

\* With one request, what it read is current when it writes.
LEMMA CurrentStep ==
    ASSUME OneRequest, TypeOK, ReadIsCurrent, [Next]_vars
    PROVE  ReadIsCurrent'
<1>1. ASSUME NEW m \in Movements, NEW h \in Headers, CreateMovement(m, h)
      PROVE  ReadIsCurrent'
  <2>1. /\ status[m] = "NONE" /\ UNCHANGED <<draft, request>>
        /\ \A n \in Movements \ {m} : status'[n] = status[n] /\ header'[n] = header[n]
    BY <1>1 DEF CreateMovement, TypeOK
  <2> QED
    BY <2>1, StillCurrent, RequestMovement
<1>2. ASSUME NEW m \in Movements, CancelMovement(m)
      PROVE  ReadIsCurrent'
  <2>1. /\ status[m] = "CONFIRMADA" /\ UNCHANGED <<header, draft, request>>
        /\ status'[m] = "CANCELADA"
        /\ \A n \in Movements \ {m} : status'[n] = status[n]
    BY <1>2 DEF CancelMovement, Annullable, TypeOK
  <2> QED
    BY <2>1, StillCurrent, RequestMovement
<1>3. ASSUME NEW r \in Requests, NEW m \in Movements, ReadForSave(r, m)
      PROVE  ReadIsCurrent'
  BY <1>3, ReadIsFresh DEF ReadForSave, MaySave
<1>4. ASSUME NEW r \in Requests, NEW m \in Movements, ReadForDiscard(r, m)
      PROVE  ReadIsCurrent'
  BY <1>4, ReadIsFresh DEF ReadForDiscard, MayDiscard
<1>5. ASSUME NEW r \in Requests, NEW m \in Movements, ReadForExecution(r, m)
      PROVE  ReadIsCurrent'
  BY <1>5, ReadIsFresh DEF ReadForExecution
<1>6. ASSUME NEW r \in Requests, NEW m \in Movements, NEW h \in Headers,
             NEW confirmClear \in BOOLEAN, ReadForPatch(r, m, h, confirmClear)
      PROVE  ReadIsCurrent'
  BY <1>6, ReadIsFresh DEF ReadForPatch, MayPatch
<1>7. ASSUME NEW r \in Requests, NEW m \in Movements, NEW mode \in Modes,
             ReadForCorrection(r, m, mode)
      PROVE  ReadIsCurrent'
  BY <1>7, ReadIsFresh DEF ReadForCorrection, Correctable
<1>8. ASSUME NEW r \in Requests, NEW a \in Amounts \cup {0},
             Execute(r, a) \/ ExecuteReplacement(r, a)
      PROVE  Finish(r)
  BY <1>8 DEF Execute, ExecuteReplacement
<1>9. ASSUME NEW r \in Requests,
             \/ SaveMovementDraft(r) \/ PatchMovementHeader(r)
             \/ DiscardMovementDraft(r) \/ RollBack(r)
             \/ \E d \in Movements : StartCorrection(r, d)
      PROVE  Finish(r)
  BY <1>9 DEF SaveMovementDraft, PatchMovementHeader, DiscardMovementDraft, RollBack, StartCorrection
<1>10. ASSUME (\E c \in Clients : ToggleCC(c)) \/ UNCHANGED vars
       PROVE  ReadIsCurrent'
  <2>1. UNCHANGED <<status, header, draft, request>>
    BY <1>10 DEF ToggleCC, vars
  <2> QED
    BY <2>1 DEF ReadIsCurrent, NeedsClear
<1> QED
  BY <1>1, <1>2, <1>3, <1>4, <1>5, <1>6, <1>7, <1>8, <1>9, <1>10, NothingInFlight DEF Next

\* What the writing requests write, when what they read is current.
LEMMA SequentialWrites ==
    ASSUME TypeOK, ReadIsCurrent, NEW r \in Requests
    PROVE  /\ SaveMovementDraft(r) =>
                 \E m \in Movements :
                    /\ status[m] = "BORRADOR" /\ draft' = [draft EXCEPT ![m] = header[m]]
                    /\ UNCHANGED <<status, header, operation>>
           /\ PatchMovementHeader(r) =>
                 \E m \in Movements, h \in Headers :
                    /\ status[m] = "BORRADOR" /\ header' = [header EXCEPT ![m] = h]
                    /\ draft' = [draft EXCEPT ![m] = IF NeedsClear(header[m], h) /\ draft[m] # NoDraft
                                                    THEN NoDraft ELSE draft[m]]
                    /\ UNCHANGED <<status, operation>>
           /\ DiscardMovementDraft(r) =>
                 \E m \in Movements :
                    /\ status[m] = "BORRADOR" /\ status' = [status EXCEPT ![m] = "DELETED"]
                    /\ header' = [header EXCEPT ![m] = NoHeader]
                    /\ draft' = [draft EXCEPT ![m] = NoDraft]
                    /\ operation' = [operation EXCEPT ![m] = NoOperation]
<1>1. ASSUME SaveMovementDraft(r)
      PROVE  \E m \in Movements :
                /\ status[m] = "BORRADOR" /\ draft' = [draft EXCEPT ![m] = header[m]]
                /\ UNCHANGED <<status, header, operation>>
  <2>1. request[r].op = "SAVE" /\ request[r].movement \in Movements
    BY <1>1, RequestType DEF SaveMovementDraft, SaveRequests
  <2> QED
    BY <1>1, <2>1 DEF SaveMovementDraft, ReadIsCurrent
<1>2. ASSUME PatchMovementHeader(r)
      PROVE  \E m \in Movements, h \in Headers :
                /\ status[m] = "BORRADOR" /\ header' = [header EXCEPT ![m] = h]
                /\ draft' = [draft EXCEPT ![m] = IF NeedsClear(header[m], h) /\ draft[m] # NoDraft
                                                THEN NoDraft ELSE draft[m]]
                /\ UNCHANGED <<status, operation>>
  <2>1. request[r].op = "PATCH" /\ request[r].movement \in Movements /\ request[r].header \in Headers
    BY <1>2, RequestType DEF PatchMovementHeader, PatchRequests
  <2>2. request[r].clear = (NeedsClear(header[request[r].movement], request[r].header)
                            /\ draft[request[r].movement] # NoDraft)
    BY <2>1 DEF ReadIsCurrent
  <2>3. status[request[r].movement] = "BORRADOR"
    BY <2>1 DEF ReadIsCurrent
  <2> QED
    BY <1>2, <2>1, <2>2, <2>3 DEF PatchMovementHeader
<1>3. ASSUME DiscardMovementDraft(r)
      PROVE  \E m \in Movements :
                /\ status[m] = "BORRADOR" /\ status' = [status EXCEPT ![m] = "DELETED"]
                /\ header' = [header EXCEPT ![m] = NoHeader]
                /\ draft' = [draft EXCEPT ![m] = NoDraft]
                /\ operation' = [operation EXCEPT ![m] = NoOperation]
  <2>1. request[r].op = "DISCARD" /\ request[r].movement \in Movements
    BY <1>3, RequestType DEF DiscardMovementDraft, DiscardRequests
  <2>2. status[request[r].movement] = "BORRADOR"
    BY <2>1 DEF ReadIsCurrent
  <2> QED
    BY <1>3, <2>1, <2>2 DEF DiscardMovementDraft
<1> QED
  BY <1>1, <1>2, <1>3

\* What a confirmation records, when what it read is current.
LEMMA SequentialConfirms ==
    ASSUME TypeOK, ReadIsCurrent, NEW r \in Requests, NEW a \in Amounts \cup {0},
           Execute(r, a) \/ ExecuteReplacement(r, a)
    PROVE  \E m \in Movements, s \in Movements :
              /\ status[m] = "BORRADOR"
              /\ operation' = [operation EXCEPT ![m] = header[m]]
              /\ \/ status' = [status EXCEPT ![m] = "CONFIRMADA"]
                 \/ /\ s # m /\ status[s] = "CONFIRMADA"
                    /\ status' = [[status EXCEPT ![s] = "CANCELADA"] EXCEPT ![m] = "CONFIRMADA"]
              /\ UNCHANGED <<header, draft>>
<1>1. request[r].op = "EXECUTE" /\ request[r].movement \in Movements
  BY RequestType DEF Execute, ExecuteReplacement, ExecuteRequests
<1>2. request[r].header = header[request[r].movement] /\ status[request[r].movement] = "BORRADOR"
  BY <1>1 DEF ReadIsCurrent
<1>3. operation' = [operation EXCEPT ![request[r].movement] = header[request[r].movement]]
  BY <1>2 DEF Execute, ExecuteReplacement, Record
<1>4. UNCHANGED <<header, draft>>
  BY DEF Execute, ExecuteReplacement
<1>5. CASE Execute(r, a)
  BY <1>1, <1>2, <1>3, <1>4, <1>5 DEF Execute
<1>6. CASE ExecuteReplacement(r, a)
  <2> DEFINE s == correction[request[r].movement].source
  <2>1. Replaces(request[r].movement) /\ status[s] = "CONFIRMADA"
    BY <1>6 DEF ExecuteReplacement, Annullable
  <2>2. s \in Movements
    BY <1>1, <2>1, ReplacesType DEF Corrections
  <2>3. s # request[r].movement
    BY <1>2, <2>1
  <2>4. status' = [[status EXCEPT ![s] = "CANCELADA"] EXCEPT ![request[r].movement] = "CONFIRMADA"]
    BY <1>6 DEF ExecuteReplacement
  <2> HIDE DEF s
  <2> QED
    BY <1>1, <1>2, <1>3, <1>4, <2>1, <2>2, <2>3, <2>4
<1> QED
  BY <1>5, <1>6

\* Payloads and lines follow the headers when requests do not overlap.
LEMMA HeaderStep ==
    ASSUME TypeOK, SequentialInv, [Next]_vars
    PROVE  PayloadMatches' /\ LinesMatchHeader'
<1> USE DEF SequentialInv
<1>1. ASSUME NEW m \in Movements, NEW h \in Headers, CreateMovement(m, h)
      PROVE  PayloadMatches' /\ LinesMatchHeader'
  BY <1>1 DEF CreateMovement, PayloadMatches, LinesMatchHeader, TypeOK
<1>2. ASSUME NEW m \in Movements, CancelMovement(m)
      PROVE  PayloadMatches' /\ LinesMatchHeader'
  BY <1>2 DEF CancelMovement, Annullable, PayloadMatches, LinesMatchHeader, TypeOK
<1>3. ASSUME NEW r \in Requests, NEW m \in Movements,
             \/ ReadForSave(r, m)
             \/ ReadForDiscard(r, m)
             \/ ReadForExecution(r, m)
             \/ \E h \in Headers, confirmClear \in BOOLEAN : ReadForPatch(r, m, h, confirmClear)
             \/ \E mode \in Modes : ReadForCorrection(r, m, mode)
      PROVE  UNCHANGED Rows
  BY <1>3, ReadEffect
<1>4. ASSUME NEW r \in Requests, NEW d \in Movements, StartCorrection(r, d)
      PROVE  PayloadMatches' /\ LinesMatchHeader'
  <2> DEFINE m == request[r].movement
  <2>1. request[r].op = "START" /\ m \in Movements
    BY <1>4, RequestType DEF StartCorrection, StartRequests
  <2>2. request[r].header = header[m] /\ status[m] \in {"CONFIRMADA", "CANCELADA"}
    BY <2>1 DEF ReadIsCurrent
  <2>3. draft[m] = NoDraft \/ draft[m] = header[m]
    BY <2>1, <2>2 DEF PayloadMatches
  <2>4. /\ status[d] = "NONE" /\ status' = [status EXCEPT ![d] = "BORRADOR"]
        /\ header' = [header EXCEPT ![d] = header[m]]
        /\ draft' = [draft EXCEPT ![d] = header[m]]
        /\ UNCHANGED operation
    BY <1>4, <2>2, <2>3 DEF StartCorrection
  <2> QED
    BY <2>4 DEF PayloadMatches, LinesMatchHeader, TypeOK
<1>5. ASSUME NEW r \in Requests, SaveMovementDraft(r)
      PROVE  PayloadMatches' /\ LinesMatchHeader'
  BY <1>5, SequentialWrites DEF PayloadMatches, LinesMatchHeader, TypeOK
<1>6. ASSUME NEW r \in Requests, PatchMovementHeader(r)
      PROVE  PayloadMatches' /\ LinesMatchHeader'
  <2>1. PICK m \in Movements, h \in Headers :
            /\ status[m] = "BORRADOR" /\ header' = [header EXCEPT ![m] = h]
            /\ draft' = [draft EXCEPT ![m] = IF NeedsClear(header[m], h) /\ draft[m] # NoDraft
                                            THEN NoDraft ELSE draft[m]]
            /\ UNCHANGED <<status, operation>>
    BY <1>6, SequentialWrites
  <2>2. ~NeedsClear(header[m], h) => header[m] = h
    BY DEF NeedsClear, TypeOK, Headers
  <2>3. draft'[m] # NoDraft => draft'[m] = h
    BY <2>1, <2>2 DEF PayloadMatches, TypeOK
  <2> QED
    BY <2>1, <2>3 DEF PayloadMatches, LinesMatchHeader, TypeOK
<1>7. ASSUME NEW r \in Requests, DiscardMovementDraft(r)
      PROVE  PayloadMatches' /\ LinesMatchHeader'
  <2>1. PICK m \in Movements :
            /\ status[m] = "BORRADOR" /\ status' = [status EXCEPT ![m] = "DELETED"]
            /\ header' = [header EXCEPT ![m] = NoHeader]
            /\ draft' = [draft EXCEPT ![m] = NoDraft]
            /\ operation' = [operation EXCEPT ![m] = NoOperation]
    BY <1>7, SequentialWrites
  <2> QED
    BY <2>1 DEF PayloadMatches, LinesMatchHeader, TypeOK
<1>8. ASSUME NEW r \in Requests, NEW a \in Amounts \cup {0},
             Execute(r, a) \/ ExecuteReplacement(r, a)
      PROVE  PayloadMatches' /\ LinesMatchHeader'
  <2>1. PICK m \in Movements, s \in Movements :
            /\ status[m] = "BORRADOR"
            /\ operation' = [operation EXCEPT ![m] = header[m]]
            /\ \/ status' = [status EXCEPT ![m] = "CONFIRMADA"]
               \/ /\ s # m /\ status[s] = "CONFIRMADA"
                  /\ status' = [[status EXCEPT ![s] = "CANCELADA"] EXCEPT ![m] = "CONFIRMADA"]
            /\ UNCHANGED <<header, draft>>
    BY <1>8, SequentialConfirms
  <2>2. operation'[m] = header'[m] /\ status'[m] = "CONFIRMADA"
    BY <2>1 DEF TypeOK
  <2>3. \A n \in Movements \ {m} :
            /\ operation'[n] = operation[n]
            /\ \/ status'[n] = status[n]
               \/ status[n] = "CONFIRMADA" /\ status'[n] = "CANCELADA"
    BY <2>1 DEF TypeOK
  <2>4. LinesMatchHeader'
    BY <2>1, <2>2, <2>3 DEF LinesMatchHeader
  <2>5. PayloadMatches'
    BY <2>1, <2>2, <2>3 DEF PayloadMatches
  <2> QED
    BY <2>4, <2>5
<1>9. ASSUME NEW r \in Requests, RollBack(r)
      PROVE  UNCHANGED Rows
  BY <1>9 DEF RollBack, Rows
<1>10. ASSUME (\E c \in Clients : ToggleCC(c)) \/ UNCHANGED vars \/ UNCHANGED Rows
       PROVE  PayloadMatches' /\ LinesMatchHeader'
  <2>1. UNCHANGED <<status, header, draft, operation>>
    BY <1>10 DEF ToggleCC, vars, Rows
  <2> QED
    BY <2>1 DEF PayloadMatches, LinesMatchHeader
<1> QED
  BY <1>1, <1>2, <1>3, <1>4, <1>5, <1>6, <1>7, <1>8, <1>9, <1>10 DEF Next

\* The strengthening holds in every reachable state of one request.
LEMMA SequentialInvariant ==
    ASSUME OneRequest
    PROVE  Spec => [](StatusInv /\ SequentialInv)
<1>1. Init => SequentialInv
  BY DEF Init, SequentialInv, ReadIsCurrent, PayloadMatches, LinesMatchHeader, Idle
<1>2. StatusInv /\ SequentialInv /\ [Next]_vars => StatusInv' /\ SequentialInv'
  BY TypeStep, EntriesStep, CurrentStep, HeaderStep DEF StatusInv, SequentialInv
<1> QED
  BY InitEntries, <1>1, <1>2, PTL DEF Spec

\* When requests do not overlap, the lines of a movement record the operation of
\* its header and its payload was entered for it.
THEOREM PayloadAndLinesFollow ==
    ASSUME OneRequest
    PROVE  Spec => []FollowsHeader
<1>1. SequentialInv => FollowsHeader
  BY DEF SequentialInv, PayloadMatches, FollowsHeader, DraftMatchesHeader
<1> QED
  BY <1>1, SequentialInvariant, PTL

\* No step of one request takes a confirmed movement out of the book, or
\* touches the payload it was confirmed with.
LEMMA KeptStep ==
    ASSUME TypeOK, SequentialInv, [Next]_vars, NEW m \in Movements,
           status[m] \in {"CONFIRMADA", "CANCELADA"}
    PROVE  status'[m] # "DELETED" /\ draft'[m] = draft[m]
<1>a. ReadIsCurrent
  BY DEF SequentialInv
<1>1. ASSUME NEW n \in Movements, NEW h \in Headers, CreateMovement(n, h)
      PROVE  status'[m] # "DELETED" /\ draft'[m] = draft[m]
  BY <1>1 DEF CreateMovement, TypeOK
<1>2. ASSUME NEW n \in Movements, CancelMovement(n)
      PROVE  status'[m] # "DELETED" /\ draft'[m] = draft[m]
  BY <1>2 DEF CancelMovement, TypeOK
<1>3. ASSUME NEW r \in Requests, NEW n \in Movements,
             \/ ReadForSave(r, n)
             \/ ReadForDiscard(r, n)
             \/ ReadForExecution(r, n)
             \/ \E h \in Headers, confirmClear \in BOOLEAN : ReadForPatch(r, n, h, confirmClear)
             \/ \E mode \in Modes : ReadForCorrection(r, n, mode)
      PROVE  UNCHANGED <<status, draft>>
  BY <1>3, ReadEffect DEF Rows
<1>4. ASSUME NEW r \in Requests, NEW d \in Movements, StartCorrection(r, d)
      PROVE  status'[m] # "DELETED" /\ draft'[m] = draft[m]
  BY <1>4 DEF StartCorrection, TypeOK
<1>5. ASSUME NEW r \in Requests,
             SaveMovementDraft(r) \/ PatchMovementHeader(r) \/ DiscardMovementDraft(r)
      PROVE  status'[m] # "DELETED" /\ draft'[m] = draft[m]
  <2>1. PICK n \in Movements :
            /\ status[n] = "BORRADOR"
            /\ status' = status \/ status' = [status EXCEPT ![n] = "DELETED"]
            /\ \E p : draft' = [draft EXCEPT ![n] = p]
    BY <1>5, <1>a, SequentialWrites
  <2> QED
    BY <2>1 DEF TypeOK
<1>6. ASSUME NEW r \in Requests, NEW a \in Amounts \cup {0},
             Execute(r, a) \/ ExecuteReplacement(r, a)
      PROVE  status'[m] # "DELETED" /\ draft'[m] = draft[m]
  <2>1. PICK n \in Movements, s \in Movements :
            /\ \/ status' = [status EXCEPT ![n] = "CONFIRMADA"]
               \/ status' = [[status EXCEPT ![s] = "CANCELADA"] EXCEPT ![n] = "CONFIRMADA"]
            /\ UNCHANGED draft
    BY <1>6, <1>a, SequentialConfirms
  <2> QED
    BY <2>1 DEF TypeOK
<1>7. ASSUME \/ \E r \in Requests : RollBack(r)
             \/ \E c \in Clients : ToggleCC(c)
             \/ UNCHANGED vars
      PROVE  UNCHANGED <<status, draft>>
  BY <1>7 DEF RollBack, ToggleCC, vars
<1>8. CASE UNCHANGED <<status, draft>>
  BY <1>8
<1> QED
  BY <1>1, <1>2, <1>3, <1>4, <1>5, <1>6, <1>7, <1>8 DEF Next

\* When requests do not overlap, what was confirmed stays in the book, annulled
\* at most, with the payload its corrections start from.
THEOREM WhatIsConfirmedStays ==
    ASSUME OneRequest
    PROVE  Spec => ConfirmedIsKept
<1>1. StatusInv /\ SequentialInv /\ [Next]_vars =>
          [\A m \in Movements :
              status[m] \in {"CONFIRMADA", "CANCELADA"} =>
                  status'[m] # "DELETED" /\ draft'[m] = draft[m]]_vars
  BY KeptStep DEF StatusInv
<1> QED
  BY <1>1, SequentialInvariant, PTL DEF Spec, ConfirmedIsKept

-----------------------------------------------------------------------------
(* The services implement the life of a movement                           *)

\* The stage of a movement as a function of its status alone.
StageOf(s) == CASE s = "NONE"       -> "UNUSED"
                [] s = "BORRADOR"   -> "DRAFT"
                [] s = "CONFIRMADA" -> "STANDING"
                [] s = "CANCELADA"  -> "ANNULLED"
                [] s = "DELETED"    -> "DROPPED"

Stages == [m \in Movements |-> Stage(m)]

\* The stages follow the statuses, before and after a step.
LEMMA StageFollows ==
    /\ Stages = [m \in Movements |-> StageOf(status[m])]
    /\ Stages' = [m \in Movements |-> StageOf(status'[m])]
    /\ \A m \in Movements : Stage(m) = StageOf(status[m])
BY DEF Stages, Stage, StageOf

\* A status that is written moves one stage.
LEMMA StageWrite ==
    ASSUME TypeOK, NEW m \in Movements, NEW s, status' = [status EXCEPT ![m] = s]
    PROVE  Stages' = [Stages EXCEPT ![m] = StageOf(s)]
BY StageFollows DEF TypeOK

\* What is posted when an amount goes to one client, and nothing to the others.
PostingTo(client, a) == [c \in Clients |-> IF c = client THEN a ELSE 0]

\* Posting an amount to one client changes its account alone.
LEMMA PostingAdds ==
    ASSUME NEW client \in Clients, NEW a \in Int, NEW b \in [Clients -> Int]
    PROVE  /\ Sum(NoEntries, PostingTo(client, a)) = [NoEntries EXCEPT ![client] = a]
           /\ Sum(b, PostingTo(client, a)) = [b EXCEPT ![client] = b[client] + a]
<1> DEFINE p == PostingTo(client, a)
<1>1. p \in [Clients -> Int] /\ p[client] = a /\ \A c \in Clients \ {client} : p[c] = 0
  BY DEF PostingTo
<1> HIDE DEF p
<1>2. Sum(NoEntries, p) = [NoEntries EXCEPT ![client] = a]
  BY <1>1 DEF Sum, NoEntries
<1>3. Sum(b, p) = [b EXCEPT ![client] = b[client] + a]
  <2>1. \A c \in Clients : b[c] + p[c] = IF c = client THEN b[client] + a ELSE b[c]
    BY <1>1
  <2> QED
    BY <2>1 DEF Sum
<1> QED
  BY <1>2, <1>3 DEF p

\* The same, when an older posting is taken back as well.
LEMMA PostingReplaces ==
    ASSUME NEW client \in Clients, NEW a \in Int, NEW b \in [Clients -> Int],
           NEW e \in [Clients -> Int]
    PROVE  Sum(Sum(b, PostingTo(client, a)), Reversal(e)) =
               [c \in Clients |-> b[c] - e[c] + IF c = client THEN a ELSE 0]
<1>1. \A c \in Clients :
          (b[c] + IF c = client THEN a ELSE 0) + (-e[c])
              = b[c] - e[c] + IF c = client THEN a ELSE 0
  OBVIOUS
<1> QED
  BY <1>1 DEF Sum, Reversal, PostingTo

\* Taking back what was posted.
LEMMA ReversalTakesBack ==
    ASSUME NEW b \in [Clients -> Int], NEW e \in [Clients -> Int]
    PROVE  Sum(b, Reversal(e)) = [c \in Clients |-> b[c] - e[c]]
BY DEF Sum, Reversal

\* The empty book is the empty book.
LEMMA LifecycleInit == Init => Lifecycle!Init
BY DEF Init, Lifecycle!Init, Lifecycle!Nothing, NoEntries, Stage

\* A confirmation on its own is a Confirm.
LEMMA ExecuteMaps ==
    ASSUME StatusInv, NEW r \in Requests, NEW a \in Amounts \cup {0}, Execute(r, a)
    PROVE  Lifecycle!Next
<1> DEFINE m == request[r].movement
<1>0. m \in Movements
  BY RequestType DEF Execute, ExecuteRequests, StatusInv
<1>1. PICK c \in Clients : c = request[r].header.client
  BY RequestType DEF Execute, ExecuteRequests, Headers, StatusInv
<1>p. Posting(request[r], a) = PostingTo(c, a)
  BY <1>1 DEF Posting, PostingTo
<1>2. a \in Int
  BY AmountsAreSigned
<1>3. TypeOK /\ status[m] = "BORRADOR" /\ status' = [status EXCEPT ![m] = "CONFIRMADA"]
  BY DEF Execute, StatusInv
<1>4. Stages' = [Stages EXCEPT ![m] = "STANDING"] /\ Stages[m] = "DRAFT"
  <2>1. Stages' = [Stages EXCEPT ![m] = StageOf("CONFIRMADA")]
    BY <1>0, <1>1, <1>3, StageWrite
  <2> QED
    BY <1>0, <1>1, <1>3, <2>1, StageFollows DEF StageOf
<1>5. entries[m] = NoEntries /\ balance \in [Clients -> Int] /\ entries \in [Movements -> [Clients -> Int]]
  BY <1>0, <1>1, <1>3 DEF StatusInv, OnlyConfirmedHasEntries, TypeOK
<1>6. entries' = [entries EXCEPT ![m] = [NoEntries EXCEPT ![c] = a]]
  <2>1. entries' = [entries EXCEPT ![m] = Sum(NoEntries, PostingTo(c, a))]
    BY <1>p, <1>5 DEF Execute
  <2> QED
    BY <1>0, <1>1, <1>2, <1>5, <2>1, PostingAdds
<1>7. entries' = [entries EXCEPT ![m][c] = a]
  BY <1>5, <1>6
<1>8. balance' = [balance EXCEPT ![c] = @ + a]
  <2>1. balance' = Sum(balance, PostingTo(c, a))
    BY <1>p DEF Execute
  <2>2. Sum(balance, PostingTo(c, a)) = [balance EXCEPT ![c] = balance[c] + a]
    BY <1>2, <1>5, PostingAdds
  <2> QED
    BY <2>1, <2>2
<1>9. Lifecycle!Confirm(m, c, a)
  BY <1>4, <1>7, <1>8 DEF Lifecycle!Confirm, Stages
<1> QED
  BY <1>0, <1>1, <1>9 DEF Lifecycle!Next

\* A confirmation that replaces its source is one Replace.
LEMMA ReplacementMaps ==
    ASSUME StatusInv, NEW r \in Requests, NEW a \in Amounts \cup {0}, ExecuteReplacement(r, a)
    PROVE  Lifecycle!Next
<1> DEFINE m == request[r].movement
           s == correction[m].source
<1>0. m \in Movements
  BY RequestType DEF ExecuteReplacement, ExecuteRequests, StatusInv
<1>1. PICK c \in Clients : c = request[r].header.client
  BY RequestType DEF ExecuteReplacement, ExecuteRequests, Headers, StatusInv
<1>p. Posting(request[r], a) = PostingTo(c, a)
  BY <1>1 DEF Posting, PostingTo
<1>2. a \in Int
  BY AmountsAreSigned
<1>3. /\ TypeOK /\ status[m] = "BORRADOR" /\ status[s] = "CONFIRMADA"
      /\ status' = [[status EXCEPT ![s] = "CANCELADA"] EXCEPT ![m] = "CONFIRMADA"]
  BY DEF ExecuteReplacement, Annullable, StatusInv
<1>4. s \in Movements /\ s # m
  BY <1>0, <1>1, <1>3, ReplacesType DEF ExecuteReplacement, Corrections
<1>5. Stages' = [[Stages EXCEPT ![s] = "ANNULLED"] EXCEPT ![m] = "STANDING"]
  <2>1. \A n \in Movements :
            StageOf(status'[n]) = IF n = m THEN "STANDING"
                                  ELSE IF n = s THEN "ANNULLED" ELSE StageOf(status[n])
    BY <1>0, <1>1, <1>3, <1>4 DEF StageOf, TypeOK
  <2> QED
    BY <1>0, <1>1, <1>4, <2>1, StageFollows
<1>6. Stages[m] = "DRAFT" /\ Stages[s] = "STANDING"
  BY <1>0, <1>1, <1>3, <1>4, StageFollows DEF StageOf
<1>7. /\ entries[m] = NoEntries /\ balance \in [Clients -> Int]
      /\ entries \in [Movements -> [Clients -> Int]]
  BY <1>0, <1>1, <1>3 DEF StatusInv, OnlyConfirmedHasEntries, TypeOK
<1>8. Sum(entries[s], Reversal(entries[s])) = NoEntries
  BY <1>4, <1>7, ReversalCancels
<1>9. Sum(entries[m], Posting(request[r], a)) = [NoEntries EXCEPT ![c] = a]
  BY <1>p, <1>2, <1>7, PostingAdds
<1>10. entries' = [[entries EXCEPT ![s] = NoEntries] EXCEPT ![m] = [NoEntries EXCEPT ![c] = a]]
  BY <1>0, <1>1, <1>4, <1>7, <1>8, <1>9 DEF ExecuteReplacement
<1>11. entries' = [[entries EXCEPT ![s] = NoEntries] EXCEPT ![m][c] = a]
  BY <1>4, <1>7, <1>10
<1>12. balance' = [d \in Clients |-> balance[d] - entries[s][d] + IF d = c THEN a ELSE 0]
  <2>1. balance' = Sum(Sum(balance, PostingTo(c, a)), Reversal(entries[s]))
    BY <1>p DEF ExecuteReplacement
  <2>2. entries[s] \in [Clients -> Int] /\ balance \in [Clients -> Int]
    BY <1>4, <1>7
  <2>3. Sum(Sum(balance, PostingTo(c, a)), Reversal(entries[s])) =
            [d \in Clients |-> balance[d] - entries[s][d] + IF d = c THEN a ELSE 0]
    <3>1. PICK b, e : b = balance /\ e = entries[s]
      OBVIOUS
    <3>2. b \in [Clients -> Int] /\ e \in [Clients -> Int]
      BY <2>2, <3>1
    <3>3. Sum(Sum(b, PostingTo(c, a)), Reversal(e)) =
              [d \in Clients |-> b[d] - e[d] + IF d = c THEN a ELSE 0]
      BY <1>2, <3>2, PostingReplaces
    <3> QED
      BY <3>1, <3>3
  <2> QED
    BY <2>1, <2>3
<1>13. NoEntries = Lifecycle!Nothing
  BY DEF NoEntries, Lifecycle!Nothing
<1> HIDE DEF m, s
<1>14. Lifecycle!Replace(s, m, c, a)
  BY <1>5, <1>6, <1>11, <1>12, <1>13 DEF Lifecycle!Replace, Stages
<1> QED
  BY <1>0, <1>1, <1>4, <1>14 DEF Lifecycle!Next

\* Every step of one request is a step of the life of a movement, or leaves it
\* alone.
LEMMA LifecycleStep ==
    ASSUME StatusInv, ReadIsCurrent, [Next]_vars
    PROVE  [Lifecycle!Next]_(Lifecycle!vars)
<1>a. TypeOK
  BY DEF StatusInv
<1>1. ASSUME NEW m \in Movements, status[m] = "NONE", status' = [status EXCEPT ![m] = "BORRADOR"],
             UNCHANGED <<entries, balance>>
      PROVE  Lifecycle!Next
  <2>1. Stages[m] = "UNUSED" /\ Stages' = [Stages EXCEPT ![m] = "DRAFT"]
    BY <1>a, <1>1, StageFollows, StageWrite DEF StageOf
  <2>2. Lifecycle!Open(m)
    BY <1>1, <2>1 DEF Lifecycle!Open, Stages
  <2> QED
    BY <2>2 DEF Lifecycle!Next
<1>2. ASSUME NEW m \in Movements, NEW h \in Headers, CreateMovement(m, h)
      PROVE  Lifecycle!Next
  BY <1>1, <1>2 DEF CreateMovement
<1>3. ASSUME NEW r \in Requests, NEW d \in Movements, StartCorrection(r, d)
      PROVE  Lifecycle!Next
  BY <1>1, <1>3 DEF StartCorrection
<1>4. ASSUME NEW m \in Movements, CancelMovement(m)
      PROVE  Lifecycle!Next
  <2>1. status[m] = "CONFIRMADA" /\ status' = [status EXCEPT ![m] = "CANCELADA"]
    BY <1>4 DEF CancelMovement, Annullable
  <2>2. Stages[m] = "STANDING" /\ Stages' = [Stages EXCEPT ![m] = "ANNULLED"]
    BY <1>a, <2>1, StageFollows, StageWrite DEF StageOf
  <2>3. entries[m] \in [Clients -> Int] /\ balance \in [Clients -> Int]
    BY <1>a DEF TypeOK
  <2>4. entries' = [entries EXCEPT ![m] = NoEntries]
    BY <1>4, <2>3, ReversalCancels DEF CancelMovement
  <2>5. balance' = [c \in Clients |-> balance[c] - entries[m][c]]
    BY <1>4, <2>3, ReversalTakesBack DEF CancelMovement
  <2>6. NoEntries = Lifecycle!Nothing
    BY DEF NoEntries, Lifecycle!Nothing
  <2>7. Lifecycle!Annul(m)
    BY <2>2, <2>4, <2>5, <2>6 DEF Lifecycle!Annul, Stages
  <2> QED
    BY <2>7 DEF Lifecycle!Next
<1>5. ASSUME NEW r \in Requests, DiscardMovementDraft(r)
      PROVE  Lifecycle!Next
  <2>1. PICK m \in Movements : m = request[r].movement /\ status[m] = "BORRADOR"
    BY <1>a, <1>5, RequestType DEF DiscardMovementDraft, DiscardRequests, ReadIsCurrent
  <2>2. Stages[m] = "DRAFT" /\ Stages' = [Stages EXCEPT ![m] = "DROPPED"]
    BY <1>a, <1>5, <2>1, StageFollows, StageWrite DEF StageOf, DiscardMovementDraft
  <2>3. entries[m] = NoEntries
    BY <2>1 DEF StatusInv, OnlyConfirmedHasEntries
  <2>4. entries' = entries /\ balance' = balance
    BY <1>a, <1>5, <2>1, <2>3 DEF DiscardMovementDraft, TypeOK
  <2>5. Lifecycle!Drop(m)
    BY <2>2, <2>4 DEF Lifecycle!Drop, Stages
  <2> QED
    BY <2>5 DEF Lifecycle!Next
<1>6. ASSUME NEW r \in Requests, NEW a \in Amounts \cup {0},
             Execute(r, a) \/ ExecuteReplacement(r, a)
      PROVE  Lifecycle!Next
  BY <1>6, ExecuteMaps, ReplacementMaps
<1>7. ASSUME NEW r \in Requests, NEW m \in Movements,
             \/ ReadForSave(r, m)
             \/ ReadForDiscard(r, m)
             \/ ReadForExecution(r, m)
             \/ \E h \in Headers, confirmClear \in BOOLEAN : ReadForPatch(r, m, h, confirmClear)
             \/ \E mode \in Modes : ReadForCorrection(r, m, mode)
      PROVE  UNCHANGED <<status, entries, balance>>
  BY <1>a, <1>7, ReadEffect DEF Rows
<1>8. ASSUME \/ \E r \in Requests :
                   SaveMovementDraft(r) \/ PatchMovementHeader(r) \/ RollBack(r)
             \/ \E c \in Clients : ToggleCC(c)
             \/ UNCHANGED vars
      PROVE  UNCHANGED <<status, entries, balance>>
  BY <1>8 DEF SaveMovementDraft, PatchMovementHeader, RollBack, ToggleCC, vars
<1>9. ASSUME UNCHANGED <<status, entries, balance>>
      PROVE  UNCHANGED Lifecycle!vars
  BY <1>9 DEF Lifecycle!vars, Stage
<1> QED
  BY <1>2, <1>3, <1>4, <1>5, <1>6, <1>7, <1>8, <1>9 DEF Next

\* When requests do not overlap, the services implement the life of a movement:
\* executing a modification is one Replace, never an annulment and a confirmation.
THEOREM ServicesImplementLifecycle ==
    ASSUME OneRequest
    PROVE  Spec => ImplementsLifecycle
<1>1. StatusInv /\ SequentialInv /\ [Next]_vars => [Lifecycle!Next]_(Lifecycle!vars)
  BY LifecycleStep DEF SequentialInv
<1> QED
  BY <1>1, LifecycleInit, SequentialInvariant, PTL
  DEF Spec, ImplementsLifecycle, Lifecycle!Spec

-----------------------------------------------------------------------------
(* Balances are sums of entries                                            *)

\* The balances b are those of the entries e.
Books(e, b) == \A c \in Clients : b[c] = SumFunction([m \in Movements |-> e[m][c]])

\* Adding the same posting to one movement and to the balances keeps the books.
LEMMA PostKeepsBooks ==
    ASSUME NEW e \in [Movements -> [Clients -> Int]], NEW b \in [Clients -> Int],
           NEW m \in Movements, NEW p \in [Clients -> Int], Books(e, b)
    PROVE  Books([e EXCEPT ![m] = Sum(e[m], p)], Sum(b, p))
<1> DEFINE e2 == [e EXCEPT ![m] = Sum(e[m], p)]
           f(c) == [n \in Movements |-> e[n][c]]
           h(c) == [n \in Movements |-> e2[n][c]]
<1>1. SUFFICES ASSUME NEW c \in Clients
               PROVE  Sum(b, p)[c] = SumFunction(h(c))
  BY DEF Books
<1>2. f(c) \in [Movements -> Int] /\ h(c) \in [Movements -> Int]
  BY EntryType
<1>3. \A n \in Movements \ {m} : h(c)[n] = f(c)[n]
  OBVIOUS
<1>4. h(c)[m] = f(c)[m] + p[c] /\ f(c)[m] \in Int
  BY DEF Sum
<1>5. b[c] = SumFunction(f(c))
  BY DEF Books
<1> HIDE DEF f, h
<1>6. SumFunction(h(c)) = SumFunction(f(c)) + h(c)[m] - f(c)[m]
  BY <1>2, <1>3, FiniteBook, SumFunctionUpdate
<1>7. Sum(b, p)[c] = b[c] + p[c]
  BY DEF Sum
<1> QED
  BY <1>4, <1>5, <1>6, <1>7

\* The books before the first movement.
LEMMA BooksInit == Init => BalanceIsSumOfEntries
<1>1. SumFunction([m \in Movements |-> 0]) = 0
  BY FiniteBook, SumFunctionOfZeros
<1>2. ASSUME Init, NEW c \in Clients
      PROVE  [m \in Movements |-> entries[m][c]] = [m \in Movements |-> 0] /\ balance[c] = 0
  BY <1>2 DEF Init, NoEntries
<1> QED
  BY <1>1, <1>2 DEF BalanceIsSumOfEntries

\* Every step of requests that do not overlap keeps the books: the only deletion
\* that takes entries away is of a draft, which has none.
LEMMA BooksStep ==
    ASSUME StatusInv, ReadIsCurrent, BalanceIsSumOfEntries, [Next]_vars
    PROVE  BalanceIsSumOfEntries'
<1> USE DEF StatusInv
<1>a. entries \in [Movements -> [Clients -> Int]] /\ balance \in [Clients -> Int]
  BY DEF TypeOK
<1>b. Books(entries, balance)
  BY DEF Books, BalanceIsSumOfEntries
<1>c. Books(entries', balance') => BalanceIsSumOfEntries'
  BY DEF Books, BalanceIsSumOfEntries
<1>1. ASSUME NEW m \in Movements, NEW p \in [Clients -> Int],
             entries' = [entries EXCEPT ![m] = Sum(entries[m], p)], balance' = Sum(balance, p)
      PROVE  Books(entries', balance')
  BY <1>1, <1>a, <1>b, PostKeepsBooks
<1>2. ASSUME NEW m \in Movements, CancelMovement(m)
      PROVE  Books(entries', balance')
  BY <1>1, <1>2, <1>a, EntryType DEF CancelMovement
<1>3. ASSUME NEW r \in Requests, NEW a \in Amounts \cup {0}, Execute(r, a)
      PROVE  Books(entries', balance')
  <2>1. PICK m \in Movements, p \in [Clients -> Int] :
            entries' = [entries EXCEPT ![m] = Sum(@, p)] /\ balance' = Sum(balance, p)
    BY <1>3, ExecuteEffect
  <2> QED
    BY <1>1, <2>1
<1>4. ASSUME NEW r \in Requests, NEW a \in Amounts \cup {0}, ExecuteReplacement(r, a)
      PROVE  Books(entries', balance')
  <2>1. PICK m \in Movements, p \in [Clients -> Int], s \in Movements :
            /\ s # m
            /\ entries' = [[entries EXCEPT ![s] = Sum(entries[s], Reversal(entries[s]))]
                              EXCEPT ![m] = Sum(entries[m], p)]
            /\ balance' = Sum(Sum(balance, p), Reversal(entries[s]))
    BY <1>4, ReplacementEffect
  <2> DEFINE e1 == [entries EXCEPT ![m] = Sum(entries[m], p)]
             b1 == Sum(balance, p)
             v  == Reversal(entries[s])
  <2>2. Books(e1, b1)
    BY <1>a, <1>b, PostKeepsBooks
  <2>3. /\ e1 \in [Movements -> [Clients -> Int]]
        /\ b1 \in [Clients -> Int]
        /\ v \in [Clients -> Int]
    BY <1>a, EntryType
  <2>4. entries' = [e1 EXCEPT ![s] = Sum(e1[s], v)] /\ balance' = Sum(b1, v)
    BY <2>1, <1>a
  <2> HIDE DEF e1, b1, v
  <2>5. Books([e1 EXCEPT ![s] = Sum(e1[s], v)], Sum(b1, v))
    BY <2>2, <2>3, PostKeepsBooks
  <2> QED
    BY <2>4, <2>5
<1>5. ASSUME NEW r \in Requests, DiscardMovementDraft(r)
      PROVE  UNCHANGED <<entries, balance>>
  <2>1. request[r].op = "DISCARD" /\ request[r].movement \in Movements
    BY <1>5, RequestType DEF DiscardMovementDraft, DiscardRequests
  <2>2. entries[request[r].movement] = NoEntries
    BY <2>1 DEF ReadIsCurrent, OnlyConfirmedHasEntries
  <2> QED
    BY <1>5, <1>a, <2>1, <2>2 DEF DiscardMovementDraft
<1>6. ASSUME NEW r \in Requests, NEW m \in Movements,
             \/ ReadForSave(r, m)
             \/ ReadForDiscard(r, m)
             \/ ReadForExecution(r, m)
             \/ \E h \in Headers, confirmClear \in BOOLEAN : ReadForPatch(r, m, h, confirmClear)
             \/ \E mode \in Modes : ReadForCorrection(r, m, mode)
      PROVE  UNCHANGED <<entries, balance>>
  BY <1>6, ReadEffect DEF Rows
<1>7. ASSUME \/ \E m \in Movements, h \in Headers : CreateMovement(m, h)
             \/ \E c \in Clients : ToggleCC(c)
             \/ \E r \in Requests, m \in Movements : StartCorrection(r, m)
             \/ \E r \in Requests :
                   SaveMovementDraft(r) \/ PatchMovementHeader(r) \/ RollBack(r)
             \/ UNCHANGED vars
      PROVE  UNCHANGED <<entries, balance>>
  BY <1>7 DEF CreateMovement, ToggleCC, StartCorrection, SaveMovementDraft,
              PatchMovementHeader, RollBack, vars
<1>8. CASE UNCHANGED <<entries, balance>>
  BY <1>8 DEF BalanceIsSumOfEntries
<1> QED
  BY <1>c, <1>2, <1>3, <1>4, <1>5, <1>6, <1>7, <1>8 DEF Next

\* When requests do not overlap, the balance of every client is the sum of the
\* entries of the movements that are still in the book.
THEOREM BalancesAddUp ==
    ASSUME OneRequest
    PROVE  Spec => []BalanceIsSumOfEntries
<1>1. /\ StatusInv /\ SequentialInv /\ BalanceIsSumOfEntries /\ [Next]_vars
      => BalanceIsSumOfEntries'
  BY BooksStep DEF SequentialInv
<1> QED
  BY <1>1, BooksInit, SequentialInvariant, PTL DEF Spec
=============================================================================
