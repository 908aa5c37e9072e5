----------------------------- MODULE BookProofs -----------------------------
(***************************************************************************)
(* Theorems about the two books of what movements leave, two parts that    *)
(* share nothing: CCLedger, for every set of clients and requests and      *)
(* every amount, and FxInventory, for every set of movements and           *)
(* currencies and every amount.                                            *)
(*                                                                         *)
(* Current accounts: a transaction holds every row it has written, and     *)
(* every row whose balance it has read for a payment or an adjustment,     *)
(* until it ends.  So nobody changes those balances under it, and what it  *)
(* is about to commit in a row is the balance that stands there plus what  *)
(* it recorded.  The exception is an adjustment of an account that had no  *)
(* row when it was read: a SELECT that finds nothing locks nothing.        *)
(*                                                                         *)
(* Exchange inventory: rounding to quanta is off by at most half a         *)
(* quantum, so the parts of a cost add up to it but for one.  A trade that *)
(* is booked, and a row that is taken back, change the stock and the sum   *)
(* of what stands by the same amount (BookKeeps, UndoKeeps): a replacement *)
(* is one after the other.  And a movement has one row of each kind, so    *)
(* nothing is taken back twice however annulments overlap.                 *)
(***************************************************************************)
EXTENDS CCLedger, FxInventory, SumTheorems, SequenceTheorems, TLAPS

Posts  == [client : Clients, delta : Int]
Writes == [client : Clients, balance : Int]

InFlight ==
    [op : Ops, id : 1..MaxStarted, client : Clients \cup {Nobody}, amount : Int,
     before : Int \cup {Nobody}, todo : Seq(Posts), write : SUBSET Writes,
     posted : [Clients -> Int]]

\* The types, with what TypeOK leaves open of a request in flight; the rows that
\* were there at the start stay, and an account without a row has no balance.
Types ==
    /\ balance \in [Clients -> Int]
    /\ rows \subseteq Clients
    /\ holder \in [Clients -> Requests \cup {Nobody}]
    /\ recorded \in [Clients -> Int]
    /\ standing \subseteq [id : 1..MaxStarted, posted : [Clients -> Int]]
    /\ ccEnabled \in [Clients -> BOOLEAN]
    /\ request \in [Requests -> {Idle} \cup InFlight]
    /\ started \in 0..MaxStarted
    /\ Opened \subseteq rows
    /\ \A c \in Clients \ rows : balance[c] = 0

Wrote(q, c) == \E w \in q.write : w.client = c

\* The request's own account of what it wrote.
OneWriteEach(q)    == \A v, w \in q.write : v.client = w.client => v = w
PostsAreWritten(q) == \A c \in Clients : ~Wrote(q, c) => q.posted[c] = 0

\* Its writes against the books: it holds the rows, and what it wrote there is
\* the committed balance plus what it recorded.
Guarded(q, c) == c \in Opened \/ q.op # "ADJUSTMENT"

WritesAreHeld(r, q) == \A w \in q.write : holder[w.client] = r
WritesAddUp(q) ==
    \A w \in q.write :
        Guarded(q, w.client) => w.balance = balance[w.client] + q.posted[w.client]

\* The balance a payment has read is the one that stands, and payable; its
\* entry waits for it.
PaymentReadsWell(r, q) ==
    q.op = "PAYMENT" =>
        /\ q.client \in Clients
        /\ q.before = Nobody => q.todo = <<>> /\ q.write = {}
        /\ q.before # Nobody =>
              /\ q.client \in rows
              /\ holder[q.client] = r
              /\ q.before = balance[q.client]
              /\ Payable(q.before, q.amount)

\* So is the balance an adjustment has read, if there was a row to lock.
AdjustmentReadsWell(r, q) ==
    q.op = "ADJUSTMENT" =>
        /\ q.client \in Clients
        /\ q.todo = <<>>
        /\ q.before = Nobody => q.write = {}
        /\ q.before # Nobody /\ q.client \in Opened =>
              holder[q.client] = r /\ q.before = balance[q.client]

\* A transfer has recorded nothing, one side of its debt or both.
TransferStage(q, from, to, a) ==
    /\ from # to
    /\ \/ /\ q.todo = <<Post(from, a), Post(to, -a)>>
          /\ q.posted = Zero
       \/ /\ q.todo = <<Post(to, -a)>>
          /\ q.posted = [Zero EXCEPT ![from] = a]
       \/ /\ q.todo = <<>>
          /\ q.posted = [[Zero EXCEPT ![from] = a] EXCEPT ![to] = -a]

TransferPostsBoth(q) ==
    q.op = "TRANSFER" =>
        \E from, to \in Clients, a \in Amounts : TransferStage(q, from, to, a)

Sound(r, q) ==
    /\ OneWriteEach(q)
    /\ PostsAreWritten(q)
    /\ WritesAreHeld(r, q)
    /\ WritesAddUp(q)
    /\ PaymentReadsWell(r, q)
    /\ AdjustmentReadsWell(r, q)
    /\ TransferPostsBoth(q)

RequestsAreSound == \A r \in Requests : request[r] # Idle => Sound(r, request[r])

BooksInv == Types /\ RequestsAreSound /\ AccountIsSumOfRecords

-----------------------------------------------------------------------------
(* Facts about the operators of CCLedger                                   *)

\* A request that is not idle is in flight.
LEMMA BusyIsInFlight ==
    ASSUME Types, NEW r \in Requests, request[r] # Idle
    PROVE  request[r] \in InFlight
BY DEF Types

\* A posting of a client of the ledger.
LEMMA PostType ==
    ASSUME NEW c \in Clients, NEW d \in Int
    PROVE  /\ Post(c, d) \in Posts
           /\ Post(c, d).client = c
           /\ Post(c, d).delta = d
BY DEF Post, Posts

\* A request that starts with postings to do.
LEMMA BegunIs ==
    ASSUME NEW op \in Ops, NEW id \in 1..MaxStarted, NEW client \in Clients \cup {Nobody},
           NEW amount \in Int, NEW todo \in Seq(Posts)
    PROVE  LET q == Begun(op, id, client, amount, todo)
           IN /\ q \in InFlight
              /\ q.op = op /\ q.client = client /\ q.amount = amount
              /\ q.before = Nobody /\ q.todo = todo /\ q.write = {} /\ q.posted = Zero
BY DEF Begun, InFlight, Zero

\* Sequences of postings: none, that of a payment, the two of a transfer.
LEMMA TodoType ==
    /\ \E todo \in Seq(Posts) : todo = <<>>
    /\ \A p \in Posts : \E todo \in Seq(Posts) : todo = <<p>>
    /\ \A p, q \in Posts : \E todo \in Seq(Posts) : todo = <<p, q>>
<1>1. <<>> \in Seq(Posts)
  OBVIOUS
<1>2. \A p \in Posts : <<p>> \in Seq(Posts)
  OBVIOUS
<1>3. \A p, q \in Posts : <<p, q>> \in Seq(Posts)
  OBVIOUS
<1> QED
  BY <1>1, <1>2, <1>3

\* What a write leaves in the request's account of itself.
LEMMA WrittenIs ==
    ASSUME NEW q \in InFlight, NEW c \in Clients, NEW value \in Int, NEW delta \in Int
    PROVE  LET n == Written(q, c, value, delta)
           IN /\ n \in InFlight
              /\ n.op = q.op /\ n.client = q.client /\ n.amount = q.amount
              /\ n.before = q.before /\ n.todo = q.todo
              /\ n.write = {w \in q.write : w.client # c} \cup {[client |-> c, balance |-> value]}
              /\ n.posted = [q.posted EXCEPT ![c] = q.posted[c] + delta]
<1> DEFINE ws == {w \in q.write : w.client # c} \cup {[client |-> c, balance |-> value]}
           po == [q.posted EXCEPT ![c] = q.posted[c] + delta]
<1>1. /\ ws \in SUBSET Writes
      /\ po \in [Clients -> Int]
  BY DEF InFlight, Writes
<1>2. Written(q, c, value, delta) = [q EXCEPT !.write = ws, !.posted = po]
  BY DEF Written, InFlight
<1> HIDE DEF ws, po
<1>a. Written(q, c, value, delta) =
          [op |-> q.op, id |-> q.id, client |-> q.client, amount |-> q.amount,
           before |-> q.before, todo |-> q.todo, write |-> ws, posted |-> po]
  BY <1>2 DEF InFlight
<1>3. /\ q.op \in Ops /\ q.id \in 1..MaxStarted /\ q.client \in Clients \cup {Nobody}
      /\ q.amount \in Int /\ q.before \in Int \cup {Nobody} /\ q.todo \in Seq(Posts)
  BY DEF InFlight
<1>4. Written(q, c, value, delta) \in InFlight
  BY <1>1, <1>a, <1>3 DEF InFlight
<1> QED
  BY <1>a, <1>4 DEF ws, po

\* A request that writes a row it had not recorded anything about, or adds to
\* what it wrote there, keeps a sound account of itself.
LEMMA WriteKeepsAccount ==
    ASSUME NEW q \in InFlight, OneWriteEach(q), PostsAreWritten(q),
           NEW c \in Clients, NEW value \in Int, NEW delta \in Int
    PROVE  LET n == Written(q, c, value, delta)
           IN OneWriteEach(n) /\ PostsAreWritten(n)
<1> DEFINE n == Written(q, c, value, delta)
<1>1. /\ n.write = {w \in q.write : w.client # c} \cup {[client |-> c, balance |-> value]}
      /\ n.posted = [q.posted EXCEPT ![c] = q.posted[c] + delta]
  BY WrittenIs
<1>2. q.posted \in [Clients -> Int] /\ q.write \in SUBSET Writes
  BY DEF InFlight
<1> HIDE DEF n
<1>3. OneWriteEach(n)
  BY <1>1, <1>2 DEF OneWriteEach, Writes
<1>4. \A d \in Clients \ {c} : Wrote(q, d) => Wrote(n, d)
  BY <1>1 DEF Wrote
<1>5. Wrote(n, c)
  <2>1. PICK v : v = [client |-> c, balance |-> value]
    OBVIOUS
  <2>2. v \in n.write /\ v.client = c
    BY <1>1, <2>1
  <2> QED
    BY <2>2 DEF Wrote
<1>6. PostsAreWritten(n)
  BY <1>1, <1>2, <1>4, <1>5 DEF PostsAreWritten
<1> QED
  BY <1>3, <1>6 DEF n

\* What a transaction sees in a row is the committed balance plus what it has
\* recorded itself, unless it adjusts an account that had no row.
LEMMA SeenAddsUp ==
    ASSUME Types, NEW r \in Requests, request[r] # Idle, Sound(r, request[r]),
           NEW c \in Clients
    PROVE  /\ Seen(r, c) \in Int
           /\ Guarded(request[r], c) => Seen(r, c) = balance[c] + request[r].posted[c]
           /\ ~Wrote(request[r], c) => Seen(r, c) = balance[c]
<1> DEFINE q == request[r]
<1>1. q \in InFlight
  BY BusyIsInFlight
<1>2. q.write \in SUBSET Writes /\ q.posted \in [Clients -> Int]
  BY <1>1 DEF InFlight
<1>3. balance[c] \in Int
  BY DEF Types
<1>4. CASE Wrote(q, c)
  <2>1. PICK w \in q.write : w.client = c
    BY <1>4 DEF Wrote
  <2>2. (CHOOSE v \in q.write : v.client = c) = w
    BY <2>1 DEF Sound, OneWriteEach
  <2>3. Seen(r, c) = w.balance
    BY <2>1, <2>2 DEF Seen
  <2>4. w.balance \in Int
    BY <1>2 DEF Writes
  <2>5. Guarded(q, c) => w.balance = balance[c] + q.posted[c]
    BY <2>1 DEF Sound, WritesAddUp
  <2> QED
    BY <1>4, <2>3, <2>4, <2>5
<1>5. CASE ~Wrote(q, c)
  <2>1. Seen(r, c) = balance[c]
    BY <1>5 DEF Seen, Wrote
  <2>2. q.posted[c] = 0
    BY <1>5 DEF Sound, PostsAreWritten
  <2> QED
    BY <1>3, <2>1, <2>2
<1> QED
  BY <1>4, <1>5

-----------------------------------------------------------------------------
(* What a step of one transaction leaves to the others                     *)

\* A step that keeps the rows a request holds, and the balances in them, keeps
\* what that request relies on.
LEMMA OthersUntouched ==
    ASSUME Types, NEW s \in Requests, NEW q \in InFlight, Sound(s, q),
           rows \subseteq rows',
           \A c \in Clients : holder[c] = s => holder'[c] = s /\ balance'[c] = balance[c]
    PROVE  Sound(s, q)'
<1>1. q.write \in SUBSET Writes /\ \A w \in q.write : w.client \in Clients
  BY DEF InFlight, Writes
<1>2. \A w \in q.write : holder[w.client] = s
  BY DEF Sound, WritesAreHeld
<1>3. OneWriteEach(q) /\ PostsAreWritten(q) /\ TransferPostsBoth(q)
  BY DEF Sound
<1>4. WritesAreHeld(s, q)'
  BY <1>1, <1>2 DEF WritesAreHeld
<1>5. WritesAddUp(q)'
  BY <1>1, <1>2 DEF Sound, WritesAddUp, Guarded
<1>6. PaymentReadsWell(s, q)'
  BY DEF Sound, PaymentReadsWell, Types
<1>7. AdjustmentReadsWell(s, q)'
  BY OpenedAreClients DEF Sound, AdjustmentReadsWell, Types
<1>8. OneWriteEach(q)' /\ PostsAreWritten(q)' /\ TransferPostsBoth(q)'
  BY <1>3 DEF OneWriteEach, PostsAreWritten, Wrote, TransferPostsBoth
<1> QED
  BY <1>4, <1>5, <1>6, <1>7, <1>8 DEF Sound

\* A transaction that writes or reads a row only takes it if it is free or its own.
LEMMA TakingARow ==
    ASSUME Types, NEW r \in Requests, NEW c \in Clients
    PROVE  /\ CanWrite(r, c) =>
                 /\ Held(r, c) \in [Clients -> Requests \cup {Nobody}]
                 /\ Held(r, c)[c] = r
                 /\ \A s \in Requests, d \in Clients : holder[d] = s => Held(r, c)[d] = s
           /\ CanSelect(r, c) =>
                 /\ Selected(r, c) \in [Clients -> Requests \cup {Nobody}]
                 /\ c \in rows => Selected(r, c)[c] = r
                 /\ \A s \in Requests, d \in Clients : holder[d] = s => Selected(r, c)[d] = s
<1>1. ASSUME CanWrite(r, c)
      PROVE  /\ Held(r, c) \in [Clients -> Requests \cup {Nobody}]
             /\ Held(r, c)[c] = r
             /\ \A s \in Requests, d \in Clients : holder[d] = s => Held(r, c)[d] = s
  BY <1>1, NobodyIsNull DEF CanWrite, Held, Types
<1>2. Selected(r, c) = IF c \in rows THEN Held(r, c) ELSE holder
  BY DEF Selected, Held
<1> QED
  BY <1>1, <1>2 DEF CanSelect, Types

-----------------------------------------------------------------------------
(* The steps                                                               *)

\* A step of one request that commits nothing keeps the books, if the request
\* stays sound and no row changes hands.
LEMMA LocalStep ==
    ASSUME BooksInv, NEW r \in Requests, NEW q \in InFlight,
           request' = [request EXCEPT ![r] = q],
           holder' \in [Clients -> Requests \cup {Nobody}],
           \A s \in Requests, d \in Clients : holder[d] = s => holder'[d] = s,
           started' \in 0..MaxStarted,
           UNCHANGED <<balance, rows, recorded, standing, ccEnabled>>,
           Sound(r, q)'
    PROVE  BooksInv'
<1>1. Types'
  BY DEF BooksInv, Types
<1>2. ASSUME NEW s \in Requests, request'[s] # Idle
      PROVE  Sound(s, request[s])' \/ s = r
  <2>1. CASE s # r
    <3>1. request'[s] = request[s] /\ request[s] # Idle
      BY <1>2, <2>1 DEF BooksInv, Types
    <3>2. request[s] \in InFlight /\ Sound(s, request[s])
      BY <3>1, BusyIsInFlight DEF BooksInv, RequestsAreSound
    <3>3. PICK o \in InFlight : o = request[s]
      BY <3>2
    <3>4. Sound(s, o)'
      BY <3>2, <3>3, OthersUntouched DEF BooksInv
    <3>5. request'[s] = o
      BY <3>1, <3>3
    <3> QED
      BY <3>4, <3>5
  <2> QED
    BY <2>1
<1>3. request'[r] = q
  BY DEF BooksInv, Types
<1>4. RequestsAreSound'
  BY <1>2, <1>3 DEF RequestsAreSound
<1>5. AccountIsSumOfRecords'
  BY DEF BooksInv, AccountIsSumOfRecords
<1> QED
  BY <1>1, <1>4, <1>5 DEF BooksInv

\* A request that starts has written nothing.
LEMMA StartKeepsBooks ==
    ASSUME BooksInv, NEW r \in Requests, NEW op \in Ops, NEW id \in 1..MaxStarted,
           NEW client \in Clients \cup {Nobody}, NEW amount \in Int, NEW todo \in Seq(Posts),
           Start(r, Begun(op, id, client, amount, todo)),
           op \in {"PAYMENT", "ADJUSTMENT"} => client \in Clients /\ todo = <<>>,
           op = "TRANSFER" =>
              \E from, to \in Clients, a \in Amounts :
                  from # to /\ todo = <<Post(from, a), Post(to, -a)>>
    PROVE  BooksInv'
<1> DEFINE q == Begun(op, id, client, amount, todo)
<1>1. /\ q \in InFlight
      /\ q.op = op /\ q.client = client /\ q.amount = amount
      /\ q.before = Nobody /\ q.todo = todo /\ q.write = {} /\ q.posted = Zero
  BY DEF Begun, InFlight, Zero
<1>a. Start(r, q)
  OBVIOUS
<1> HIDE DEF q
<1>2. /\ request' = [request EXCEPT ![r] = q]
      /\ started' \in 0..MaxStarted
      /\ UNCHANGED <<balance, rows, holder, recorded, standing, ccEnabled>>
  BY <1>a, StartsAreBounded DEF Start, BooksInv, Types
<1>3. OneWriteEach(q) /\ PostsAreWritten(q) /\ WritesAreHeld(r, q)' /\ WritesAddUp(q)'
  BY <1>1 DEF OneWriteEach, PostsAreWritten, WritesAreHeld, WritesAddUp, Zero
<1>4. PaymentReadsWell(r, q)' /\ AdjustmentReadsWell(r, q)'
  BY <1>1 DEF PaymentReadsWell, AdjustmentReadsWell
<1>5. TransferPostsBoth(q)
  <2>1. CASE op = "TRANSFER"
    <3>1. PICK from, to \in Clients, a \in Amounts :
              from # to /\ todo = <<Post(from, a), Post(to, -a)>>
      BY <2>1
    <3>2. TransferStage(q, from, to, a)
      BY <1>1, <3>1 DEF TransferStage
    <3> QED
      BY <3>2 DEF TransferPostsBoth
  <2> QED
    BY <1>1, <2>1 DEF TransferPostsBoth
<1>6. OneWriteEach(q)' /\ PostsAreWritten(q)' /\ TransferPostsBoth(q)'
  BY <1>3, <1>5 DEF OneWriteEach, PostsAreWritten, Wrote, TransferPostsBoth
<1>7. Sound(r, q)'
  BY <1>3, <1>4, <1>6 DEF Sound
<1>8. holder' \in [Clients -> Requests \cup {Nobody}]
  BY <1>2 DEF BooksInv, Types
<1> QED
  BY <1>1, <1>2, <1>7, <1>8, StartsAreBounded, LocalStep

\* The reversals of a movement are postings of clients.
LEMMA ReversalsType ==
    ASSUME Types, NEW s \in standing, NEW todo \in ReversalsOf(s)
    PROVE  todo \in Seq(Posts)
<1> DEFINE D == {d \in Clients : s.posted[d] # 0}
           f == [c \in D |-> Post(c, -s.posted[c])]
           S == {Post(c, -s.posted[c]) : c \in D}
<1>1. s.posted \in [Clients -> Int]
  BY DEF Types
<1>2. IsFiniteSet(D)
  BY OpenedAreClients, FS_Subset
<1>3. f \in Surjection(D, S)
  BY DEF Surjection
<1>4. S \subseteq Posts
  BY <1>1, PostType
<1>5. todo \in SetToSeqs(S)
  BY DEF ReversalsOf
<1> HIDE DEF D, f, S
<1>6. IsFiniteSet(S)
  BY <1>2, <1>3, FS_Surjection
<1>7. Cardinality(S) \in Nat
  BY <1>6, FS_CardinalityType
<1>8. todo \in [1..Cardinality(S) -> S]
  BY <1>5 DEF SetToSeqs
<1>9. todo \in [1..Cardinality(S) -> Posts]
  BY <1>4, <1>8
<1> QED
  BY <1>7, <1>9

\* Every way to start a request.
LEMMA ArriveStep ==
    ASSUME BooksInv, NEW r \in Requests, Arrive(r)
    PROVE  BooksInv'
<1>a. started < MaxStarted => started + 1 \in 1..MaxStarted
  BY StartsAreBounded DEF BooksInv, Types
<1>1. ASSUME NEW from \in Clients, NEW to \in Clients, NEW a \in Amounts,
             StartTransfer(r, from, to, a)
      PROVE  BooksInv'
  <2>1. /\ from # to /\ started < MaxStarted
        /\ Start(r, Begun("TRANSFER", started + 1, Nobody, a, <<Post(from, a), Post(to, -a)>>))
    BY <1>1 DEF StartTransfer, Start
  <2>2. a \in Int /\ -a \in Int
    BY AmountsAreSigned
  <2>3. Post(from, a) \in Posts /\ Post(to, -a) \in Posts
    BY <2>2, PostType
  <2>4. PICK todo \in Seq(Posts) : todo = <<Post(from, a), Post(to, -a)>>
    BY <2>3, TodoType
  <2>5. Start(r, Begun("TRANSFER", started + 1, Nobody, a, todo))
    BY <2>1, <2>4
  <2>6. "TRANSFER" \in Ops /\ Nobody \in Clients \cup {Nobody} /\ started + 1 \in 1..MaxStarted
    BY <1>a, <2>1 DEF Ops
  <2> QED
    BY <2>1, <2>2, <2>4, <2>5, <2>6, StartKeepsBooks
<1>2. ASSUME NEW c \in Clients, NEW a \in Amounts, StartPayment(r, c, a)
      PROVE  BooksInv'
  <2>1. PICK todo \in Seq(Posts) : todo = <<>>
    BY TodoType
  <2>2. started < MaxStarted /\ Start(r, Begun("PAYMENT", started + 1, c, a, todo))
    BY <1>2, <2>1 DEF StartPayment, Start
  <2>3. "PAYMENT" \in Ops /\ started + 1 \in 1..MaxStarted /\ a \in Int
    BY <1>a, <2>2, AmountsAreSigned DEF Ops
  <2> QED
    BY <2>1, <2>2, <2>3, StartKeepsBooks
<1>3. ASSUME NEW c \in Clients, NEW d \in Deltas, StartAdjustment(r, c, d)
      PROVE  BooksInv'
  <2>1. PICK todo \in Seq(Posts) : todo = <<>>
    BY TodoType
  <2>2. started < MaxStarted /\ Start(r, Begun("ADJUSTMENT", started + 1, c, d, todo))
    BY <1>3, <2>1 DEF StartAdjustment, Start
  <2>3. "ADJUSTMENT" \in Ops /\ started + 1 \in 1..MaxStarted /\ d \in Int
    BY <1>a, <2>2, AmountsAreSigned DEF Ops
  <2> QED
    BY <2>1, <2>2, <2>3, StartKeepsBooks
<1>4. ASSUME NEW s \in standing, NEW todo \in ReversalsOf(s), StartAnnulment(r, s, todo)
      PROVE  BooksInv'
  <2>1. todo \in Seq(Posts)
    BY ReversalsType DEF BooksInv
  <2>2. s.id \in 1..MaxStarted
    BY DEF BooksInv, Types
  <2>3. Start(r, Begun("ANNULMENT", s.id, Nobody, 0, todo))
    BY <1>4 DEF StartAnnulment
  <2>4. PICK op \in Ops, client \in Clients \cup {Nobody}, id \in 1..MaxStarted, amount \in Int :
            op = "ANNULMENT" /\ client = Nobody /\ id = s.id /\ amount = 0
    BY <2>2 DEF Ops
  <2>5. Start(r, Begun(op, id, client, amount, todo))
    BY <2>3, <2>4
  <2> QED
    BY <2>1, <2>4, <2>5, StartKeepsBooks
<1> QED
  BY <1>1, <1>2, <1>3, <1>4 DEF Arrive

\* The next posting of a transfer takes it from nothing to one side, and from one
\* side to both.
LEMMA TransferPosts ==
    ASSUME NEW q \in InFlight, NEW n \in InFlight, NEW p \in Posts,
           TransferPostsBoth(q), q.todo # <<>>, p = Head(q.todo),
           n.op = q.op, n.todo = Tail(q.todo),
           n.posted = [q.posted EXCEPT ![p.client] = q.posted[p.client] + p.delta]
    PROVE  TransferPostsBoth(n)
<1> SUFFICES ASSUME n.op = "TRANSFER"
             PROVE  TransferPostsBoth(n)
  BY DEF TransferPostsBoth
<1>1. PICK from, to \in Clients, a \in Amounts : TransferStage(q, from, to, a)
  BY DEF TransferPostsBoth
<1>2. a \in Int /\ -a \in Int
  BY AmountsAreSigned
<1>3. Zero \in [Clients -> Int] /\ \A c \in Clients : Zero[c] = 0
  BY DEF Zero
<1>4. CASE q.todo = <<Post(from, a), Post(to, -a)>> /\ q.posted = Zero
  <2>1. p = Post(from, a) /\ n.todo = <<Post(to, -a)>>
    BY <1>4
  <2>2. p.client = from /\ p.delta = a
    BY <1>2, <2>1, PostType
  <2>3. n.posted = [Zero EXCEPT ![from] = Zero[from] + a]
    BY <1>4, <2>2
  <2>4. Zero[from] + a = a
    BY <1>2, <1>3
  <2>5. TransferStage(n, from, to, a)
    BY <1>1, <2>1, <2>3, <2>4 DEF TransferStage
  <2> QED
    BY <2>5 DEF TransferPostsBoth
<1>5. CASE q.todo = <<Post(to, -a)>> /\ q.posted = [Zero EXCEPT ![from] = a]
  <2>1. p = Post(to, -a) /\ n.todo = <<>>
    BY <1>5
  <2>2. p.client = to /\ p.delta = -a
    BY <1>2, <2>1, PostType
  <2>3. q.posted[to] = 0
    BY <1>1, <1>3, <1>5 DEF TransferStage
  <2>4. n.posted = [[Zero EXCEPT ![from] = a] EXCEPT ![to] = 0 + (-a)]
    BY <1>5, <2>2, <2>3
  <2>5. 0 + (-a) = -a
    BY <1>2
  <2>6. TransferStage(n, from, to, a)
    BY <1>1, <2>1, <2>4, <2>5 DEF TransferStage
  <2> QED
    BY <2>6 DEF TransferPostsBoth
<1> QED
  BY <1>1, <1>4, <1>5 DEF TransferStage

\* A request that writes a row it holds, and there what stands plus what it
\* records, stays sound.
LEMMA WriteKeepsSound ==
    ASSUME Types, NEW r \in Requests, NEW q \in InFlight, Sound(r, q), NEW n \in InFlight,
           NEW c \in Clients, NEW value \in Int, NEW delta \in Int,
           n.op = q.op,
           n.write = {w \in q.write : w.client # c} \cup {[client |-> c, balance |-> value]},
           n.posted = [q.posted EXCEPT ![c] = q.posted[c] + delta],
           OneWriteEach(n), PostsAreWritten(n), TransferPostsBoth(n),
           Guarded(q, c) => value = balance[c] + q.posted[c] + delta,
           balance' = balance,
           holder'[c] = r, \A d \in Clients : holder[d] = r => holder'[d] = r,
           PaymentReadsWell(r, n)', AdjustmentReadsWell(r, n)'
    PROVE  Sound(r, n)'
<1>1. /\ q.posted \in [Clients -> Int]
      /\ balance \in [Clients -> Int]
      /\ \A x \in q.write : x.client \in Clients /\ holder[x.client] = r
  BY DEF Sound, WritesAreHeld, InFlight, Writes, Types
<1>2. \A x \in n.write : \/ x.client = c /\ x.balance = value
                         \/ x.client # c /\ x \in q.write
  OBVIOUS
<1>3. WritesAreHeld(r, n)'
  BY <1>1, <1>2 DEF WritesAreHeld
<1>4. n.posted[c] = q.posted[c] + delta /\ \A d \in Clients \ {c} : n.posted[d] = q.posted[d]
  BY <1>1
<1>5. q.posted[c] \in Int /\ balance[c] \in Int
  BY <1>1
<1>6. \A d \in Clients : Guarded(n, d) <=> Guarded(q, d)
  BY DEF Guarded
<1>7. \A x \in q.write : Guarded(q, x.client) => x.balance = balance[x.client] + q.posted[x.client]
  BY DEF Sound, WritesAddUp
<1>8. ASSUME NEW x \in n.write, Guarded(n, x.client)
      PROVE  x.balance = balance[x.client] + n.posted[x.client]
  <2>1. CASE x.client = c /\ x.balance = value
    BY <1>4, <1>5, <1>6, <1>8, <2>1
  <2>2. CASE x.client # c /\ x \in q.write
    BY <1>1, <1>4, <1>6, <1>7, <1>8, <2>2
  <2> QED
    BY <1>2, <2>1, <2>2
<1>9. WritesAddUp(n)'
  BY <1>8 DEF WritesAddUp, Guarded
<1>10. OneWriteEach(n)' /\ PostsAreWritten(n)' /\ TransferPostsBoth(n)'
  BY DEF OneWriteEach, PostsAreWritten, Wrote, TransferPostsBoth
<1> QED
  BY <1>3, <1>9, <1>10 DEF Sound

\* What taking the first of a request's postings off leaves.
LEMMA NextTodoIs ==
    ASSUME NEW w \in InFlight, NEW todo \in Seq(Posts)
    PROVE  LET n == [w EXCEPT !.todo = todo]
           IN /\ n \in InFlight
              /\ n.op = w.op /\ n.client = w.client /\ n.amount = w.amount
              /\ n.before = w.before /\ n.todo = todo /\ n.write = w.write
              /\ n.posted = w.posted
<1>1. [w EXCEPT !.todo = todo] =
          [op |-> w.op, id |-> w.id, client |-> w.client, amount |-> w.amount,
           before |-> w.before, todo |-> todo, write |-> w.write, posted |-> w.posted]
  BY SMTT(30) DEF InFlight
<1>2. [w EXCEPT !.todo = todo] \in InFlight
  BY <1>1 DEF InFlight
<1> QED
  BY <1>1, <1>2

\* A posting adds to what the transaction sees, so it keeps what the request
\* wrote in step with the books.  An adjustment has no postings.
LEMMA PostEntryStep ==
    ASSUME BooksInv, NEW r \in Requests, PostEntry(r)
    PROVE  BooksInv'
<1>1. request[r] # Idle /\ request[r].todo # <<>>
  BY DEF PostEntry, Posting
<1>2. request[r] \in InFlight /\ Sound(r, request[r])
  BY <1>1, BusyIsInFlight DEF BooksInv, RequestsAreSound
<1>3. PICK q \in InFlight : q = request[r]
  BY <1>2
<1>4. q # Idle /\ q.todo # <<>> /\ q.todo \in Seq(Posts) /\ q.posted \in [Clients -> Int] /\ Sound(r, q)
  BY <1>1, <1>2, <1>3 DEF InFlight
<1>5. Head(q.todo) \in Posts /\ Tail(q.todo) \in Seq(Posts)
  BY <1>4, HeadTailProperties
<1>6. PICK p \in Posts : p = Head(q.todo)
  BY <1>5
<1>7. p.client \in Clients /\ p.delta \in Int
  BY DEF Posts
<1>8. q.op # "ADJUSTMENT"
  BY <1>4 DEF Sound, AdjustmentReadsWell
<1>9. Seen(r, p.client) \in Int /\ Seen(r, p.client) = balance[p.client] + q.posted[p.client]
  BY <1>1, <1>2, <1>3, <1>7, <1>8, SeenAddsUp DEF BooksInv, Guarded
<1>10. PICK v \in Int : v = Seen(r, p.client) + p.delta
  BY <1>7, <1>9
<1>11. /\ CanWrite(r, p.client)
       /\ holder' = Held(r, p.client)
       /\ request' = [request EXCEPT ![r] =
                         [Written(q, p.client, v, p.delta) EXCEPT !.todo = Tail(q.todo)]]
       /\ UNCHANGED <<balance, rows, recorded, standing, ccEnabled, started>>
  BY <1>3, <1>6, <1>10 DEF PostEntry, Posted
<1>12. /\ holder' \in [Clients -> Requests \cup {Nobody}]
       /\ holder'[p.client] = r
       /\ \A s \in Requests, d \in Clients : holder[d] = s => holder'[d] = s
  BY <1>7, <1>11, TakingARow DEF BooksInv
<1>13. PICK w \in InFlight : w = Written(q, p.client, v, p.delta)
  BY <1>7, WrittenIs
<1>14. /\ w.op = q.op /\ w.client = q.client /\ w.amount = q.amount /\ w.before = q.before
       /\ w.write = {x \in q.write : x.client # p.client}
                       \cup {[client |-> p.client, balance |-> v]}
       /\ w.posted = [q.posted EXCEPT ![p.client] = q.posted[p.client] + p.delta]
  BY <1>7, <1>13, WrittenIs
<1>15. OneWriteEach(w) /\ PostsAreWritten(w)
  BY <1>4, <1>7, <1>13, WriteKeepsAccount DEF Sound
<1>16. PICK n \in InFlight : n = [w EXCEPT !.todo = Tail(q.todo)]
  BY <1>5, NextTodoIs
<1>17. /\ n.op = w.op /\ n.client = w.client /\ n.amount = w.amount /\ n.before = w.before
       /\ n.write = w.write /\ n.posted = w.posted /\ n.todo = Tail(q.todo)
  BY <1>5, <1>16, NextTodoIs
<1>18. OneWriteEach(n) /\ PostsAreWritten(n)
  BY <1>15, <1>17 DEF OneWriteEach, PostsAreWritten, Wrote
<1>19. TransferPostsBoth(n)
  BY <1>4, <1>6, <1>14, <1>17, TransferPosts DEF Sound
<1>20. v = balance[p.client] + q.posted[p.client] + p.delta
  BY <1>9, <1>10
<1>21. PaymentReadsWell(r, n)'
  <2>1. q.op = "PAYMENT" =>
           /\ q.before # Nobody /\ q.client \in Clients /\ q.client \in rows
           /\ holder[q.client] = r /\ q.before = balance[q.client]
           /\ Payable(q.before, q.amount)
    BY <1>4 DEF Sound, PaymentReadsWell
  <2> QED
    BY <1>11, <1>12, <1>14, <1>17, <2>1 DEF PaymentReadsWell
<1>22. AdjustmentReadsWell(r, n)'
  BY <1>8, <1>14, <1>17 DEF AdjustmentReadsWell
<1>23. Sound(r, n)'
  <2>1. /\ n.op = q.op
        /\ n.write = {x \in q.write : x.client # p.client}
                        \cup {[client |-> p.client, balance |-> v]}
        /\ n.posted = [q.posted EXCEPT ![p.client] = q.posted[p.client] + p.delta]
    BY <1>14, <1>17
  <2>2. Types /\ balance' = balance
    BY <1>11 DEF BooksInv
  <2> QED
    BY <1>4, <1>7, <1>12, <1>18, <1>19, <1>20, <1>21, <1>22, <2>1, <2>2, WriteKeepsSound
<1>24. started' \in 0..MaxStarted
  BY <1>11, StartsAreBounded DEF BooksInv, Types
<1>25. request' = [request EXCEPT ![r] = n]
  BY <1>11, <1>13, <1>16
<1> QED
  BY <1>11, <1>12, <1>23, <1>24, <1>25, LocalStep

\* An adjustment writes the balance it read; where there was a row it holds it,
\* and nothing else has been written there.
LEMMA WriteAdjustmentStep ==
    ASSUME BooksInv, NEW r \in Requests, WriteAdjustment(r)
    PROVE  BooksInv'
<1>1. request[r] # Idle /\ Adjusting(r)
  BY DEF WriteAdjustment, Adjusting
<1>2. request[r] \in InFlight /\ Sound(r, request[r])
  BY <1>1, BusyIsInFlight DEF BooksInv, RequestsAreSound
<1>3. PICK q \in InFlight : q = request[r]
  BY <1>2
<1>4. /\ q.op = "ADJUSTMENT" /\ q.before # Nobody /\ q.write = {}
      /\ q.before \in Int /\ q.amount \in Int /\ q.posted \in [Clients -> Int]
      /\ Sound(r, q)
  BY <1>1, <1>2, <1>3 DEF Adjusting, InFlight
<1>5. /\ q.client \in Clients /\ q.todo = <<>>
      /\ q.client \in Opened => holder[q.client] = r /\ q.before = balance[q.client]
  BY <1>4 DEF Sound, AdjustmentReadsWell
<1>6. q.posted[q.client] = 0
  BY <1>4, <1>5 DEF Sound, PostsAreWritten, Wrote
<1>7. PICK v \in Int : v = q.before + q.amount
  BY <1>4
<1>8. PICK c \in Clients, delta \in Int : c = q.client /\ delta = q.amount
  BY <1>4, <1>5
<1>9. /\ CanWrite(r, c)
      /\ holder' = Held(r, c)
      /\ request' = [request EXCEPT ![r] = Written(q, c, v, delta)]
      /\ UNCHANGED <<balance, rows, recorded, standing, ccEnabled, started>>
  BY <1>3, <1>7, <1>8 DEF WriteAdjustment
<1>10. /\ holder' \in [Clients -> Requests \cup {Nobody}]
       /\ holder'[c] = r
       /\ \A s \in Requests, d \in Clients : holder[d] = s => holder'[d] = s
  BY <1>9, TakingARow DEF BooksInv
<1>11. PICK n \in InFlight : n = Written(q, c, v, delta)
  BY WrittenIs
<1>12. /\ n.op = q.op /\ n.client = q.client /\ n.amount = q.amount /\ n.before = q.before
       /\ n.todo = q.todo
       /\ n.write = {x \in q.write : x.client # c} \cup {[client |-> c, balance |-> v]}
       /\ n.posted = [q.posted EXCEPT ![c] = q.posted[c] + delta]
  BY <1>11, WrittenIs
<1>13. OneWriteEach(n) /\ PostsAreWritten(n)
  BY <1>4, <1>11, WriteKeepsAccount DEF Sound
<1>14. TransferPostsBoth(n) /\ PaymentReadsWell(r, n)'
  BY <1>4, <1>12 DEF TransferPostsBoth, PaymentReadsWell
<1>15. AdjustmentReadsWell(r, n)'
  BY <1>4, <1>5, <1>8, <1>9, <1>10, <1>12 DEF AdjustmentReadsWell
<1>16. Guarded(q, c) => v = balance[c] + q.posted[c] + delta
  BY <1>4, <1>5, <1>6, <1>7, <1>8 DEF Guarded
<1>17. Sound(r, n)'
  BY <1>4, <1>9, <1>10, <1>12, <1>13, <1>14, <1>15, <1>16, WriteKeepsSound DEF BooksInv
<1>18. started' \in 0..MaxStarted
  BY <1>9, StartsAreBounded DEF BooksInv, Types
<1> QED
  BY <1>9, <1>10, <1>11, <1>17, <1>18, LocalStep

\* A request that only reads keeps what it wrote.
LEMMA ReadKeepsSound ==
    ASSUME Types, NEW r \in Requests, NEW q \in InFlight, Sound(r, q), NEW n \in InFlight,
           n.op = q.op, n.op # "TRANSFER", n.write = q.write, n.posted = q.posted,
           balance' = balance,
           \A d \in Clients : holder[d] = r => holder'[d] = r,
           PaymentReadsWell(r, n)', AdjustmentReadsWell(r, n)'
    PROVE  Sound(r, n)'
<1>1. \A x \in q.write : x.client \in Clients /\ holder[x.client] = r
  BY DEF Sound, WritesAreHeld, InFlight, Writes
<1>2. WritesAreHeld(r, n)'
  BY <1>1 DEF WritesAreHeld
<1>3. \A x \in q.write : Guarded(q, x.client) => x.balance = balance[x.client] + q.posted[x.client]
  BY DEF Sound, WritesAddUp
<1>4. WritesAddUp(n)'
  BY <1>3 DEF WritesAddUp, Guarded
<1>5. OneWriteEach(n)' /\ PostsAreWritten(n)' /\ TransferPostsBoth(n)'
  BY DEF Sound, OneWriteEach, PostsAreWritten, Wrote, TransferPostsBoth
<1> QED
  BY <1>2, <1>4, <1>5 DEF Sound

\* What reading a balance leaves in the request.
LEMMA BeforeIs ==
    ASSUME NEW q \in InFlight, NEW b \in Int
    PROVE  LET n == [q EXCEPT !.before = b]
           IN /\ n \in InFlight
              /\ n.op = q.op /\ n.client = q.client /\ n.amount = q.amount
              /\ n.before = b /\ n.todo = q.todo /\ n.write = q.write
              /\ n.posted = q.posted
<1>1. [q EXCEPT !.before = b] =
          [op |-> q.op, id |-> q.id, client |-> q.client, amount |-> q.amount,
           before |-> b, todo |-> q.todo, write |-> q.write, posted |-> q.posted]
  BY DEF InFlight
<1>2. [q EXCEPT !.before = b] \in InFlight
  BY <1>1 DEF InFlight
<1> QED
  BY <1>1, <1>2

\* A payment is accepted on a balance that is not zero: there is a row, and it
\* holds it from then on.
LEMMA ReadDebtStep ==
    ASSUME BooksInv, NEW r \in Requests, ReadDebt(r)
    PROVE  BooksInv'
<1>1. request[r] # Idle /\ Unread(r, "PAYMENT")
  BY DEF ReadDebt, Unread
<1>2. request[r] \in InFlight /\ Sound(r, request[r])
  BY <1>1, BusyIsInFlight DEF BooksInv, RequestsAreSound
<1>3. PICK q \in InFlight : q = request[r]
  BY <1>2
<1>4. /\ q.op = "PAYMENT" /\ q.before = Nobody /\ q.amount \in Int /\ Sound(r, q)
  BY <1>1, <1>2, <1>3 DEF Unread, InFlight
<1>5. q.client \in Clients
  BY <1>4 DEF Sound, PaymentReadsWell
<1>6. PICK c \in Clients : c = q.client
  BY <1>5
<1>7. PICK b \in Int : b = balance[c]
  BY DEF BooksInv, Types
<1>8. Payable(b, q.amount) /\ CanSelect(r, c) /\ holder' = Selected(r, c)
  BY <1>3, <1>6, <1>7 DEF ReadDebt
<1>9. c \in rows
  BY <1>7, <1>8 DEF Payable, BooksInv, Types
<1>10. /\ holder' \in [Clients -> Requests \cup {Nobody}]
       /\ holder'[c] = r
       /\ \A s \in Requests, d \in Clients : holder[d] = s => holder'[d] = s
  BY <1>8, <1>9, TakingARow DEF BooksInv
<1>11. Towards(b, q.amount) \in Int
  BY <1>4 DEF Towards
<1>12. Post(c, Towards(b, q.amount)) \in Posts
  BY <1>11, PostType
<1>13. PICK posts \in Seq(Posts) : posts = <<Post(c, Towards(b, q.amount))>>
  BY <1>12, TodoType
<1>14. PICK m \in InFlight : m = [q EXCEPT !.before = b]
  BY BeforeIs
<1>15. PICK n \in InFlight : n = [m EXCEPT !.todo = posts]
  BY NextTodoIs
<1>16. n = [[q EXCEPT !.before = b] EXCEPT !.todo = posts]
  BY <1>14, <1>15
<1>17. /\ request' = [request EXCEPT ![r] = n]
       /\ UNCHANGED <<balance, rows, recorded, standing, ccEnabled, started>>
  <2>1. request' = [request EXCEPT ![r].before = b, ![r].todo = posts]
    BY <1>3, <1>6, <1>7, <1>13 DEF ReadDebt
  <2>2. request' = [request EXCEPT ![r] = [[request[r] EXCEPT !.before = b] EXCEPT !.todo = posts]]
    BY <2>1 DEF BooksInv, Types
  <2> QED
    BY <1>3, <1>16, <2>2 DEF ReadDebt
<1>18. /\ n.op = q.op /\ n.client = c /\ n.amount = q.amount /\ n.before = b
       /\ n.write = q.write /\ n.posted = q.posted
  BY <1>6, <1>14, <1>15, BeforeIs, NextTodoIs
<1>19. b # Nobody
  BY NobodyIsNull
<1>20. PaymentReadsWell(r, n)' /\ AdjustmentReadsWell(r, n)'
  BY <1>4, <1>7, <1>8, <1>9, <1>10, <1>17, <1>18, <1>19 DEF PaymentReadsWell, AdjustmentReadsWell
<1>21. Sound(r, n)'
  BY <1>4, <1>10, <1>17, <1>18, <1>20, ReadKeepsSound DEF BooksInv
<1>22. started' \in 0..MaxStarted
  BY <1>17, StartsAreBounded DEF BooksInv, Types
<1> QED
  BY <1>10, <1>17, <1>21, <1>22, LocalStep

\* An adjustment reads the balance and holds the row, if there is one.
LEMMA ReadBalanceStep ==
    ASSUME BooksInv, NEW r \in Requests, ReadBalance(r)
    PROVE  BooksInv'
<1>1. request[r] # Idle /\ Unread(r, "ADJUSTMENT")
  BY DEF ReadBalance, Unread
<1>2. request[r] \in InFlight /\ Sound(r, request[r])
  BY <1>1, BusyIsInFlight DEF BooksInv, RequestsAreSound
<1>3. PICK q \in InFlight : q = request[r]
  BY <1>2
<1>4. /\ q.op = "ADJUSTMENT" /\ q.before = Nobody /\ Sound(r, q)
  BY <1>1, <1>2, <1>3 DEF Unread, InFlight
<1>5. q.client \in Clients /\ q.todo = <<>>
  BY <1>4 DEF Sound, AdjustmentReadsWell
<1>6. PICK c \in Clients : c = q.client
  BY <1>5
<1>7. PICK b \in Int : b = balance[c]
  BY DEF BooksInv, Types
<1>8. CanSelect(r, c) /\ holder' = Selected(r, c)
  BY <1>3, <1>6 DEF ReadBalance
<1>9. /\ holder' \in [Clients -> Requests \cup {Nobody}]
      /\ c \in rows => holder'[c] = r
      /\ \A s \in Requests, d \in Clients : holder[d] = s => holder'[d] = s
  BY <1>8, TakingARow DEF BooksInv
<1>10. PICK n \in InFlight : n = [q EXCEPT !.before = b]
  BY BeforeIs
<1>11. /\ request' = [request EXCEPT ![r] = n]
       /\ UNCHANGED <<balance, rows, recorded, standing, ccEnabled, started>>
  <2>1. request' = [request EXCEPT ![r].before = b]
    BY <1>3, <1>6, <1>7 DEF ReadBalance
  <2> QED
    BY <1>3, <1>10, <2>1 DEF ReadBalance
<1>12. /\ n.op = q.op /\ n.client = c /\ n.before = b /\ n.todo = <<>>
       /\ n.write = q.write /\ n.posted = q.posted
  BY <1>5, <1>6, <1>10, BeforeIs
<1>13. b # Nobody
  BY NobodyIsNull
<1>14. Opened \subseteq rows
  BY DEF BooksInv, Types
<1>15. PaymentReadsWell(r, n)' /\ AdjustmentReadsWell(r, n)'
  BY <1>4, <1>7, <1>9, <1>11, <1>12, <1>13, <1>14 DEF PaymentReadsWell, AdjustmentReadsWell
<1>16. Sound(r, n)'
  BY <1>4, <1>9, <1>11, <1>12, <1>15, ReadKeepsSound DEF BooksInv
<1>17. started' \in 0..MaxStarted
  BY <1>11, StartsAreBounded DEF BooksInv, Types
<1> QED
  BY <1>9, <1>11, <1>16, <1>17, LocalStep

\* A step that ends a request, or none, keeps what the others rely on if it only
\* changes balances of rows that request held.
LEMMA OthersStaySound ==
    ASSUME BooksInv, NEW r,
           \A s \in Requests \ {r} :
               /\ request'[s] = request[s]
               /\ \A c \in Clients : holder[c] = s => holder'[c] = s /\ balance'[c] = balance[c],
           r \in Requests => request'[r] = Idle,
           rows \subseteq rows'
    PROVE  RequestsAreSound'
<1>1. ASSUME NEW s \in Requests, request'[s] # Idle
      PROVE  Sound(s, request[s])'
  <2>1. s # r /\ request'[s] = request[s] /\ request[s] # Idle
    BY <1>1
  <2>2. request[s] \in InFlight /\ Sound(s, request[s])
    BY <2>1, BusyIsInFlight DEF BooksInv, RequestsAreSound
  <2>3. PICK o \in InFlight : o = request[s]
    BY <2>2
  <2>4. Sound(s, o)'
    BY <2>1, <2>2, <2>3, OthersUntouched DEF BooksInv
  <2>5. request'[s] = o
    BY <2>1, <2>3
  <2> QED
    BY <2>4, <2>5
<1> QED
  BY <1>1 DEF RequestsAreSound

\* A transaction that ends gives up its rows and nobody else's.
LEMMA ReleasedIs ==
    ASSUME Types, NEW r \in Requests
    PROVE  /\ Released(r) \in [Clients -> Requests \cup {Nobody}]
           /\ \A s \in Requests \ {r}, c \in Clients : holder[c] = s => Released(r)[c] = s
BY DEF Types, Released

\* A transaction that is rolled back leaves the books as they were.
LEMMA RollBackStep ==
    ASSUME BooksInv, NEW r \in Requests, RollBack(r)
    PROVE  BooksInv'
<1>1. /\ holder' = Released(r)
      /\ request' = [request EXCEPT ![r] = Idle]
      /\ UNCHANGED <<balance, rows, recorded, standing, ccEnabled, started>>
  BY DEF RollBack
<1>2. Types'
  BY <1>1, ReleasedIs DEF BooksInv, Types
<1>3. \A s \in Requests \ {r} :
         /\ request'[s] = request[s]
         /\ \A c \in Clients : holder[c] = s => holder'[c] = s /\ balance'[c] = balance[c]
  BY <1>1, ReleasedIs DEF BooksInv, Types
<1>4. request'[r] = Idle
  BY <1>1 DEF BooksInv, Types
<1>5. RequestsAreSound'
  BY <1>1, <1>3, <1>4, OthersStaySound
<1>6. AccountIsSumOfRecords'
  BY <1>1 DEF BooksInv, AccountIsSumOfRecords
<1> QED
  BY <1>2, <1>5, <1>6 DEF BooksInv

\* A commit changes the balances of the rows the transaction holds, by what it
\* records.
LEMMA CommitStep ==
    ASSUME BooksInv, NEW r \in Requests, Commit(r)
    PROVE  BooksInv'
<1>1. /\ request[r] # Idle
      /\ balance' = [c \in Clients |-> Seen(r, c)]
      /\ rows' = rows \cup {w.client : w \in request[r].write}
      /\ recorded' = [c \in Clients |-> recorded[c] + request[r].posted[c]]
      /\ standing' = Committed(request[r])
      /\ holder' = Released(r)
      /\ ccEnabled' = IF request[r].op = "ADJUSTMENT"
                      THEN [ccEnabled EXCEPT ![request[r].client] = TRUE] ELSE ccEnabled
      /\ request' = [request EXCEPT ![r] = Idle]
      /\ UNCHANGED started
  BY DEF Commit, Ready
<1>2. request[r] \in InFlight /\ Sound(r, request[r])
  BY <1>1, BusyIsInFlight DEF BooksInv, RequestsAreSound
<1>3. PICK q \in InFlight : q = request[r]
  BY <1>2
<1>4. /\ q.write \in SUBSET Writes /\ q.posted \in [Clients -> Int]
      /\ q.op \in Ops /\ q.id \in 1..MaxStarted
      /\ Sound(r, q)
  BY <1>2, <1>3 DEF InFlight
<1>5. \A c \in Clients :
         /\ Seen(r, c) \in Int
         /\ Guarded(q, c) => Seen(r, c) = balance[c] + q.posted[c]
         /\ ~Wrote(q, c) => Seen(r, c) = balance[c]
  BY <1>1, <1>2, <1>3, SeenAddsUp DEF BooksInv
<1>6. \A c \in Clients : Wrote(q, c) => holder[c] = r
  BY <1>4 DEF Wrote, Sound, WritesAreHeld
<1>7. \A s \in Requests \ {r} :
         /\ request'[s] = request[s]
         /\ \A c \in Clients : holder[c] = s => holder'[c] = s /\ balance'[c] = balance[c]
  BY <1>1, <1>5, <1>6, ReleasedIs DEF BooksInv, Types
<1>8. request'[r] = Idle
  BY <1>1 DEF BooksInv, Types
<1>9. RequestsAreSound'
  BY <1>1, <1>7, <1>8, OthersStaySound
<1>10. Types'
  <2>1. balance' \in [Clients -> Int] /\ recorded' \in [Clients -> Int]
    BY <1>1, <1>3, <1>4, <1>5 DEF BooksInv, Types
  <2>2. rows' \subseteq Clients /\ rows \subseteq rows'
    BY <1>1, <1>3, <1>4 DEF BooksInv, Types, Writes
  <2>3. \A c \in Clients \ rows' : balance'[c] = 0
    <3>1. \A c \in Clients \ rows' : c \notin rows /\ ~Wrote(q, c)
      BY <1>1, <1>3 DEF Wrote
    <3> QED
      BY <1>1, <1>5, <3>1 DEF BooksInv, Types
  <2>4. standing' \subseteq [id : 1..MaxStarted, posted : [Clients -> Int]]
    <3>1. standing \subseteq [id : 1..MaxStarted, posted : [Clients -> Int]]
      BY DEF BooksInv, Types
    <3>2. standing' = Committed(q)
      BY <1>1, <1>3
    <3> QED
      BY <1>4, <3>1, <3>2 DEF Committed, Ops
  <2>5. ccEnabled' \in [Clients -> BOOLEAN]
    BY <1>1 DEF BooksInv, Types
  <2>6. request' \in [Requests -> {Idle} \cup InFlight]
    BY <1>1 DEF BooksInv, Types
  <2>7. holder' \in [Clients -> Requests \cup {Nobody}]
    BY <1>1, ReleasedIs DEF BooksInv
  <2>8. Opened \subseteq rows' /\ started' \in 0..MaxStarted
    BY <1>1, <2>2 DEF BooksInv, Types
  <2> QED
    BY <2>1, <2>2, <2>3, <2>4, <2>5, <2>6, <2>7, <2>8 DEF Types
<1>11. AccountIsSumOfRecords'
  BY <1>1, <1>3, <1>5, OpenedAreClients DEF BooksInv, AccountIsSumOfRecords, Guarded
<1> QED
  BY <1>9, <1>10, <1>11 DEF BooksInv

\* Switching an account on or off, or nothing at all, touches no books.
LEMMA IdleStep ==
    ASSUME BooksInv, ccEnabled' \in [Clients -> BOOLEAN],
           UNCHANGED <<balance, rows, holder, recorded, standing, request, started>>
    PROVE  BooksInv'
<1>1. Types'
  BY DEF BooksInv, Types
<1>2. PICK r : r \notin Requests
  BY NobodyIsNull
<1>3. RequestsAreSound'
  BY <1>2, OthersStaySound
<1>4. AccountIsSumOfRecords'
  BY DEF BooksInv, AccountIsSumOfRecords
<1> QED
  BY <1>1, <1>3, <1>4 DEF BooksInv

\* At the start nothing is under way, and the books are balanced.
LEMMA BooksInit == Init => BooksInv
<1> SUFFICES ASSUME Init
             PROVE  BooksInv
  OBVIOUS
<1>a. /\ balance \in [Clients -> Int]
      /\ \A c \in Clients \ Opened : balance[c] = 0
  <2>1. /\ balance \in [Clients -> Openings \cup {0}]
        /\ \A c \in Clients : IF c \in Opened THEN balance[c] \in Openings ELSE balance[c] = 0
    BY DEF Init
  <2>2. Openings \cup {0} \subseteq Int
    BY AmountsAreSigned
  <2> QED
    BY <2>1, <2>2
<1>b. started \in 0..MaxStarted
  BY StartsAreBounded DEF Init
<1>c. request \in [Requests -> {Idle} \cup InFlight]
  BY DEF Init
<1>1. Types
  BY <1>a, <1>b, <1>c, OpenedAreClients DEF Init, Types
<1>2. RequestsAreSound
  BY DEF Init, RequestsAreSound
<1>3. AccountIsSumOfRecords
  BY DEF Init, AccountIsSumOfRecords
<1> QED
  BY <1>1, <1>2, <1>3 DEF BooksInv

\* Every step of the current accounts keeps the books.
LEMMA BooksNext == BooksInv /\ [Next]_vars => BooksInv'
<1> SUFFICES ASSUME BooksInv, [Next]_vars
             PROVE  BooksInv'
  OBVIOUS
<1>1. ASSUME NEW c \in Clients, ToggleCC(c)
      PROVE  BooksInv'
  <2>1. ccEnabled' \in [Clients -> BOOLEAN]
    BY <1>1 DEF ToggleCC, BooksInv, Types
  <2> QED
    BY <1>1, <2>1, IdleStep DEF ToggleCC
<1>2. ASSUME NEW r \in Requests, Arrive(r)
      PROVE  BooksInv'
  BY <1>2, ArriveStep
<1>3. ASSUME NEW r \in Requests, RollBack(r)
      PROVE  BooksInv'
  BY <1>3, RollBackStep
<1>4. ASSUME NEW r \in Requests, Proceed(r)
      PROVE  BooksInv'
  <2>1. CASE PostEntry(r)
    BY <2>1, PostEntryStep
  <2>2. CASE PostRefused(r)
    BY <2>2, <1>3 DEF PostRefused
  <2>3. CASE ReadDebt(r)
    BY <2>3, ReadDebtStep
  <2>4. CASE PaymentRefused(r)
    BY <2>4, <1>3 DEF PaymentRefused
  <2>5. CASE ReadBalance(r)
    BY <2>5, ReadBalanceStep
  <2>6. CASE WriteAdjustment(r)
    BY <2>6, WriteAdjustmentStep
  <2>7. CASE Commit(r)
    BY <2>7, CommitStep
  <2>8. CASE CommitRefused(r)
    BY <2>8, <1>3 DEF CommitRefused
  <2>9. CASE DeadlockAbort(r)
    BY <2>9, <1>3 DEF DeadlockAbort
  <2> QED
    BY <1>4, <2>1, <2>2, <2>3, <2>4, <2>5, <2>6, <2>7, <2>8, <2>9 DEF Proceed
<1>5. CASE UNCHANGED vars
  <2>1. ccEnabled' \in [Clients -> BOOLEAN]
    BY <1>5 DEF vars, BooksInv, Types
  <2> QED
    BY <1>5, <2>1, IdleStep DEF vars
<1> QED
  BY <1>1, <1>2, <1>3, <1>4, <1>5 DEF Next

-----------------------------------------------------------------------------
(* Current accounts: the theorems                                          *)

LEMMA BooksAlways == Spec => []BooksInv
BY BooksInit, BooksNext, PTL DEF Spec

\* The books say what LedgerInv says of a request: it holds the rows it wrote.
LEMMA BooksBalance == BooksInv => LedgerInv
<1> SUFFICES ASSUME BooksInv
             PROVE  LedgerInv
  OBVIOUS
<1>1. ASSUME NEW r \in Requests, request[r] # Idle
      PROVE  request[r].op \in Ops /\ \A w \in request[r].write : holder[w.client] = r
  <2>1. request[r] \in InFlight /\ Sound(r, request[r])
    BY <1>1, BusyIsInFlight DEF BooksInv, RequestsAreSound
  <2> QED
    BY <2>1 DEF InFlight, Sound, WritesAreHeld
<1>2. TypeOK
  BY <1>1 DEF BooksInv, Types, TypeOK
<1> QED
  BY <1>2 DEF BooksInv, LedgerInv

\* The balance of every account with a row is the sum of what is recorded about
\* it, however transfers, payments, adjustments and annulments interleave
\* (ApplyEntry, cc_service.go; ApplyCCBalanceAdjustmentsTx, client_repo.go).
THEOREM AccountsAddUp == Spec => []LedgerInv
BY BooksAlways, BooksBalance, PTL

\* A step changes a balance or the movements that stand only by committing.
LEMMA OnlyCommitsWrite ==
    ASSUME [Next]_vars
    PROVE  \/ balance' = balance /\ standing' = standing
           \/ \E s \in Requests : Commit(s)
<1>1. ASSUME NEW c \in Clients, ToggleCC(c)
      PROVE  balance' = balance /\ standing' = standing
  BY <1>1 DEF ToggleCC
<1>2. ASSUME NEW r \in Requests, Arrive(r)
      PROVE  balance' = balance /\ standing' = standing
  BY <1>2 DEF Arrive, StartTransfer, StartPayment, StartAdjustment, StartAnnulment, Start
<1>3. ASSUME NEW r \in Requests, Proceed(r) \/ RollBack(r), ~Commit(r)
      PROVE  balance' = balance /\ standing' = standing
  BY <1>3 DEF Proceed, PostEntry, PostRefused, ReadDebt, PaymentRefused, ReadBalance,
              WriteAdjustment, CommitRefused, DeadlockAbort, RollBack
<1>4. CASE UNCHANGED vars
  BY <1>4 DEF vars
<1> QED
  BY <1>1, <1>2, <1>3, <1>4 DEF Next

\* The commit that ends a request is its own.
LEMMA CommitIsOwn ==
    ASSUME BooksInv, NEW r \in Requests, NEW s \in Requests, Commit(s),
           request[r] # Idle, request'[r] = Idle
    PROVE  r = s
BY DEF Commit, BooksInv, Types

\* A payment that commits took the balance that stands at its commit, and as far
\* as the settings allow: it has held the row since it read it.
LEMMA PaymentCommits ==
    ASSUME BooksInv, NEW r \in Requests, Commit(r), request[r].op = "PAYMENT"
    PROVE  /\ request[r].before = balance[request[r].client]
           /\ Payable(balance[request[r].client], request[r].amount)
<1>1. request[r] # Idle /\ request[r].write # {}
  BY DEF Commit, Ready
<1>2. Sound(r, request[r])
  BY <1>1 DEF BooksInv, RequestsAreSound
<1> QED
  BY <1>1, <1>2 DEF Sound, PaymentReadsWell

\* No payment is committed on a balance that has changed since it was read, nor
\* beyond what the settings allow (Execute, pago_cc_cruzado_service.go).
THEOREM PaymentsTakeWhatStands == Spec => PaymentsRespectSettings
<1>1. ASSUME BooksInv, [Next]_vars, NEW r \in Requests,
             request[r] # Idle, request[r].op = "PAYMENT",
             request'[r] = Idle, standing' # standing
      PROVE  /\ Payable(balance[request[r].client], request[r].amount)
             /\ request[r].before = balance[request[r].client]
  <2>1. PICK s \in Requests : Commit(s)
    BY <1>1, OnlyCommitsWrite
  <2>2. Commit(r)
    BY <1>1, <2>1, CommitIsOwn
  <2> QED
    BY <1>1, <2>2, PaymentCommits
<1>2. BooksInv /\ [Next]_vars =>
         [\A r \in Requests :
            LET q == request[r]
                c == q.client
            IN /\ q # Idle /\ q.op = "PAYMENT"
               /\ request'[r] = Idle /\ standing' # standing
               => Payable(balance[c], q.amount) /\ q.before = balance[c]]_vars
  BY <1>1
<1> QED
  BY <1>2, BooksAlways, PTL DEF Spec, PaymentsRespectSettings

\* A transfer that commits has recorded both sides of its debt.
LEMMA TransferCommits ==
    ASSUME BooksInv, NEW r \in Requests, Commit(r), request[r].op = "TRANSFER"
    PROVE  SumFunction(balance') = SumFunction(balance)
<1>1. request[r] # Idle /\ request[r].todo = <<>> /\ balance' = [c \in Clients |-> Seen(r, c)]
  BY DEF Commit, Ready
<1>2. request[r] \in InFlight /\ Sound(r, request[r])
  BY <1>1, BusyIsInFlight DEF BooksInv, RequestsAreSound
<1>3. PICK q \in InFlight : q = request[r]
  BY <1>2
<1>4. PICK from, to \in Clients, a \in Amounts : TransferStage(q, from, to, a)
  BY <1>2, <1>3 DEF Sound, TransferPostsBoth
<1>5. <<Post(from, a), Post(to, -a)>> # <<>> /\ <<Post(to, -a)>> # <<>>
  OBVIOUS
<1>6. from # to /\ q.posted = [[Zero EXCEPT ![from] = a] EXCEPT ![to] = -a]
  BY <1>1, <1>3, <1>4, <1>5 DEF TransferStage
<1>7. a \in Int /\ -a \in Int /\ balance \in [Clients -> Int]
  BY AmountsAreSigned DEF BooksInv, Types
<1>8. \A c \in Clients : Seen(r, c) = balance[c] + q.posted[c]
  BY <1>1, <1>2, <1>3, SeenAddsUp DEF BooksInv, Guarded
<1>9. PICK b : b = [balance EXCEPT ![from] = balance[from] + a]
  OBVIOUS
<1>10. b \in [Clients -> Int] /\ b[to] = balance[to]
  BY <1>6, <1>7, <1>9
<1>11. balance' = [b EXCEPT ![to] = b[to] + (-a)]
  <2>1. q.posted[from] = a /\ q.posted[to] = -a /\ \A c \in Clients \ {from, to} : q.posted[c] = 0
    BY <1>6 DEF Zero
  <2>2. \A c \in Clients : [b EXCEPT ![to] = b[to] + (-a)][c] = balance[c] + q.posted[c]
    <3>1. [b EXCEPT ![to] = b[to] + (-a)][to] = balance[to] + q.posted[to]
      BY <1>10, <2>1
    <3>2. [b EXCEPT ![to] = b[to] + (-a)][from] = balance[from] + q.posted[from]
      BY <1>6, <1>7, <1>9, <1>10, <2>1
    <3>3. \A c \in Clients \ {from, to} :
             [b EXCEPT ![to] = b[to] + (-a)][c] = b[c] /\ b[c] = balance[c]
      BY <1>7, <1>9, <1>10
    <3>4. \A c \in Clients \ {from, to} : balance[c] + q.posted[c] = balance[c]
      BY <1>7, <2>1
    <3> QED
      BY <3>1, <3>2, <3>3, <3>4
  <2> QED
    BY <1>1, <1>8, <1>10, <2>2
<1>12. SumFunction(b) = SumFunction(balance) + b[from] - balance[from]
  <2>1. \A c \in Clients \ {from} : b[c] = balance[c]
    BY <1>7, <1>9
  <2> QED
    BY <1>7, <1>10, <2>1, OpenedAreClients, SumFunctionUpdate
<1>13. SumFunction(balance') = SumFunction(b) + balance'[to] - b[to]
  <2>1. PICK h : h = balance'
    OBVIOUS
  <2>2. h \in [Clients -> Int] /\ \A c \in Clients \ {to} : h[c] = b[c]
    BY <1>7, <1>10, <1>11, <2>1
  <2>3. SumFunction(h) = SumFunction(b) + h[to] - b[to]
    BY <1>10, <2>2, OpenedAreClients, SumFunctionUpdate
  <2> QED
    BY <2>1, <2>3
<1>14. SumFunction(balance) \in Int
  BY <1>7, OpenedAreClients, SumFunctionType
<1>15. b[from] = balance[from] + a /\ balance'[to] = b[to] + (-a)
  BY <1>7, <1>9, <1>10, <1>11
<1>16. balance[from] \in Int /\ b[to] \in Int
  BY <1>7, <1>10
<1> QED
  BY <1>7, <1>12, <1>13, <1>14, <1>15, <1>16

\* A transfer of debt ends with both of its entries or with neither, and the debt
\* of all clients together stays what it was (Execute, traspaso_deuda_cc_service.go).
THEOREM TransfersAreWhole == Spec => TransfersMoveDebtWhole
<1>1. ASSUME BooksInv, [Next]_vars, NEW r \in Requests,
             request[r] # Idle, request[r].op = "TRANSFER", request'[r] = Idle
      PROVE  SumFunction(balance') = SumFunction(balance)
  <2>1. CASE balance' = balance
    BY <2>1
  <2>2. CASE \E s \in Requests : Commit(s)
    BY <1>1, <2>2, CommitIsOwn, TransferCommits
  <2> QED
    BY <1>1, <2>1, <2>2, OnlyCommitsWrite
<1>2. BooksInv /\ [Next]_vars =>
         [\A r \in Requests :
            /\ request[r] # Idle /\ request[r].op = "TRANSFER"
            /\ request'[r] = Idle
            => SumFunction(balance') = SumFunction(balance)]_vars
  BY <1>1
<1> QED
  BY <1>2, BooksAlways, PTL DEF Spec, TransfersMoveDebtWhole
-----------------------------------------------------------------------------
(* The exchange inventory: rounding                                        *)

\* Division of integers by a positive one.
LEMMA DivisionIs ==
    ASSUME NEW n \in Int, NEW d \in Nat \ {0}
    PROVE  /\ n \div d \in Int
           /\ n - d < d * (n \div d)
           /\ d * (n \div d) <= n
OBVIOUS

\* Rounding is off by half of the divisor at most, and keeps the sign.
LEMMA RoundedIs ==
    ASSUME NEW n \in Int, NEW d \in Nat \ {0}
    PROVE  /\ Rounded(n, d) \in Int
           /\ 2 * n - d <= 2 * d * Rounded(n, d)
           /\ 2 * d * Rounded(n, d) <= 2 * n + d
           /\ n >= 0 => Rounded(n, d) >= 0 /\ 2 * n - d < 2 * d * Rounded(n, d)
<1>1. PICK e \in Nat \ {0} : e = 2 * d
  OBVIOUS
<1>2. CASE n >= 0
  <2>1. PICK a \in Int : a = 2 * n + d
    OBVIOUS
  <2>2. PICK k \in Int : k = a \div e /\ a - e < e * k /\ e * k <= a
    BY DivisionIs
  <2>3. Rounded(n, d) = k
    BY <1>1, <1>2, <2>1, <2>2 DEF Rounded
  <2>4. k < 0 => e * k <= -e
    OBVIOUS
  <2>5. e * k = 2 * d * k /\ e * k \in Int
    BY <1>1
  <2> QED
    BY <1>1, <1>2, <2>1, <2>2, <2>3, <2>4, <2>5
<1>3. CASE n < 0
  <2>1. PICK a \in Int : a = d - 2 * n
    OBVIOUS
  <2>2. PICK k \in Int : k = a \div e /\ a - e < e * k /\ e * k <= a
    BY DivisionIs
  <2>3. Rounded(n, d) = -k
    BY <1>1, <1>3, <2>1, <2>2 DEF Rounded
  <2>4. e * k \in Int /\ 2 * d * (-k) = -(e * k)
    BY <1>1
  <2> QED
    BY <1>1, <1>3, <2>1, <2>2, <2>3, <2>4
<1> QED
  BY <1>2, <1>3

\* Less than a multiple away.
LEMMA AtMostOne ==
    ASSUME NEW d \in Nat \ {0}, NEW y \in Int
    PROVE  /\ d * y <= d => y <= 1
           /\ d * y > -d => y >= 0
           /\ d * y >= -d => y >= -1
<1>1. ASSUME y >= 2
      PROVE  d * y >= 2 * d
  BY <1>1
<1>2. ASSUME y <= -1
      PROVE  d * y <= -d
  BY <1>2
<1>3. ASSUME y <= -2
      PROVE  d * y <= -2 * d
  BY <1>3
<1> QED
  BY <1>1, <1>2, <1>3

\* The parts of a whole, rounded each on its own, add up to it but for one.
LEMMA RoundedParts ==
    ASSUME NEW n \in Int, NEW m \in Int, NEW x \in Int, NEW d \in Nat \ {0}, n + m = x * d
    PROVE  /\ Rounded(n, d) + Rounded(m, d) - x \in {-1, 0, 1}
           /\ n >= 0 /\ m >= 0 => Rounded(n, d) + Rounded(m, d) - x \in {0, 1}
<1> DEFINE j == Rounded(n, d)
           k == Rounded(m, d)
           y == j + k - x
<1>1. /\ j \in Int /\ 2 * n - d <= 2 * d * j /\ 2 * d * j <= 2 * n + d
      /\ n >= 0 => 2 * n - d < 2 * d * j
      /\ k \in Int /\ 2 * m - d <= 2 * d * k /\ 2 * d * k <= 2 * m + d
      /\ m >= 0 => 2 * m - d < 2 * d * k
  BY RoundedIs
<1> HIDE DEF j, k
<1>2. 2 * d * y = 2 * d * j + 2 * d * k - 2 * (n + m)
  BY <1>1
<1>3. y \in Int /\ d * y \in Int /\ 2 * d * y = 2 * (d * y)
  BY <1>1
<1>4. d * y <= d /\ d * y >= -d /\ (n >= 0 /\ m >= 0 => d * y > -d)
  <2>1. 2 * d * j \in Int /\ 2 * d * k \in Int
    BY <1>1
  <2> HIDE DEF y
  <2> QED
    BY <1>1, <1>2, <1>3, <2>1
<1>5. y <= 1 /\ y >= -1 /\ (n >= 0 /\ m >= 0 => y >= 0)
  <2> HIDE DEF y
  <2> QED BY <1>3, <1>4, AtMostOne
<1> QED
  BY <1>3, <1>5 DEF j, k

\* The least of some of the first numbers is one of them.
LEMMA FirstIsOne ==
    ASSUME NEW n \in Nat, NEW I \in SUBSET (1..n), I # {}
    PROVE  Min(I) \in I
<1>1. IsFiniteSet(1..n)
  BY FS_Interval
<1> DEFINE T == {1..i : i \in I}
<1>2. T \subseteq SUBSET (1..n) /\ T # {}
  <2>1. \A i \in I : 1..i \subseteq 1..n
    OBVIOUS
  <2> QED
    BY <2>1
<1>a. \A i \in I : 1..i \in T
  OBVIOUS
<1>b. \A x \in T : \E i \in I : x = 1..i
  OBVIOUS
<1> HIDE DEF T
<1>3. PICK x \in T : \A y \in T : y \subseteq x => y = x
  <2>1. PICK D, U : D = 1..n /\ U = T
    OBVIOUS
  <2>2. IsFiniteSet(D) /\ U \subseteq SUBSET D /\ U # {}
    BY <1>1, <1>2, <2>1
  <2>3. \E x \in U : \A y \in U : y \subseteq x => y = x
    BY <2>2, MinimalSubset
  <2> QED
    BY <2>1, <2>3
<1>4. PICK i \in I : x = 1..i
  BY <1>3, <1>b
<1>5. ASSUME NEW j \in I
      PROVE  i <= j
  <2>1. i \in 1..n /\ j \in 1..n
    OBVIOUS
  <2>2. SUFFICES ASSUME j < i
                 PROVE  FALSE
    BY <2>1
  <2>3. 1..j \subseteq 1..i /\ 1..j \in T
    BY <1>a, <2>1, <2>2
  <2>4. 1..j = 1..i
    BY <1>3, <1>4, <2>3
  <2> QED
    BY <2>1, <2>2, <2>4
<1> QED
  BY <1>5 DEF Min

-----------------------------------------------------------------------------
(* What a movement trades                                                  *)

LineRows ==
    [leg : {"OUT", "IN", "FEE"}, side : {"IN", "OUT"},
     currency : Currencies \cup {Functional}, amount : Nat \ {0}]

Trades ==
    [kind : {"PURCHASE", "SALE"}, currency : Currencies,
     quantity : Nat \ {0}, quote : Nat \ {0}]

\* The two legs of an operation, and fees that are not legs.
Legs(agreed, out, in) ==
    /\ agreed \in SUBSET LineRows
    /\ IsFiniteSet(agreed)
    /\ out \in agreed /\ out.leg = "OUT" /\ out.side = "OUT"
    /\ in \in agreed /\ in.leg = "IN" /\ in.side = "IN"
    /\ \A l \in agreed : l = out \/ l = in \/ l.leg = "FEE"
    /\ Fees = {} => agreed = {out, in}

LEMMA PairIsFinite ==
    ASSUME NEW a, NEW b
    PROVE  IsFiniteSet({a, b})
<1>1. IsFiniteSet({a} \cup {b})
  BY FS_Singleton, FS_AddElement
<1>2. {a, b} = {a} \cup {b}
  OBVIOUS
<1> QED
  BY <1>1, <1>2

\* An exchange of two currencies has its two legs, with or without a fee.
LEMMA ExchangeHasLegs ==
    ASSUME NEW c \in Currencies \cup {Functional}, NEW d \in Currencies \cup {Functional},
           NEW agreed \in TransferLines(c, d)
    PROVE  \E out, in : Legs(agreed, out, in)
<1>1. \A e \in Currencies \cup {Functional} : AmountsOf(e) \subseteq Nat \ {0}
  BY AmountsArePositive DEF AmountsOf
<1>2. ASSUME NEW e \in Exchange(c, d)
      PROVE  \E out, in \in LineRows :
                 /\ e = {out, in}
                 /\ out.leg = "OUT" /\ out.side = "OUT" /\ in.leg = "IN" /\ in.side = "IN"
  <2>1. PICK a \in AmountsOf(c), b \in AmountsOf(d) :
            e = {Line("OUT", "OUT", c, a), Line("IN", "IN", d, b)}
    BY DEF Exchange
  <2>2. a \in Nat \ {0} /\ b \in Nat \ {0}
    BY <1>1
  <2>3. PICK out, in : out = Line("OUT", "OUT", c, a) /\ in = Line("IN", "IN", d, b)
    OBVIOUS
  <2>4. /\ out \in LineRows /\ out.leg = "OUT" /\ out.side = "OUT"
        /\ in \in LineRows /\ in.leg = "IN" /\ in.side = "IN"
    BY <2>2, <2>3 DEF Line, LineRows
  <2> QED
    BY <2>1, <2>3, <2>4
<1>3. CASE agreed \in Exchange(c, d)
  <2>1. PICK out, in \in LineRows :
            /\ agreed = {out, in}
            /\ out.leg = "OUT" /\ out.side = "OUT" /\ in.leg = "IN" /\ in.side = "IN"
    BY <1>2, <1>3
  <2>2. IsFiniteSet(agreed)
    BY <2>1, PairIsFinite
  <2> QED
    BY <2>1, <2>2 DEF Legs
<1>4. CASE \E e \in Exchange(c, d), f \in FeeLines(c, d) : agreed = e \cup {f}
  <2>1. PICK e \in Exchange(c, d), f \in FeeLines(c, d) : agreed = e \cup {f}
    BY <1>4
  <2>2. PICK out, in \in LineRows :
            /\ e = {out, in}
            /\ out.leg = "OUT" /\ out.side = "OUT" /\ in.leg = "IN" /\ in.side = "IN"
    BY <1>2
  <2>3. f \in LineRows /\ f.leg = "FEE" /\ Fees # {}
    BY AmountsArePositive DEF FeeLines, Line, LineRows
  <2>4. IsFiniteSet(agreed)
    BY <2>1, <2>2, PairIsFinite, FS_AddElement
  <2> QED
    BY <2>1, <2>2, <2>3, <2>4 DEF Legs
<1> QED
  BY <1>3, <1>4 DEF TransferLines

\* Every operation that trades has its two legs.
LEMMA OperationsHaveLegs ==
    ASSUME NEW kind \in Kinds, NEW agreed \in LinesOf(kind)
    PROVE  \E out, in : Legs(agreed, out, in)
<1>1. \E c, d \in Currencies \cup {Functional} : agreed \in TransferLines(c, d)
  BY KindsTrade DEF LinesOf, TransferLines
<1> QED
  BY <1>1, ExchangeHasLegs

\* Two lines trade a currency for the functional one, or nothing.
LEMMA TradeType ==
    ASSUME NEW out \in LineRows, NEW in \in LineRows
    PROVE  TradeOf(out, in) \in Trades \cup {NoTrade}
BY DEF TradeOf, Trade, Trades, LineRows

\* What the code finds in the list is what its legs trade, if there is no fee.
LEMMA TradesFound ==
    ASSUME NEW kind \in Kinds, NEW agreed \in LinesOf(kind), NEW t \in TradesListed(kind, agreed)
    PROVE  /\ t \in Trades \cup {NoTrade}
           /\ Fees = {} /\ t # NoTrade => t = Principal(agreed)
<1>1. PICK out, in : Legs(agreed, out, in)
  BY OperationsHaveLegs
<1>2. agreed \subseteq LineRows /\ out \in agreed /\ in \in agreed
  BY <1>1 DEF Legs
<1>3. Principal(agreed) = TradeOf(out, in)
  <2>1. LineOf(agreed, "OUT") = out
    BY <1>1 DEF LineOf, Legs
  <2>2. LineOf(agreed, "IN") = in
    BY <1>1 DEF LineOf, Legs
  <2> QED
    BY <2>1, <2>2 DEF Principal
<1>4. Principal(agreed) \in Trades \cup {NoTrade}
  BY <1>2, <1>3, TradeType
<1>5. CASE t = Principal(agreed)
  BY <1>4, <1>5
<1>6. CASE \E list \in SetToSeqs(agreed) : t = PrincipalOf(list)
  <2>1. PICK list \in SetToSeqs(agreed) : t = PrincipalOf(list)
    BY <1>6
  <2>2. Cardinality(agreed) \in Nat
    BY <1>1, FS_CardinalityType DEF Legs
  <2>3. list \in [1..Cardinality(agreed) -> agreed]
    BY DEF SetToSeqs
  <2>4. PICK n \in Nat : n = Cardinality(agreed)
    BY <2>2
  <2>5. list \in [1..n -> agreed] /\ Len(list) = n
    BY <2>3, <2>4
  <2>6. PICK i, j : i = FirstOut(list) /\ j = FirstInAfter(list, i)
    OBVIOUS
  <2>7. i # 0 => i \in 1..n /\ list[i].side = "OUT"
    <3> DEFINE I == {k \in 1..n : list[k].side = "OUT"}
    <3>1. i = IF I # {} THEN Min(I) ELSE 0
      BY <2>5, <2>6 DEF FirstOut, SelectInSeq
    <3>2. I \in SUBSET (1..n)
      OBVIOUS
    <3>3. I # {} => Min(I) \in I
      BY <3>2, FirstIsOne
    <3> QED
      BY <3>1, <3>3
  <2>8. i # 0 /\ j # 0 => j \in 1..n /\ list[j].side = "IN"
    <3> DEFINE I == {k \in (i + 1)..n : list[k].side = "IN"}
    <3>1. j = IF I # {} THEN Min(I) ELSE 0
      BY <2>5, <2>6 DEF FirstInAfter, SelectInSubSeq
    <3>2. i # 0 => I \in SUBSET (1..n)
      BY <2>7
    <3>3. i # 0 /\ I # {} => Min(I) \in I
      BY <3>2, FirstIsOne
    <3> QED
      BY <2>7, <3>1, <3>3
  <2>9. t = IF i = 0 \/ j = 0 THEN NoTrade ELSE TradeOf(list[i], list[j])
    BY <2>1, <2>6 DEF PrincipalOf
  <2>10. i # 0 /\ j # 0 => list[i] \in agreed /\ list[j] \in agreed
    BY <2>5, <2>7, <2>8
  <2>11. Fees = {} /\ i # 0 /\ j # 0 => list[i] = out /\ list[j] = in
    BY <1>1, <2>7, <2>8, <2>10 DEF Legs
  <2> QED
    BY <1>2, <1>3, <2>9, <2>10, <2>11, TradeType
<1> QED
  BY <1>5, <1>6 DEF TradesListed

-----------------------------------------------------------------------------
(* What stands, and its sums                                               *)

StandingIn(l, rev, c) ==
    {m \in Movements : l[m] # NoRow /\ m \notin rev /\ l[m].currency = c}

QuantityOf(l) == [m \in Movements |-> l[m].quantity]
CostIn(l)     == [m \in Movements |-> l[m].cost]
SalesIn(l)    == {m \in Movements : l[m] # NoRow /\ l[m].quantity < 0}

Positions == [quantity : Nat, cost : Nat]

\* A position is what stands, an empty one has no cost, and none is valued above
\* the cost of what stands but for a quantum of each sale.
InStep(l, rev, p, c) ==
    /\ p.quantity = SumFunctionOnSet(QuantityOf(l), StandingIn(l, rev, c))
    /\ p.quantity = 0 => p.cost = 0
    /\ p.cost <= SumFunctionOnSet(CostIn(l), StandingIn(l, rev, c)) + Cardinality(SalesIn(l))

Kept(l, rev, book) ==
    /\ l \in [Movements -> Rows \cup {NoRow}]
    /\ rev \subseteq {m \in Movements : l[m] # NoRow}
    /\ book \in [Currencies -> Positions]
    /\ \A c \in Currencies : InStep(l, rev, book[c], c)

\* A row is not the absence of one.
LEMMA RowsAreRows ==
    ASSUME NEW row \in Rows
    PROVE  row # NoRow /\ row.currency \in Currencies /\ row.quantity \in Int /\ row.cost \in Int
BY DEF Rows, NoRow

LEMMA ColumnsAreIntegers ==
    ASSUME NEW l \in [Movements -> Rows \cup {NoRow}]
    PROVE  /\ QuantityOf(l) \in [Movements -> Int]
           /\ CostIn(l) \in [Movements -> Int]
           /\ \A m \in Movements : QuantityOf(l)[m] = l[m].quantity /\ CostIn(l)[m] = l[m].cost
<1>1. \A m \in Movements : l[m].quantity \in Int /\ l[m].cost \in Int
  <2>1. NoRow.quantity \in Int /\ NoRow.cost \in Int
    BY DEF NoRow
  <2> QED
    BY <2>1, RowsAreRows
<1> QED
  BY <1>1 DEF QuantityOf, CostIn

\* A sum over one more movement.
LEMMA SumGrows ==
    ASSUME NEW S \in SUBSET Movements, NEW m \in Movements \ S,
           NEW f \in [Movements -> Int], NEW g \in [Movements -> Int],
           \A n \in Movements \ {m} : g[n] = f[n]
    PROVE  /\ SumFunctionOnSet(f, S) \in Int
           /\ SumFunctionOnSet(g, S) = SumFunctionOnSet(f, S)
           /\ SumFunctionOnSet(g, S \cup {m}) = SumFunctionOnSet(f, S) + g[m]
<1>1. IsFiniteSet(S) /\ IsFiniteSet(S \cup {m})
  BY FiniteBook, FS_Subset
<1>2. SumFunctionOnSet(f, S) \in Int
  BY <1>1, SumIsInt
<1>3. SumFunctionOnSet(f, S) = SumFunctionOnSet(g, S)
  BY <1>1, SumCongruence
<1>4. SumFunctionOnSet(g, S \cup {m}) = g[m] + SumFunctionOnSet(g, S)
  <2>1. PICK T : T = S \cup {m}
    OBVIOUS
  <2>2. m \in T /\ T \ {m} = S /\ \A n \in T : g[n] \in Int
    BY <2>1
  <2>3. SumFunctionOnSet(g, T) = g[m] + SumFunctionOnSet(g, T \ {m})
    BY <1>1, <2>1, <2>2, SumTakesAny
  <2> QED
    BY <2>1, <2>2, <2>3
<1>5. g[m] \in Int
  OBVIOUS
<1> QED
  BY <1>2, <1>3, <1>4, <1>5

LEMMA SumOfOneMore ==
    ASSUME NEW S \in SUBSET Movements, NEW m \in Movements \ S, NEW f \in [Movements -> Int]
    PROVE  /\ SumFunctionOnSet(f, S) \in Int
           /\ SumFunctionOnSet(f, S \cup {m}) = SumFunctionOnSet(f, S) + f[m]
<1>1. \A n \in Movements \ {m} : f[n] = f[n]
  OBVIOUS
<1> QED
  BY <1>1, SumGrows

\* Booking a row: the position takes its quantity and, but for a quantum of a
\* sale, its cost.
LEMMA EntryKeeps ==
    ASSUME NEW l, NEW rev, NEW book, Kept(l, rev, book),
           NEW m \in Movements, l[m] = NoRow,
           NEW row \in Rows, NEW c \in Currencies, row.currency = c,
           NEW p \in Positions,
           p.quantity = book[c].quantity + row.quantity,
           p.quantity = 0 => p.cost = 0,
           p.cost <= book[c].cost + row.cost + (IF row.quantity < 0 THEN 1 ELSE 0)
    PROVE  Kept([l EXCEPT ![m] = row], rev, [book EXCEPT ![c] = p])
<1>1. PICK k, b : k = [l EXCEPT ![m] = row] /\ b = [book EXCEPT ![c] = p]
  OBVIOUS
<1>2. /\ l \in [Movements -> Rows \cup {NoRow}]
      /\ rev \subseteq {n \in Movements : l[n] # NoRow}
      /\ book \in [Currencies -> Positions]
      /\ \A d \in Currencies : InStep(l, rev, book[d], d)
  BY DEF Kept
<1>3. /\ k \in [Movements -> Rows \cup {NoRow}]
      /\ k[m] = row
      /\ \A n \in Movements \ {m} : k[n] = l[n]
      /\ b \in [Currencies -> Positions]
      /\ b[c] = p
      /\ \A d \in Currencies \ {c} : b[d] = book[d]
  BY <1>1, <1>2
<1>4. row # NoRow /\ row.quantity \in Int /\ row.cost \in Int
  BY RowsAreRows
<1>5. rev \subseteq {n \in Movements : k[n] # NoRow} /\ m \notin rev
  BY <1>2, <1>3
<1>6. SalesIn(k) = IF row.quantity < 0 THEN SalesIn(l) \cup {m} ELSE SalesIn(l)
  BY <1>3, <1>4 DEF SalesIn
<1>7. IsFiniteSet(SalesIn(l)) /\ Cardinality(SalesIn(l)) \in Nat /\ m \notin SalesIn(l)
  BY FiniteBook, FS_Subset, FS_CardinalityType DEF SalesIn
<1>8. Cardinality(SalesIn(k)) = Cardinality(SalesIn(l)) + (IF row.quantity < 0 THEN 1 ELSE 0)
  <2>1. Cardinality(SalesIn(l) \cup {m}) = Cardinality(SalesIn(l)) + 1
    BY <1>7, FS_AddElement
  <2> QED
    BY <1>4, <1>6, <1>7, <2>1
<1>9. /\ QuantityOf(l) \in [Movements -> Int] /\ CostIn(l) \in [Movements -> Int]
      /\ QuantityOf(k) \in [Movements -> Int] /\ CostIn(k) \in [Movements -> Int]
      /\ QuantityOf(k)[m] = row.quantity /\ CostIn(k)[m] = row.cost
      /\ \A n \in Movements \ {m} : QuantityOf(k)[n] = QuantityOf(l)[n] /\ CostIn(k)[n] = CostIn(l)[n]
  BY <1>2, <1>3, ColumnsAreIntegers
<1>a. PICK ql, qk, cl, ck \in [Movements -> Int] :
          ql = QuantityOf(l) /\ qk = QuantityOf(k) /\ cl = CostIn(l) /\ ck = CostIn(k)
  BY <1>9
<1>b. /\ qk[m] = row.quantity /\ ck[m] = row.cost
      /\ \A n \in Movements \ {m} : qk[n] = ql[n] /\ ck[n] = cl[n]
  BY <1>9, <1>a
<1>10. ASSUME NEW d \in Currencies
       PROVE  InStep(k, rev, b[d], d)
  <2>1. PICK S \in SUBSET Movements : S = StandingIn(l, rev, d)
    BY DEF StandingIn
  <2>2. m \notin S
    BY <2>1 DEF StandingIn
  <2>3. StandingIn(k, rev, d) = IF d = c THEN S \cup {m} ELSE S
    BY <1>3, <1>4, <1>5, <2>1 DEF StandingIn
  <2>4. /\ SumFunctionOnSet(ql, S) \in Int
        /\ SumFunctionOnSet(qk, S) = SumFunctionOnSet(ql, S)
        /\ SumFunctionOnSet(qk, S \cup {m})
              = SumFunctionOnSet(ql, S) + row.quantity
    BY <1>b, <2>2, SumGrows
  <2>5. /\ SumFunctionOnSet(cl, S) \in Int
        /\ SumFunctionOnSet(ck, S) = SumFunctionOnSet(cl, S)
        /\ SumFunctionOnSet(ck, S \cup {m}) = SumFunctionOnSet(cl, S) + row.cost
    BY <1>b, <2>2, SumGrows
  <2>6. /\ book[d].quantity = SumFunctionOnSet(ql, S)
        /\ book[d].quantity = 0 => book[d].cost = 0
        /\ book[d].cost <= SumFunctionOnSet(cl, S) + Cardinality(SalesIn(l))
    BY <1>2, <1>a, <2>1 DEF InStep
  <2>7. book[d].cost \in Nat /\ p.cost \in Nat
    BY <1>2 DEF Positions
  <2>8. CASE d = c
    <3>1. SumFunctionOnSet(qk, StandingIn(k, rev, d)) = SumFunctionOnSet(ql, S) + row.quantity
      BY <2>3, <2>4, <2>8
    <3>2. SumFunctionOnSet(ck, StandingIn(k, rev, d)) = SumFunctionOnSet(cl, S) + row.cost
      BY <2>3, <2>5, <2>8
    <3>3. p.cost <= (SumFunctionOnSet(cl, S) + row.cost) + Cardinality(SalesIn(k))
      BY <1>4, <1>7, <1>8, <2>5, <2>6, <2>7, <2>8
    <3> QED
      BY <1>3, <1>a, <2>6, <2>8, <3>1, <3>2, <3>3 DEF InStep
  <2>9. CASE d # c
    <3>1. StandingIn(k, rev, d) = S /\ b[d] = book[d]
      BY <1>3, <2>3, <2>9
    <3>2. book[d].cost <= SumFunctionOnSet(ck, S) + Cardinality(SalesIn(k))
      BY <1>4, <1>7, <1>8, <2>5, <2>6, <2>7
    <3> QED
      BY <1>a, <2>4, <2>6, <3>1, <3>2 DEF InStep
  <2> QED
    BY <2>8, <2>9
<1> QED
  BY <1>1, <1>3, <1>5, <1>10 DEF Kept

\* Taking a row back that stands, when the position covers it.
LEMMA UndoKeeps ==
    ASSUME NEW l, NEW rev, NEW book, Kept(l, rev, book),
           NEW m \in Movements, m \notin rev, l[m] # NoRow,
           NEW c \in Currencies, c = l[m].currency, MayUndo(book[c], l[m])
    PROVE  Kept(l, rev \cup {m}, [book EXCEPT ![c] = Undone(book[c], l[m])])
<1>1. /\ l \in [Movements -> Rows \cup {NoRow}]
      /\ rev \subseteq {n \in Movements : l[n] # NoRow}
      /\ book \in [Currencies -> Positions]
      /\ \A d \in Currencies : InStep(l, rev, book[d], d)
  BY DEF Kept
<1>2. PICK row \in Rows : row = l[m]
  BY <1>1
<1>3. row.quantity \in Int /\ row.cost \in Int /\ row.currency = c
  BY <1>2, RowsAreRows
<1>4. PICK p : p = Undone(book[c], row)
  OBVIOUS
<1>5. book[c].quantity \in Nat /\ book[c].cost \in Nat
  BY <1>1 DEF Positions
<1>6. /\ p.quantity = book[c].quantity - row.quantity
      /\ p.cost = IF book[c].quantity = row.quantity THEN 0 ELSE book[c].cost - row.cost
      /\ book[c].quantity >= row.quantity /\ book[c].cost >= row.cost
  BY <1>2, <1>4 DEF Undone, MayUndo
<1>7. p \in Positions
  BY <1>3, <1>4, <1>5, <1>6 DEF Positions, Undone
<1>8. PICK b : b = [book EXCEPT ![c] = p]
  OBVIOUS
<1>9. b \in [Currencies -> Positions] /\ b[c] = p /\ \A d \in Currencies \ {c} : b[d] = book[d]
  BY <1>1, <1>7, <1>8
<1>10. IsFiniteSet(SalesIn(l)) /\ Cardinality(SalesIn(l)) \in Nat
  BY FiniteBook, FS_Subset, FS_CardinalityType DEF SalesIn
<1>11. /\ QuantityOf(l) \in [Movements -> Int] /\ CostIn(l) \in [Movements -> Int]
       /\ QuantityOf(l)[m] = row.quantity /\ CostIn(l)[m] = row.cost
  BY <1>1, <1>2, ColumnsAreIntegers
<1>a. PICK ql, cl \in [Movements -> Int] : ql = QuantityOf(l) /\ cl = CostIn(l)
  BY <1>11
<1>b. ql[m] = row.quantity /\ cl[m] = row.cost
  BY <1>11, <1>a
<1>12. ASSUME NEW d \in Currencies
       PROVE  InStep(l, rev \cup {m}, b[d], d)
  <2>1. PICK S \in SUBSET Movements : S = StandingIn(l, rev \cup {m}, d)
    BY DEF StandingIn
  <2>2. m \notin S
    BY <2>1 DEF StandingIn
  <2>3. StandingIn(l, rev, d) = IF d = c THEN S \cup {m} ELSE S
    BY <1>2, <1>3, <2>1 DEF StandingIn
  <2>4. /\ SumFunctionOnSet(ql, S) \in Int
        /\ SumFunctionOnSet(ql, S \cup {m})
              = SumFunctionOnSet(ql, S) + row.quantity
    BY <1>b, <2>2, SumOfOneMore
  <2>5. /\ SumFunctionOnSet(cl, S) \in Int
        /\ SumFunctionOnSet(cl, S \cup {m}) = SumFunctionOnSet(cl, S) + row.cost
    BY <1>b, <2>2, SumOfOneMore
  <2>6. /\ book[d].quantity = SumFunctionOnSet(ql, StandingIn(l, rev, d))
        /\ book[d].quantity = 0 => book[d].cost = 0
        /\ book[d].cost <= SumFunctionOnSet(cl, StandingIn(l, rev, d)) + Cardinality(SalesIn(l))
    BY <1>1, <1>a DEF InStep
  <2>7. CASE d = c
    <3>1. StandingIn(l, rev, d) = S \cup {m} /\ b[d] = p
      BY <1>9, <2>3, <2>7
    <3>2. p.quantity = SumFunctionOnSet(ql, S)
      BY <1>3, <1>5, <1>6, <2>4, <2>6, <2>7, <3>1
    <3>3. p.quantity = 0 => p.cost = 0
      BY <1>3, <1>5, <1>6
    <3>4. book[c].cost - row.cost <= SumFunctionOnSet(cl, S) + Cardinality(SalesIn(l))
      BY <1>3, <1>5, <1>10, <2>5, <2>6, <2>7, <3>1
    <3>5. p.cost <= SumFunctionOnSet(cl, S) + Cardinality(SalesIn(l))
      BY <1>3, <1>5, <1>6, <1>10, <2>5, <3>4
    <3> QED
      BY <1>a, <2>1, <3>1, <3>2, <3>3, <3>5 DEF InStep
  <2>8. CASE d # c
    BY <1>9, <1>a, <2>1, <2>3, <2>6, <2>8 DEF InStep
  <2> QED
    BY <2>7, <2>8
<1> QED
  BY <1>1, <1>2, <1>4, <1>8, <1>9, <1>12 DEF Kept

-----------------------------------------------------------------------------
(* What a trade leaves                                                     *)

\* The row of a trade, against what was agreed.
RowFits(row, t) ==
    /\ t \in Trades
    /\ row.currency = t.currency
    /\ t.kind = "PURCHASE" => row.quantity = t.quantity /\ row.cost = t.quote
    /\ t.kind = "SALE" => /\ row.quantity = -t.quantity
                          /\ row.realized - row.cost - t.quote \in {-1, 0, 1}

\* A sale leaves the average cost of what remains, to half a quantum.
AverageStays(p, n) ==
    0 < n.quantity /\ n.quantity < p.quantity =>
        2 * (n.cost * p.quantity - p.cost * n.quantity) \in (-p.quantity)..p.quantity

\* A purchase adds what was bought and what was paid.
LEMMA PurchaseIs ==
    ASSUME NEW p \in Positions, NEW t \in Trades, t.kind = "PURCHASE"
    PROVE  LET row == PurchaseRow(t)
               n   == Purchased(p, t)
           IN /\ row \in Rows /\ RowFits(row, t) /\ row.quantity > 0
              /\ n \in Positions
              /\ n.quantity = p.quantity + row.quantity
              /\ n.quantity > p.quantity
              /\ n.cost = p.cost + row.cost
<1>1. t.currency \in Currencies /\ t.quantity \in Nat \ {0} /\ t.quote \in Nat \ {0}
  BY DEF Trades
<1>2. p.quantity \in Nat /\ p.cost \in Nat
  BY DEF Positions
<1> QED
  BY <1>1, <1>2 DEF PurchaseRow, Purchased, Rows, RowFits, Positions

\* A sale that the position covers takes the average cost of its quantity out and
\* leaves the rest, each rounded on its own.
LEMMA SaleIs ==
    ASSUME NEW p \in Positions, NEW t \in Trades, t.kind = "SALE", p.quantity >= t.quantity
    PROVE  LET row == SaleRow(p, t)
               n   == Sold(p, t)
           IN /\ row \in Rows /\ RowFits(row, t) /\ row.quantity < 0
              /\ n \in Positions
              /\ n.quantity = p.quantity + row.quantity
              /\ n.quantity = 0 => n.cost = 0
              /\ n.cost <= p.cost + row.cost + 1
              /\ n.cost - row.cost - p.cost \in {0, 1}
              /\ AverageStays(p, n)
<1>1. PICK d \in Nat \ {0}, cost \in Nat, q \in Nat \ {0}, quote \in Nat \ {0} :
          d = p.quantity /\ cost = p.cost /\ q = t.quantity /\ quote = t.quote
  BY DEF Trades, Positions
<1>2. PICK left \in Nat : left = d - q
  BY <1>1
<1>3. PICK n1, n2, n3 \in Int : n1 = left * cost /\ n2 = q * cost /\ n3 = quote * d - q * cost
  BY <1>1, <1>2
<1>4. n1 >= 0 /\ n2 >= 0
  BY <1>3
<1>5. n1 + n2 = cost * d /\ n3 + n2 = quote * d
  BY <1>2, <1>3
<1>6. PICK k1, k2, k3 \in Int : k1 = Rounded(n1, d) /\ k2 = Rounded(n2, d) /\ k3 = Rounded(n3, d)
  BY RoundedIs
<1>7. /\ 2 * d * k1 <= 2 * n1 + d /\ 2 * n1 - d < 2 * d * k1
      /\ k1 >= 0 /\ k2 >= 0
  BY <1>4, <1>6, RoundedIs
<1>a. n1 \in Int /\ n2 \in Int /\ n3 \in Int /\ cost \in Int /\ quote \in Int
  OBVIOUS
<1>b. Rounded(n1, d) + Rounded(n2, d) - cost \in {0, 1}
  BY <1>4, <1>5, <1>a, RoundedParts, Zenon
<1>c. Rounded(n3, d) + Rounded(n2, d) - quote \in {-1, 0, 1}
  BY <1>5, <1>a, RoundedParts, Zenon
<1>8. k1 + k2 - cost \in {0, 1}
  BY <1>6, <1>b
<1>9. k3 + k2 - quote \in {-1, 0, 1}
  BY <1>6, <1>c
<1>10. SaleRow(p, t) = [currency |-> t.currency, quantity |-> -q, cost |-> -k2, realized |-> k3]
  BY <1>1, <1>3, <1>6 DEF SaleRow, CostOf, Realized
<1>11. Sold(p, t) = [quantity |-> left, cost |-> k1]
  BY <1>1, <1>2, <1>3, <1>6 DEF Sold, CostLeft
<1>12. SaleRow(p, t) \in Rows /\ RowFits(SaleRow(p, t), t)
  <2>1. t.currency \in Currencies
    BY DEF Trades
  <2>2. k3 - (-k2) - quote \in {-1, 0, 1}
    BY <1>9
  <2> QED
    BY <1>1, <1>10, <2>1, <2>2 DEF Rows, RowFits
<1>13. left = 0 => k1 = 0
  <2>1. SUFFICES ASSUME left = 0
                 PROVE  k1 = 0
    OBVIOUS
  <2>2. n1 = 0
    BY <1>3, <2>1
  <2>3. d * (2 * k1) <= d
    BY <1>7, <2>2
  <2>4. 2 * k1 <= 1
    BY <2>3, AtMostOne
  <2> QED
    BY <1>7, <2>4
<1>14. 2 * (k1 * d - cost * left) \in (-d)..d
  <2>1. 2 * (k1 * d - cost * left) = 2 * d * k1 - 2 * n1
    BY <1>3
  <2>2. 2 * d * k1 \in Int
    OBVIOUS
  <2> QED
    BY <1>7, <2>1, <2>2
<1>15. AverageStays(p, Sold(p, t))
  BY <1>1, <1>11, <1>14 DEF AverageStays
<1>16. PICK row, n : row = SaleRow(p, t) /\ n = Sold(p, t)
  OBVIOUS
<1>17. row.quantity = -q /\ row.cost = -k2 /\ n.quantity = left /\ n.cost = k1 /\ n \in Positions
  BY <1>7, <1>10, <1>11, <1>16 DEF Positions
<1>18. /\ row.quantity < 0
       /\ n.quantity = p.quantity + row.quantity
       /\ n.quantity = 0 => n.cost = 0
       /\ n.cost <= p.cost + row.cost + 1
       /\ n.cost - row.cost - p.cost \in {0, 1}
  BY <1>1, <1>2, <1>8, <1>13, <1>17
<1> QED
  BY <1>12, <1>15, <1>16, <1>17, <1>18

\* A confirmation books the trade of its lines on a book that is kept, or leaves
\* it as it is.
LEMMA ApplyKeeps ==
    ASSUME NEW l, l = ledger, NEW rev, NEW book, Kept(l, rev, book),
           NEW m \in Movements, NEW kind \in Kinds, NEW agreed \in LinesOf(kind),
           Apply(m, kind, agreed, book)
    PROVE  /\ Kept(ledger', rev, position')
           /\ l[m] = NoRow
           /\ \/ ledger' = l
              \/ \E row \in Rows : /\ ledger' = [l EXCEPT ![m] = row]
                                   /\ Fees = {} => RowFits(row, Principal(agreed))
           /\ \A c \in Currencies : AverageStays(book[c], position'[c])
<1>1. PICK t \in TradesListed(kind, agreed) :
          \/ /\ t # NoTrade
             /\ Covered(t, book)
             /\ BookIn(m, t, book)
          \/ /\ position' = book
             /\ UNCHANGED ledger
  BY DEF Apply
<1>2. l[m] = NoRow
  BY DEF Apply
<1>3. book \in [Currencies -> Positions] /\ l \in [Movements -> Rows \cup {NoRow}]
  BY DEF Kept
<1>4. CASE position' = book /\ UNCHANGED ledger
  BY <1>2, <1>3, <1>4 DEF AverageStays, Positions
<1>5. CASE t # NoTrade /\ Covered(t, book) /\ BookIn(m, t, book)
  <2>1. t \in Trades /\ (Fees = {} => t = Principal(agreed))
    BY <1>5, TradesFound
  <2>2. PICK c \in Currencies : c = t.currency
    BY <2>1 DEF Trades
  <2>3. PICK p \in Positions : p = book[c]
    BY <1>3
  <2>4. ASSUME NEW row \in Rows, NEW n \in Positions,
               position' = [book EXCEPT ![c] = n], ledger' = [l EXCEPT ![m] = row],
               RowFits(row, t), AverageStays(p, n),
               n.quantity = p.quantity + row.quantity,
               n.quantity = 0 => n.cost = 0,
               n.cost <= p.cost + row.cost + (IF row.quantity < 0 THEN 1 ELSE 0)
        PROVE  /\ Kept(ledger', rev, position')
               /\ \E w \in Rows : /\ ledger' = [l EXCEPT ![m] = w]
                                  /\ Fees = {} => RowFits(w, Principal(agreed))
               /\ \A d \in Currencies : AverageStays(book[d], position'[d])
    <3>1. row.currency = c
      BY <2>2, <2>4 DEF RowFits
    <3>2. Kept(ledger', rev, position')
      BY <1>2, <2>3, <2>4, <3>1, EntryKeeps
    <3>3. \A d \in Currencies : AverageStays(book[d], position'[d])
      BY <1>3, <2>3, <2>4 DEF AverageStays, Positions
    <3> QED
      BY <2>1, <2>4, <3>2, <3>3
  <2>5. CASE t.kind = "PURCHASE"
    <3>1. PICK row, n : row = PurchaseRow(t) /\ n = Purchased(p, t)
      OBVIOUS
    <3>2. /\ row \in Rows /\ RowFits(row, t) /\ row.quantity > 0
          /\ n \in Positions
          /\ n.quantity = p.quantity + row.quantity
          /\ n.quantity > p.quantity
          /\ n.cost = p.cost + row.cost
      BY <2>1, <2>5, <3>1, PurchaseIs
    <3>3. position' = [book EXCEPT ![c] = n] /\ ledger' = [l EXCEPT ![m] = row]
      BY <1>5, <2>2, <2>3, <2>5, <3>1 DEF BookIn
    <3>4. p.quantity \in Nat /\ p.cost \in Nat /\ n.quantity \in Nat /\ n.cost \in Nat
          /\ row.quantity \in Int /\ row.cost \in Int
      BY <3>2, RowsAreRows DEF Positions
    <3>5. AverageStays(p, n) /\ n.quantity # 0
      BY <3>2, <3>4 DEF AverageStays
    <3>6. n.cost <= p.cost + row.cost + (IF row.quantity < 0 THEN 1 ELSE 0)
      BY <3>2, <3>4
    <3>7. n.quantity = 0 => n.cost = 0
      BY <3>5
    <3> QED
      BY <1>2, <2>4, <3>2, <3>3, <3>5, <3>6, <3>7
  <2>6. CASE t.kind = "SALE"
    <3>1. PICK row, n : row = SaleRow(p, t) /\ n = Sold(p, t)
      OBVIOUS
    <3>2. p.quantity >= t.quantity
      BY <1>5, <2>1, <2>2, <2>3, <2>6 DEF Covered, Short, Positions, Trades
    <3>3. /\ row \in Rows /\ RowFits(row, t) /\ row.quantity < 0
          /\ n \in Positions
          /\ n.quantity = p.quantity + row.quantity
          /\ n.quantity = 0 => n.cost = 0
          /\ n.cost <= p.cost + row.cost + 1
          /\ AverageStays(p, n)
      BY <2>1, <2>6, <3>1, <3>2, SaleIs
    <3>4. position' = [book EXCEPT ![c] = n] /\ ledger' = [l EXCEPT ![m] = row]
      BY <1>5, <2>2, <2>3, <2>6, <3>1 DEF BookIn
    <3> QED
      BY <1>2, <2>4, <3>3, <3>4
  <2> QED
    BY <2>1, <2>5, <2>6 DEF Trades
<1> QED
  BY <1>1, <1>4, <1>5

-----------------------------------------------------------------------------
(* The invariant                                                           *)

FxTypes ==
    /\ status \in [Movements -> {"BORRADOR", "CONFIRMADA", "CANCELADA"}]
    /\ lines \in [Movements -> SUBSET LineRows]
    /\ annulling \in [Annulments -> Movements \cup {NoMovement}]

\* A draft has no row, and a row is taken back when its movement is annulled.
RowsFollowStatus ==
    \A m \in Movements :
        /\ ledger[m] # NoRow => status[m] # "BORRADOR"
        /\ m \in reversed <=> ledger[m] # NoRow /\ status[m] = "CANCELADA"

\* Without fees, the rows are those of what was agreed.
RowsFitLines == Fees = {} => \A m \in Booked : RowFits(ledger[m], Principal(lines[m]))

StockInv ==
    /\ FxTypes
    /\ Kept(ledger, reversed, position)
    /\ RowsFollowStatus
    /\ RowsFitLines

LEMMA StockInit == FxInit => StockInv
<1> SUFFICES ASSUME FxInit
             PROVE  StockInv
  OBVIOUS
<1>1. FxTypes
  BY DEF FxInit, FxTypes
<1>2. PICK l, b : l = ledger /\ b = position
  OBVIOUS
<1>3. l = [m \in Movements |-> NoRow] /\ b = [c \in Currencies |-> Empty]
  BY <1>2 DEF FxInit
<1>4. \A c \in Currencies : StandingIn(l, {}, c) = {} /\ SalesIn(l) = {}
  BY <1>3 DEF StandingIn, SalesIn
<1>5. Cardinality({}) = 0
  BY FS_EmptySet
<1>6. \A c \in Currencies : InStep(l, {}, b[c], c)
  BY <1>3, <1>4, <1>5, SumEmpty DEF InStep, Empty
<1>7. b \in [Currencies -> Positions]
  BY <1>3 DEF Positions, Empty
<1>8. Kept(l, {}, b)
  BY <1>3, <1>6, <1>7 DEF Kept
<1>9. RowsFollowStatus /\ RowsFitLines
  BY DEF FxInit, RowsFollowStatus, RowsFitLines, Booked
<1> QED
  BY <1>1, <1>2, <1>8, <1>9 DEF StockInv, FxInit

\* Rows of operations are lines.
LEMMA LinesAreRows ==
    ASSUME NEW kind \in Kinds, NEW agreed \in LinesOf(kind)
    PROVE  agreed \in SUBSET LineRows
BY OperationsHaveLegs DEF Legs

\* Confirming a draft, on any book and after any reversals that are kept.
LEMMA BookingKeeps ==
    ASSUME StockInv, NEW d \in Movements, status[d] = "BORRADOR",
           NEW kind \in Kinds, NEW agreed \in LinesOf(kind),
           NEW rev, NEW book, Kept(ledger, rev, book), Apply(d, kind, agreed, book),
           lines' = [lines EXCEPT ![d] = agreed]
    PROVE  /\ Kept(ledger', rev, position')
           /\ RowsFitLines'
           /\ \A m \in Movements \ {d} : ledger'[m] = ledger[m]
           /\ \A c \in Currencies : AverageStays(book[c], position'[c])
<1>1. PICK l : l = ledger
  OBVIOUS
<1>2. Kept(l, rev, book)
  BY <1>1
<1>3. /\ Kept(ledger', rev, position')
      /\ l[d] = NoRow
      /\ \/ ledger' = l
         \/ \E row \in Rows : /\ ledger' = [l EXCEPT ![d] = row]
                              /\ Fees = {} => RowFits(row, Principal(agreed))
      /\ \A c \in Currencies : AverageStays(book[c], position'[c])
  BY <1>1, <1>2, ApplyKeeps
<1>4. l \in [Movements -> Rows \cup {NoRow}] /\ lines \in [Movements -> SUBSET LineRows]
  BY <1>2 DEF Kept, StockInv, FxTypes
<1>5. \A m \in Movements \ {d} : ledger'[m] = l[m] /\ lines'[m] = lines[m]
  BY <1>3, <1>4
<1>6. RowsFitLines'
  <2>1. SUFFICES ASSUME Fees = {}, NEW m \in Movements, ledger'[m] # NoRow
                 PROVE  RowFits(ledger'[m], Principal(lines'[m]))
    BY DEF RowsFitLines, Booked, Principal, LineOf
  <2>2. CASE m = d
    <3>1. PICK row \in Rows : ledger' = [l EXCEPT ![d] = row] /\ RowFits(row, Principal(agreed))
      BY <1>3, <2>1, <2>2
    <3>2. ledger'[d] = row /\ lines'[d] = agreed
      BY <1>4, <3>1
    <3> QED
      BY <2>2, <3>1, <3>2
  <2>3. CASE m # d
    <3>1. ledger'[m] = ledger[m] /\ lines'[m] = lines[m]
      BY <1>1, <1>5, <2>3
    <3>2. RowFits(ledger[m], Principal(lines[m]))
      BY <2>1, <3>1 DEF StockInv, RowsFitLines, Booked
    <3> QED
      BY <3>1, <3>2
  <2> QED
    BY <2>2, <2>3
<1> QED
  BY <1>1, <1>3, <1>5, <1>6

\* An annulment gives back what its movement left, if it left anything.
LEMMA ReversalKeeps ==
    ASSUME StockInv, NEW m \in Movements, status[m] = "CONFIRMADA", Reversal(m)
    PROVE  /\ Kept(ledger, reversed', Reverted(m))
           /\ reversed' = IF ledger[m] = NoRow THEN reversed ELSE reversed \cup {m}
           /\ reversed' = reversed => Reverted(m) = position
<1>1. PICK l, rev, book : l = ledger /\ rev = reversed /\ book = position
  OBVIOUS
<1>2. Kept(l, rev, book)
  BY <1>1 DEF StockInv
<1>3. reversed' = IF l[m] = NoRow THEN rev ELSE rev \cup {m}
  BY <1>1 DEF Reversal
<1>4. CASE l[m] = NoRow
  BY <1>1, <1>2, <1>3, <1>4 DEF Reverted
<1>5. CASE l[m] # NoRow
  <2>1. m \notin rev /\ MayUndo(book[l[m].currency], l[m])
    BY <1>1, <1>5 DEF Reversal, Reversible
  <2>2. PICK c \in Currencies : c = l[m].currency
    BY <1>2, <1>5, RowsAreRows DEF Kept
  <2>3. Reverted(m) = [book EXCEPT ![c] = Undone(book[c], l[m])]
    BY <1>1, <1>5, <2>2 DEF Reverted
  <2>4. Kept(l, rev \cup {m}, [book EXCEPT ![c] = Undone(book[c], l[m])])
    BY <1>2, <1>5, <2>1, <2>2, UndoKeeps
  <2> QED
    BY <1>1, <1>3, <1>5, <2>1, <2>3, <2>4
<1> QED
  BY <1>4, <1>5

LEMMA ConfirmStep ==
    ASSUME StockInv, NEW m \in Movements, NEW kind \in Kinds, NEW agreed \in LinesOf(kind),
           Confirm(m, kind, agreed)
    PROVE  StockInv' /\ \A c \in Currencies : AverageStays(position[c], position'[c])
<1>1. /\ status[m] = "BORRADOR"
      /\ status' = [status EXCEPT ![m] = "CONFIRMADA"]
      /\ lines' = [lines EXCEPT ![m] = agreed]
      /\ Apply(m, kind, agreed, position)
      /\ UNCHANGED <<reversed, annulling>>
  BY DEF Confirm
<1>2. PICK rev, book : rev = reversed /\ book = position
  OBVIOUS
<1>3. Kept(ledger, rev, book) /\ Apply(m, kind, agreed, book)
  BY <1>1, <1>2 DEF StockInv
<1>4. /\ Kept(ledger', rev, position')
      /\ RowsFitLines'
      /\ \A n \in Movements \ {m} : ledger'[n] = ledger[n]
      /\ \A c \in Currencies : AverageStays(book[c], position'[c])
  BY <1>1, <1>3, BookingKeeps
<1>5. Kept(ledger, reversed, position)'
  BY <1>1, <1>2, <1>4
<1>6. FxTypes'
  BY <1>1, LinesAreRows DEF StockInv, FxTypes
<1>7. RowsFollowStatus'
  BY <1>1, <1>4 DEF StockInv, FxTypes, RowsFollowStatus
<1> QED
  BY <1>2, <1>4, <1>5, <1>6, <1>7 DEF StockInv

LEMMA AnnulStep ==
    ASSUME StockInv, NEW r \in Annulments, Annul(r)
    PROVE  /\ StockInv'
           /\ reversed' = reversed => position' = position
<1>1. PICK m : m = annulling[r]
  OBVIOUS
<1>2. /\ m \in Movements /\ status[m] = "CONFIRMADA"
      /\ Reversal(m)
      /\ position' = Reverted(m)
      /\ status' = [status EXCEPT ![m] = "CANCELADA"]
      /\ annulling' = [annulling EXCEPT ![r] = NoMovement]
      /\ UNCHANGED <<lines, ledger>>
  BY <1>1 DEF Annul, Finish, StockInv, FxTypes
<1>3. /\ Kept(ledger, reversed', Reverted(m))
      /\ reversed' = IF ledger[m] = NoRow THEN reversed ELSE reversed \cup {m}
      /\ reversed' = reversed => Reverted(m) = position
  BY <1>2, ReversalKeeps
<1>4. Kept(ledger, reversed, position)'
  BY <1>2, <1>3
<1>5. FxTypes'
  BY <1>2 DEF StockInv, FxTypes
<1>6. RowsFollowStatus'
  BY <1>2, <1>3 DEF StockInv, FxTypes, RowsFollowStatus
<1>7. RowsFitLines'
  BY <1>2 DEF StockInv, RowsFitLines, Booked, Principal, LineOf
<1> QED
  BY <1>2, <1>3, <1>4, <1>5, <1>6, <1>7 DEF StockInv

LEMMA ReplaceStep ==
    ASSUME StockInv, NEW r \in Annulments, NEW d \in Movements, NEW kind \in Kinds,
           NEW agreed \in LinesOf(kind), Replace(r, d, kind, agreed)
    PROVE  /\ StockInv'
           /\ reversed' = reversed =>
                 \A c \in Currencies : AverageStays(position[c], position'[c])
<1>1. PICK m : m = annulling[r]
  OBVIOUS
<1>2. /\ m \in Movements /\ status[m] = "CONFIRMADA" /\ status[d] = "BORRADOR"
      /\ Reversal(m)
      /\ status' = [status EXCEPT ![m] = "CANCELADA", ![d] = "CONFIRMADA"]
      /\ lines' = [lines EXCEPT ![d] = agreed]
      /\ Apply(d, kind, agreed, Reverted(m))
      /\ annulling' = [annulling EXCEPT ![r] = NoMovement]
  BY <1>1 DEF Replace, Finish, StockInv, FxTypes
<1>3. /\ Kept(ledger, reversed', Reverted(m))
      /\ reversed' = IF ledger[m] = NoRow THEN reversed ELSE reversed \cup {m}
      /\ reversed' = reversed => Reverted(m) = position
  BY <1>2, ReversalKeeps
<1>4. PICK rev, book : rev = reversed' /\ book = Reverted(m)
  OBVIOUS
<1>5. Kept(ledger, rev, book) /\ Apply(d, kind, agreed, book)
  BY <1>2, <1>3, <1>4
<1>6. /\ Kept(ledger', rev, position')
      /\ RowsFitLines'
      /\ \A n \in Movements \ {d} : ledger'[n] = ledger[n]
      /\ \A c \in Currencies : AverageStays(book[c], position'[c])
  BY <1>2, <1>5, BookingKeeps
<1>7. Kept(ledger, reversed, position)'
  BY <1>4, <1>6
<1>8. /\ m # d /\ status'[m] = "CANCELADA" /\ status'[d] = "CONFIRMADA"
      /\ status' \in [Movements -> {"BORRADOR", "CONFIRMADA", "CANCELADA"}]
      /\ \A n \in Movements \ {m, d} : status'[n] = status[n]
  BY <1>2 DEF StockInv, FxTypes
<1>9. FxTypes'
  BY <1>2, <1>8, LinesAreRows DEF StockInv, FxTypes
<1>10. RowsFollowStatus'
  <2>1. ledger[d] = NoRow /\ d \notin reversed
    BY <1>2 DEF StockInv, RowsFollowStatus
  <2> QED
    BY <1>2, <1>3, <1>6, <1>8, <2>1 DEF StockInv, RowsFollowStatus
<1> QED
  BY <1>3, <1>4, <1>6, <1>7, <1>9, <1>10 DEF StockInv

\* A step that only reads, or gives up, or does nothing.
LEMMA QuietStep ==
    ASSUME StockInv, annulling' \in [Annulments -> Movements \cup {NoMovement}],
           UNCHANGED <<status, lines, ledger, reversed, position>>
    PROVE  StockInv'
<1>1. FxTypes'
  BY DEF StockInv, FxTypes
<1>2. Kept(ledger, reversed, position)'
  BY DEF StockInv
<1>3. RowsFollowStatus' /\ RowsFitLines'
  BY DEF StockInv, RowsFollowStatus, RowsFitLines, Booked, Principal, LineOf
<1> QED
  BY <1>1, <1>2, <1>3 DEF StockInv

\* Every step keeps the stock, and only an annulment with a row to take back may
\* change the average cost that a smaller position is left with.
LEMMA StockNext ==
    ASSUME StockInv, [FxNext]_fxVars
    PROVE  /\ StockInv'
           /\ reversed' = reversed =>
                 \A c \in Currencies : AverageStays(position[c], position'[c])
<1>a. position' = position => \A c \in Currencies : AverageStays(position[c], position'[c])
  BY DEF AverageStays, StockInv, Kept, Positions
<1>1. ASSUME NEW m \in Movements, NEW k \in Kinds, NEW agreed \in LinesOf(k), Confirm(m, k, agreed)
      PROVE  StockInv' /\ \A c \in Currencies : AverageStays(position[c], position'[c])
  BY <1>1, ConfirmStep
<1>2. ASSUME NEW r \in Annulments, NEW m \in Movements, ReadForAnnulment(r, m)
      PROVE  StockInv' /\ position' = position
  <2>1. annulling' \in [Annulments -> Movements \cup {NoMovement}]
    BY <1>2 DEF ReadForAnnulment, StockInv, FxTypes
  <2> QED
    BY <1>2, <2>1, QuietStep DEF ReadForAnnulment
<1>3. ASSUME NEW r \in Annulments, NEW d \in Movements, NEW k \in Kinds,
             NEW agreed \in LinesOf(k), Replace(r, d, k, agreed)
      PROVE  /\ StockInv'
             /\ reversed' = reversed =>
                   \A c \in Currencies : AverageStays(position[c], position'[c])
  BY <1>3, ReplaceStep
<1>4. ASSUME NEW r \in Annulments, Annul(r)
      PROVE  StockInv' /\ (reversed' = reversed => position' = position)
  BY <1>4, AnnulStep
<1>5. ASSUME NEW r \in Annulments, RollBackAnnulment(r)
      PROVE  StockInv' /\ position' = position
  <2>1. annulling' \in [Annulments -> Movements \cup {NoMovement}]
    BY <1>5 DEF RollBackAnnulment, Finish, StockInv, FxTypes
  <2> QED
    BY <1>5, <2>1, QuietStep DEF RollBackAnnulment
<1>6. CASE UNCHANGED fxVars
  <2>1. annulling' \in [Annulments -> Movements \cup {NoMovement}] /\ position' = position
    BY <1>6 DEF fxVars, StockInv, FxTypes
  <2> QED
    BY <1>a, <1>6, <2>1, QuietStep DEF fxVars
<1> QED
  BY <1>a, <1>1, <1>2, <1>3, <1>4, <1>5, <1>6 DEF FxNext

-----------------------------------------------------------------------------
(* The exchange inventory: the theorems                                    *)

LEMMA StockAlways == FxSpec => []StockInv
<1>1. StockInv /\ [FxNext]_fxVars => StockInv'
  BY StockNext
<1> QED
  BY <1>1, StockInit, PTL DEF FxSpec

\* The stock of every currency is what its standing movements left, to the unit,
\* however annulments and replacements overlap (fx_inventory_service.go and
\* cancelMovementWithinTx).
THEOREM StockAddsUp == FxSpec => []StockIsSumOfStanding
<1>1. StockInv => StockIsSumOfStanding
  <2>1. SUFFICES ASSUME StockInv
                 PROVE  StockIsSumOfStanding
    OBVIOUS
  <2>2. ASSUME NEW c \in Currencies
        PROVE  position[c].quantity =
                   SumFunctionOnSet([m \in Movements |-> ledger[m].quantity], Standing(c))
    BY <2>1 DEF StockInv, Kept, InStep, StandingIn, Standing, QuantityOf
  <2> QED
    BY <2>1, <2>2 DEF StockInv, RowsFollowStatus, StockIsSumOfStanding
<1> QED
  BY <1>1, StockAlways, PTL

\* What the invariant says of types.
LEMMA StockTypes == StockInv => FxTypeOK
BY DEF StockInv, FxTypes, Kept, FxTypeOK, LineRows, Positions

\* What the invariant says of the costs.
LEMMA StockCosts == StockInv => EmptyHasNoCost /\ CostIsNotInvented
<1>1. StockInv => EmptyHasNoCost
  BY DEF StockInv, Kept, InStep, EmptyHasNoCost
<1>2. ASSUME StockInv, NEW c \in Currencies
      PROVE  position[c].cost <= SumFunctionOnSet([m \in Movements |-> ledger[m].cost], Standing(c))
                                 + Cardinality({m \in Booked : ledger[m].quantity < 0})
  <2>1. SalesIn(ledger) = {m \in Booked : ledger[m].quantity < 0}
    BY DEF SalesIn, Booked
  <2>2. StandingIn(ledger, reversed, c) = Standing(c)
    BY DEF StandingIn, Standing
  <2> QED
    BY <1>2, <2>1, <2>2 DEF StockInv, Kept, InStep, CostIn
<1> QED
  BY <1>1, <1>2 DEF CostIsNotInvented

\* A sale and its annulment give the cost back, but for a quantum more.
LEMMA StockRestores == StockInv => UndoRestores
<1> SUFFICES ASSUME StockInv, NEW c \in Currencies, NEW q \in Quantities,
                    ~Short(position[c], Trade("SALE", c, q, 0))
             PROVE  LET p == position[c]
                        t == Trade("SALE", c, q, 0)
                        u == Undone(Sold(p, t), SaleRow(p, t))
                    IN u.quantity = p.quantity /\ u.cost - p.cost \in {0, 1}
  BY DEF UndoRestores
<1>1. PICK p \in Positions : p = position[c]
  BY DEF StockInv, Kept
<1>2. PICK t, s : t = Trade("SALE", c, q, 0) /\ s = Trade("SALE", c, q, 1)
  OBVIOUS
<1>3. /\ s \in Trades /\ s.kind = "SALE" /\ s.quantity = q /\ t.quantity = q
      /\ t.currency = s.currency
  BY <1>2, AmountsArePositive DEF Trade, Trades
<1>4. p.quantity >= s.quantity /\ p.quantity \in Nat /\ p.cost \in Nat
  BY <1>1, <1>2, <1>3, AmountsArePositive DEF Short, Positions
<1>5. PICK row, n : row = SaleRow(p, s) /\ n = Sold(p, s)
  OBVIOUS
<1>6. /\ row \in Rows /\ row.quantity < 0 /\ n \in Positions
      /\ n.quantity = p.quantity + row.quantity
      /\ n.cost - row.cost - p.cost \in {0, 1}
  BY <1>3, <1>4, <1>5, SaleIs
<1>7. Sold(p, t) = n
  BY <1>3, <1>5 DEF Sold
<1>8. SaleRow(p, t).quantity = row.quantity /\ SaleRow(p, t).cost = row.cost
  BY <1>3, <1>5 DEF SaleRow
<1>9. row.quantity \in Int /\ row.cost \in Int /\ n.quantity \in Nat /\ n.cost \in Nat
  BY <1>6, RowsAreRows DEF Positions
<1>10. Undone(n, SaleRow(p, t)) = [quantity |-> n.quantity - row.quantity, cost |-> n.cost - row.cost]
  BY <1>6, <1>8, <1>9 DEF Undone
<1> QED
  BY <1>1, <1>2, <1>4, <1>6, <1>7, <1>9, <1>10

\* No position falls below zero, an empty one keeps no cost, none is valued above
\* the cost of what stands but for a quantum of each sale, and a sale that is
\* annulled at once gives its cost back (fx_inventory_service.go).
THEOREM CostIsKept == FxSpec => [](FxTypeOK /\ EmptyHasNoCost /\ CostIsNotInvented /\ UndoRestores)
BY StockAlways, StockTypes, StockCosts, StockRestores, PTL

\* Without fees, every row is that of the legs of its movement.
LEMMA FeelessRows ==
    ASSUME Fees = {}
    PROVE  StockInv => SalesAddUp /\ TransfersBookTheirLegs
<1> SUFFICES ASSUME StockInv, NEW m \in Booked
             PROVE  LET row == ledger[m]
                        t   == Principal(lines[m])
                    IN /\ row.quantity < 0 => row.realized - row.cost - t.quote \in {-1, 0, 1}
                       /\ row.currency = t.currency
                       /\ row.quantity = IF t.kind = "SALE" THEN -t.quantity ELSE t.quantity
                       /\ t.kind = "PURCHASE" => row.cost = t.quote
  BY DEF SalesAddUp, TransfersBookTheirLegs
<1>1. PICK row, t : row = ledger[m] /\ t = Principal(lines[m])
  OBVIOUS
<1>2. RowFits(row, t)
  BY <1>1 DEF StockInv, RowsFitLines
<1>3. t.kind \in {"PURCHASE", "SALE"} /\ t.quantity \in Nat \ {0}
  BY <1>2 DEF RowFits, Trades
<1> QED
  BY <1>1, <1>2, <1>3 DEF RowFits

\* While no transfer has a fee, the costs add up to the quantum: what a sale cashed
\* is its profit and the cost it took out (fx_inventory_service.go).
THEOREM CostAddsUp ==
    ASSUME Fees = {}
    PROVE  FxSpec => []CostIsAccounted
<1>1. StockInv => CostIsAccounted
  BY StockTypes, StockCosts, StockRestores, FeelessRows DEF CostIsAccounted
<1> QED
  BY <1>1, StockAlways, PTL

\* It takes a fee to book a transfer as anything but the exchange of its legs
\* (transferenciaPrincipalLegLines).
THEOREM FeelessTransfersBookTheirLegs ==
    ASSUME Fees = {}
    PROVE  FxSpec => []TransfersBookTheirLegs
<1>1. StockInv => TransfersBookTheirLegs
  BY FeelessRows
<1> QED
  BY <1>1, StockAlways, PTL

\* A sale leaves the average cost of what remains as it was, to half a quantum of
\* the position (applyVentaTx, fx_inventory_service.go).
THEOREM AverageIsKept == FxSpec => SaleKeepsAverage
<1>1. ASSUME StockInv, [FxNext]_fxVars, NEW c \in Currencies, reversed' = reversed,
             0 < position'[c].quantity, position'[c].quantity < position[c].quantity
      PROVE  2 * (position'[c].cost * position[c].quantity - position[c].cost * position'[c].quantity)
                 \in (-position[c].quantity)..position[c].quantity
  BY <1>1, StockNext DEF AverageStays
<1>2. StockInv /\ [FxNext]_fxVars =>
         [\A c \in Currencies :
            LET p == position[c]
                n == position'[c]
            IN reversed' = reversed /\ 0 < n.quantity /\ n.quantity < p.quantity =>
                  2 * (n.cost * p.quantity - p.cost * n.quantity)
                      \in (-p.quantity)..p.quantity]_fxVars
  BY <1>1
<1> QED
  BY <1>2, StockAlways, PTL DEF FxSpec, SaleKeepsAverage
=============================================================================
