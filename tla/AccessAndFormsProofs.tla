------------------------ MODULE AccessAndFormsProofs ------------------------
(***************************************************************************)
(* Theorems about who is let in and about what is sent, two parts that     *)
(* share nothing: Access, for any number of users and requests and any     *)
(* limits, Permissions, for any roles, keys and tables, and RateLimiter,   *)
(* for any addresses and limit; then the nine forms of OperationForms, for *)
(* any accounts, currencies, amounts, lines and drafts.                    *)
(*                                                                         *)
(* The handlers of users use no transaction, so what they promise holds as *)
(* long as no two of them overlap and no statement fails (apart): then     *)
(* what the one in flight has read still stands when it writes.  Users may *)
(* be created and time may pass meanwhile; neither touches what it read.   *)
(*                                                                         *)
(* Of a form it is enough to know that it is one of its type, that its     *)
(* lines differ in their keys, that an automatic line shows what settled,  *)
(* and that every leg has a format of the list it shows (FormsInv).  The   *)
(* part goes from a leg to a line, from there to the form of each type,    *)
(* and from what a render does to a form to the steps of all nine.         *)
(*                                                                         *)
(* A draft of one of them comes back because what a form shows of it,      *)
(* every render leaves: the formats are ones the accounts have, whatever   *)
(* the lists still to come, and no amount is anybody's but the user's      *)
(* (ReturnInv).  The transfer form has a module of its own.                *)
(***************************************************************************)
EXTENDS AccessControl, RateLimiter, Forms, FiniteSetTheorems, SequenceTheorems,
        WellFoundedInduction, TLAPS

Compares  == [op : {"COMPARE"}, user : Users, seen : 0 .. MaxFailed]
Writers   == [op : {"LOCK", "PASSWORD", "CHANGE_PIN"}, user : Users]
Updates   == [op : {"UPDATE"}, user : Users, role : Roles, pin : {"SET", "CLEAR", "KEEP"}]
Toggles   == [op : {"TOGGLE"}, user : Users, active : BOOLEAN]
Settlings == [op : {"SETTINGS"}, new : Changes]

InFlight == Compares \cup Writers \cup Updates \cup Toggles \cup Settlings

Types ==
    /\ role \in [Users -> Roles \cup {"NONE"}]
    /\ pin \in [Users -> BOOLEAN]
    /\ active \in [Users -> BOOLEAN]
    /\ attempts \in [Users -> 0 .. MaxFailed]
    /\ locked \in [Users -> NoLock .. LockDuration]
    /\ settings \in Settings
    /\ request \in [Requests -> {Idle} \cup InFlight]
    /\ apart \in BOOLEAN

\* One request at a time.
OneAtATime == \A r, s \in Requests : request[r] # Idle /\ request[s] # Idle => r = s

\* What it has read still stands.
StillStands(q) ==
    /\ q.op = "COMPARE" => q.seen = attempts[q.user]
    /\ q.op = "LOCK" => attempts[q.user] = MaxFailed
    /\ q.op = "CHANGE_PIN" => role[q.user] = "COURIER"
    /\ q.op = "UPDATE" => /\ role[q.user] # "NONE"
                          /\ q.pin = "SET" => q.role = "COURIER"
                          /\ q.pin = "KEEP" => q.role = "COURIER" \/ role[q.user] # "COURIER"
    /\ q.op = "SETTINGS" => Valid(Merged(q.new))

\* The lock of a user is missing only while somebody is about to write it.
LockDue(u) ==
    \/ attempts[u] = MaxFailed <=> locked[u] # NoLock
    \/ \E r \in Requests : request[r] # Idle /\ request[r].op = "LOCK" /\ request[r].user = u

AloneInv ==
    apart => /\ OneAtATime
             /\ \A r \in Requests : request[r] # Idle => StillStands(request[r])
             /\ \A u \in Users : LockDue(u)
             /\ PinOnlyForCouriers
             /\ Valid(settings)

UsersInv == Types /\ AloneInv

-----------------------------------------------------------------------------
(* Settings and requests                                                   *)

\* Of two valid limits that are numbers, even read one by one, the lower is lower.
LEMMA NumbersAdmitSomePin ==
    ASSUME settings \in Settings, Valid(settings), IsNumber(settings.min), IsNumber(settings.max)
    PROVE  SomePinFits
<1>1. settings.min \in Nat /\ settings.max \in Nat
  <2>1. PICK a \in Limits, b \in Limits : a = settings.min /\ b = settings.max
    BY DEF Settings
  <2>2. a # NotANumber /\ b # NotANumber
    BY <2>1 DEF IsNumber
  <2>3. Least \in Nat /\ Most \in Nat /\ PinLimits \subseteq Nat
    BY ParametersFit DEF Least, Most
  <2>4. Limits \ {NotANumber} \subseteq Nat
    BY <2>3 DEF Limits
  <2>5. a \in Nat /\ b \in Nat
    BY <2>1, <2>2, <2>4
  <2> QED
    BY <2>1, <2>5
<1>2. LengthOr(Least, settings.min) \in {Least, settings.min}
      /\ LengthOr(Most, settings.max) \in {Most, settings.max}
  BY DEF LengthOr
<1>3. Least <= settings.min /\ settings.min <= settings.max /\ settings.max <= Most
  BY DEF Valid
<1> QED
  BY <1>1, <1>2, <1>3 DEF SomePinFits, Least, Most

\* Settings that are changed are settings.
LEMMA MergedIsSettings ==
    ASSUME Types, NEW new \in Changes
    PROVE  Merged(new) \in Settings
<1>1. PICK s \in Settings, keys \in SUBSET KeysChanged : new = Restrict(s, keys)
  BY DEF Changes
<1>2. DOMAIN settings = {"pin", "min", "max"} /\ settings \in Settings
  BY DEF Types, Settings
<1>3. new = [x \in keys |-> s[x]]
  BY <1>1 DEF Restrict
<1>4. Merged(new) = [x \in {"pin", "min", "max"} |-> IF x \in keys THEN s[x] ELSE settings[x]]
  BY <1>2, <1>3 DEF Merged
<1>5. Merged(new) = [pin |-> IF "pin" \in keys THEN s.pin ELSE settings.pin,
                     min |-> IF "min" \in keys THEN s.min ELSE settings.min,
                     max |-> IF "max" \in keys THEN s.max ELSE settings.max]
  BY <1>4
<1> QED
  BY <1>2, <1>5 DEF Settings

\* What a request is like, by what it is about to do.
LEMMA KindsOfRequest ==
    ASSUME NEW q \in {Idle} \cup InFlight
    PROVE  /\ q.op = "COMPARE" => q # Idle /\ q.user \in Users /\ q.seen \in 0 .. MaxFailed
           /\ q.op \in {"LOCK", "PASSWORD", "CHANGE_PIN"} => q # Idle /\ q.user \in Users
           /\ q.op = "UPDATE" => /\ q # Idle /\ q.user \in Users /\ q.role \in Roles
                                 /\ q.pin \in {"SET", "CLEAR", "KEEP"}
           /\ q.op = "TOGGLE" => q # Idle /\ q.user \in Users /\ q.active \in BOOLEAN
           /\ q.op = "SETTINGS" => q # Idle /\ q.new \in Changes
BY DEF InFlight, Compares, Writers, Updates, Toggles, Settlings, Idle

\* A reader starts alone, or it is known not to be.
LEMMA ReadStep ==
    ASSUME UsersInv, NEW r \in Requests, NEW q \in InFlight, Read(r, q),
           apart => StillStands(q), q # Idle
    PROVE  UsersInv'
<1>1. /\ request[r] = Idle
      /\ request' = [request EXCEPT ![r] = q]
      /\ apart' = (apart /\ Quiet)
      /\ UNCHANGED <<role, pin, active, attempts, locked, settings>>
  BY DEF Read, Becomes
<1>2. Types'
  BY <1>1 DEF UsersInv, Types
<1>3. ASSUME apart'
      PROVE  /\ OneAtATime'
             /\ \A s \in Requests : request'[s] # Idle => StillStands(request[s])'
             /\ \A u \in Users : LockDue(u)'
             /\ PinOnlyForCouriers' /\ Valid(settings')
  <2>1. apart /\ \A s \in Requests : request[s] = Idle
    BY <1>1, <1>3 DEF Quiet
  <2>2. request'[r] = q /\ \A s \in Requests \ {r} : request'[s] = Idle
    BY <1>1, <2>1 DEF UsersInv, Types
  <2>3. OneAtATime'
    BY <2>2 DEF OneAtATime
  <2>4. StillStands(q)'
    BY <1>1, <2>1 DEF StillStands, Valid, Merged
  <2>5. \A s \in Requests : request'[s] # Idle => StillStands(request[s])'
    BY <2>2, <2>4 DEF StillStands
  <2>6. ASSUME NEW u \in Users
        PROVE  LockDue(u)'
    BY <1>1, <2>1 DEF UsersInv, AloneInv, LockDue
  <2>7. PinOnlyForCouriers' /\ Valid(settings')
    BY <1>1, <2>1 DEF UsersInv, AloneInv, PinOnlyForCouriers, Valid
  <2> QED
    BY <2>3, <2>5, <2>6, <2>7
<1>4. AloneInv'
  BY <1>3 DEF AloneInv
<1> QED
  BY <1>2, <1>4 DEF UsersInv

-----------------------------------------------------------------------------
(* What the request in flight knows                                        *)

LEMMA UsersInit == ASSUME Init PROVE UsersInv
<1>1. Types
  BY ParametersFit DEF Init, Types, NoLock, Settings, Limits
<1>2. \A r \in Requests : request[r] = Idle
  BY DEF Init
<1>3. \A u \in Users : LockDue(u)
  BY ParametersFit DEF Init, LockDue, NoLock
<1>4. PinOnlyForCouriers
  BY DEF Init, PinOnlyForCouriers
<1>5. Valid(settings)
  BY DEF Init, Valid, Least, Most, IsNumber
<1> QED
  BY <1>1, <1>2, <1>3, <1>4, <1>5 DEF UsersInv, AloneInv, OneAtATime

\* While a request is in flight and nothing overlapped, it is the only one: no
\* lock is missing but the one it is about to write.
LEMMA Alone ==
    ASSUME UsersInv, apart, NEW r \in Requests, request[r] # Idle
    PROVE  /\ \A s \in Requests \ {r} : request[s] = Idle
           /\ StillStands(request[r])
           /\ \A u \in Users :
                 \/ attempts[u] = MaxFailed <=> locked[u] # NoLock
                 \/ request[r].op = "LOCK" /\ request[r].user = u
           /\ \A u \in Users : pin[u] => role[u] = "COURIER"
           /\ Valid(settings)
<1>1. \A s \in Requests \ {r} : request[s] = Idle
  BY DEF UsersInv, AloneInv, OneAtATime
<1>2. StillStands(request[r])
  BY DEF UsersInv, AloneInv
<1>3. \A u \in Users : LockDue(u)
  BY DEF UsersInv, AloneInv
<1>4. \A u \in Users :
         \/ attempts[u] = MaxFailed <=> locked[u] # NoLock
         \/ request[r].op = "LOCK" /\ request[r].user = u
  BY <1>1, <1>3 DEF LockDue
<1>5. (\A u \in Users : pin[u] => role[u] = "COURIER") /\ Valid(settings)
  BY DEF UsersInv, AloneInv, PinOnlyForCouriers, Valid
<1> QED
  BY <1>1, <1>2, <1>4, <1>5

\* A request that ends leaves the invariant when it leaves what the rows must
\* agree on.
LEMMA EndStep ==
    ASSUME UsersInv, NEW r \in Requests, request[r] # Idle, Becomes(r, Idle), Types',
           apart' => /\ apart
                     /\ \A u \in Users : attempts'[u] = MaxFailed <=> locked'[u] # NoLock
                     /\ \A u \in Users : pin'[u] => role'[u] = "COURIER"
                     /\ Valid(settings')
    PROVE  UsersInv'
<1>1. ASSUME apart'
      PROVE  \A s \in Requests : request'[s] = Idle
  <2>1. \A s \in Requests \ {r} : request[s] = Idle
    BY <1>1, Alone
  <2> QED
    BY <2>1 DEF Becomes, UsersInv, Types
<1>2. ASSUME apart'
      PROVE  \A u \in Users : LockDue(u)'
  BY <1>2 DEF LockDue
<1>3. ASSUME apart'
      PROVE  PinOnlyForCouriers' /\ Valid(settings')
  BY <1>3 DEF PinOnlyForCouriers
<1>4. AloneInv'
  BY <1>1, <1>2, <1>3 DEF AloneInv, OneAtATime
<1> QED
  BY <1>4 DEF UsersInv

-----------------------------------------------------------------------------
(* Requests that read                                                      *)

LEMMA LoginKeeps ==
    ASSUME UsersInv, NEW r \in Requests, NEW u \in Users, NEW byPin \in BOOLEAN, Login(r, u, byPin)
    PROVE  UsersInv'
<1>1. PICK q : q = [op |-> "COMPARE", user |-> u, seen |-> attempts[u]]
  OBVIOUS
<1>2. q \in InFlight /\ q # Idle
  BY <1>1 DEF InFlight, Compares, Idle, UsersInv, Types
<1>3. StillStands(q)
  BY <1>1 DEF StillStands
<1> QED
  BY <1>1, <1>2, <1>3, ReadStep DEF Login

LEMMA ReadForUpdateKeeps ==
    ASSUME UsersInv, NEW r \in Requests, NEW u \in Users, NEW caller \in Editors,
           NEW newRole \in Roles, NEW hasPin \in BOOLEAN,
           ReadForUpdate(r, u, caller, newRole, hasPin)
    PROVE  UsersInv'
<1>1. PICK q : q = [op |-> "UPDATE", user |-> u, role |-> newRole,
                    pin |-> PinColumn(role[u], newRole, hasPin)]
  OBVIOUS
<1>2. /\ q.pin \in {"SET", "CLEAR", "KEEP"}
      /\ q.pin = "SET" => newRole = "COURIER"
      /\ q.pin = "KEEP" => newRole = "COURIER" \/ role[u] # "COURIER"
  BY <1>1 DEF PinColumn
<1>3. q \in InFlight /\ q # Idle
  BY <1>1, <1>2 DEF InFlight, Updates, Idle
<1>4. StillStands(q)
  BY <1>1, <1>2 DEF StillStands, ReadForUpdate, Exists
<1> QED
  BY <1>1, <1>3, <1>4, ReadStep DEF ReadForUpdate

LEMMA ReadForPasswordKeeps ==
    ASSUME UsersInv, NEW r \in Requests, NEW u \in Users, NEW caller \in Editors,
           ReadForPassword(r, u, caller)
    PROVE  UsersInv'
<1>1. PICK q : q = [op |-> "PASSWORD", user |-> u]
  OBVIOUS
<1>2. q \in InFlight /\ q # Idle /\ StillStands(q)
  BY <1>1 DEF InFlight, Writers, Idle, StillStands
<1> QED
  BY <1>1, <1>2, ReadStep DEF ReadForPassword

LEMMA ReadForPinKeeps ==
    ASSUME UsersInv, NEW r \in Requests, NEW u \in Users, ReadForPin(r, u)
    PROVE  UsersInv'
<1>1. PICK q : q = [op |-> "CHANGE_PIN", user |-> u]
  OBVIOUS
<1>2. q \in InFlight /\ q # Idle
  BY <1>1 DEF InFlight, Writers, Idle
<1>3. StillStands(q)
  BY <1>1 DEF StillStands, ReadForPin
<1> QED
  BY <1>1, <1>2, <1>3, ReadStep DEF ReadForPin

LEMMA ReadForToggleKeeps ==
    ASSUME UsersInv, NEW r \in Requests, NEW u \in Users, NEW on \in BOOLEAN,
           ReadForToggle(r, u, on)
    PROVE  UsersInv'
<1>1. PICK q : q = [op |-> "TOGGLE", user |-> u, active |-> on]
  OBVIOUS
<1>2. q \in InFlight /\ q # Idle /\ StillStands(q)
  BY <1>1 DEF InFlight, Toggles, Idle, StillStands
<1> QED
  BY <1>1, <1>2, ReadStep DEF ReadForToggle

LEMMA ReadForSettingsKeeps ==
    ASSUME UsersInv, NEW r \in Requests, NEW new \in Changes, ReadForSettings(r, new)
    PROVE  UsersInv'
<1>1. PICK q : q = [op |-> "SETTINGS", new |-> new]
  OBVIOUS
<1>2. q \in InFlight /\ q # Idle
  BY <1>1 DEF InFlight, Settlings, Idle
<1>3. StillStands(q)
  BY <1>1 DEF StillStands, ReadForSettings
<1> QED
  BY <1>1, <1>2, <1>3, ReadStep DEF ReadForSettings

-----------------------------------------------------------------------------
(* Requests that write                                                     *)

LEMMA WrongSecretKeeps ==
    ASSUME UsersInv, NEW r \in Requests, WrongSecret(r)
    PROVE  UsersInv'
<1>1. PICK q : q = request[r]
  OBVIOUS
<1>2. q.op = "COMPARE" /\ q # Idle /\ q.user \in Users /\ q.seen \in 0 .. MaxFailed
  BY <1>1, KindsOfRequest DEF WrongSecret, UsersInv, Types
<1>3. UNCHANGED <<role, pin, active, locked, settings>>
  BY DEF WrongSecret
<1>4. \/ attempts' = [attempts EXCEPT ![q.user] = Counted(attempts[q.user])] /\ apart' = apart
      \/ attempts' = attempts /\ apart' = FALSE
  BY <1>1 DEF WrongSecret, Attempted
<1>5. \A n \in 0 .. MaxFailed : Counted(n) \in 0 .. MaxFailed
  BY ParametersFit DEF Counted
<1>6. attempts' \in [Users -> 0 .. MaxFailed] /\ apart' \in BOOLEAN
  <2>1. attempts[q.user] \in 0 .. MaxFailed /\ apart \in BOOLEAN
    BY <1>2 DEF UsersInv, Types
  <2>2. Counted(attempts[q.user]) \in 0 .. MaxFailed
    BY <1>5, <2>1
  <2>3. apart' \in BOOLEAN
    BY <1>4, <2>1
  <2>4. attempts' \in [Users -> 0 .. MaxFailed]
    BY <1>4, <2>2 DEF UsersInv, Types
  <2> QED
    BY <2>3, <2>4
<1>7. apart' => apart /\ \A u \in Users : u # q.user => attempts'[u] = attempts[u]
  BY <1>4 DEF UsersInv, Types
<1>8. apart' => /\ q.seen = attempts[q.user] /\ attempts'[q.user] = Counted(q.seen)
                /\ \A u \in Users : attempts[u] = MaxFailed <=> locked[u] # NoLock
  BY <1>1, <1>2, <1>4, <1>7, Alone DEF StillStands, UsersInv, Types
<1>9. CASE Locks(q.seen)
  <2>1. PICK w : w = [op |-> "LOCK", user |-> q.user]
    OBVIOUS
  <2>2. w \in InFlight /\ w # Idle /\ w.op = "LOCK" /\ w.user = q.user
    BY <1>2, <2>1 DEF InFlight, Writers, Idle
  <2>3. request' = [request EXCEPT ![r] = w]
    BY <1>1, <1>9, <2>1 DEF WrongSecret, Becomes
  <2>4. Types'
    BY <1>3, <1>6, <2>2, <2>3 DEF UsersInv, Types
  <2>5. ASSUME apart'
        PROVE  /\ OneAtATime'
               /\ \A s \in Requests : request'[s] # Idle => StillStands(request[s])'
               /\ \A u \in Users : LockDue(u)'
               /\ PinOnlyForCouriers' /\ Valid(settings')
    <3>1. request'[r] = w /\ \A s \in Requests \ {r} : request'[s] = Idle
      BY <1>1, <1>2, <1>7, <2>3, <2>5, Alone DEF UsersInv, Types
    <3>2. OneAtATime'
      BY <3>1 DEF OneAtATime
    <3>3. attempts'[q.user] = MaxFailed
      BY <1>2, <1>8, <1>9, <2>5, ParametersFit DEF Locks, Counted
    <3>4. \A s \in Requests : request'[s] # Idle => StillStands(request[s])'
      BY <2>2, <3>1, <3>3 DEF StillStands
    <3>5. ASSUME NEW u \in Users
          PROVE  LockDue(u)'
      <4>1. CASE u = q.user
        BY <2>2, <3>1, <4>1 DEF LockDue
      <4>2. CASE u # q.user
        BY <1>3, <1>7, <1>8, <2>5, <4>2 DEF LockDue
      <4> QED
        BY <4>1, <4>2
    <3>6. PinOnlyForCouriers' /\ Valid(settings')
      BY <1>3, <1>7, <2>5 DEF UsersInv, AloneInv, PinOnlyForCouriers, Valid
    <3> QED
      BY <3>2, <3>4, <3>5, <3>6
  <2>6. AloneInv'
    BY <2>5 DEF AloneInv
  <2> QED
    BY <2>4, <2>6 DEF UsersInv
<1>10. CASE ~Locks(q.seen)
  <2>1. Becomes(r, Idle)
    BY <1>1, <1>10 DEF WrongSecret
  <2>2. Types'
    BY <1>3, <1>6, <2>1 DEF Becomes, UsersInv, Types
  <2>3. apart' => attempts'[q.user] # MaxFailed /\ attempts[q.user] # MaxFailed
    BY <1>2, <1>8, <1>10, ParametersFit DEF Locks, Counted
  <2>4. apart' => \A u \in Users : attempts'[u] = MaxFailed <=> locked'[u] # NoLock
    BY <1>2, <1>3, <1>7, <1>8, <2>3
  <2>5. apart' => /\ \A u \in Users : pin'[u] => role'[u] = "COURIER"
                  /\ Valid(settings')
    BY <1>1, <1>2, <1>3, <1>7, Alone
  <2> QED
    BY <1>1, <1>2, <1>7, <2>1, <2>2, <2>4, <2>5, EndStep
<1> QED
  BY <1>9, <1>10

LEMMA LockUserKeeps ==
    ASSUME UsersInv, NEW r \in Requests, LockUser(r)
    PROVE  UsersInv'
<1>1. PICK q : q = request[r]
  OBVIOUS
<1>2. q.op = "LOCK" /\ q # Idle /\ q.user \in Users
  BY <1>1, KindsOfRequest DEF LockUser, UsersInv, Types
<1>3. UNCHANGED <<role, pin, active, attempts, settings>> /\ Becomes(r, Idle)
  BY DEF LockUser
<1>4. \/ locked' = [locked EXCEPT ![q.user] = LockDuration] /\ apart' = apart
      \/ locked' = locked /\ apart' = FALSE
  BY <1>1 DEF LockUser, Attempted
<1>5. LockDuration \in NoLock .. LockDuration /\ LockDuration # NoLock
  BY ParametersFit DEF NoLock
<1>6. Types'
  BY <1>2, <1>3, <1>4, <1>5 DEF Becomes, UsersInv, Types
<1>7. ASSUME apart'
      PROVE  /\ apart
             /\ \A u \in Users : attempts'[u] = MaxFailed <=> locked'[u] # NoLock
             /\ \A u \in Users : pin'[u] => role'[u] = "COURIER"
             /\ Valid(settings')
  <2>1. locked' = [locked EXCEPT ![q.user] = LockDuration] /\ apart
    BY <1>4, <1>7
  <2>2. attempts[q.user] = MaxFailed
    BY <1>1, <1>2, <2>1, Alone DEF StillStands
  <2>3. \A u \in Users : u # q.user => (attempts[u] = MaxFailed <=> locked[u] # NoLock)
    BY <1>1, <1>2, <2>1, Alone
  <2>4. \A u \in Users : attempts'[u] = MaxFailed <=> locked'[u] # NoLock
    BY <1>2, <1>3, <1>5, <2>1, <2>2, <2>3 DEF UsersInv, Types
  <2> QED
    BY <1>1, <1>2, <1>3, <2>1, <2>4, Alone
<1> QED
  BY <1>1, <1>2, <1>3, <1>6, <1>7, EndStep

\* A count that is cleared with its lock leaves the two in agreement.
LEMMA ClearedAgrees ==
    ASSUME UsersInv, NEW v \in Users, Cleared(v),
           \A u \in Users : attempts[u] = MaxFailed <=> locked[u] # NoLock
    PROVE  \A u \in Users : attempts'[u] = MaxFailed <=> locked'[u] # NoLock
BY ParametersFit DEF Cleared, UsersInv, Types

LEMMA ClearedIsTyped ==
    ASSUME UsersInv, NEW v \in Users, Cleared(v)
    PROVE  attempts' \in [Users -> 0 .. MaxFailed] /\ locked' \in [Users -> NoLock .. LockDuration]
BY ParametersFit DEF Cleared, UsersInv, Types, NoLock

LEMMA RightSecretKeeps ==
    ASSUME UsersInv, NEW r \in Requests, RightSecret(r)
    PROVE  UsersInv'
<1>1. PICK q : q = request[r]
  OBVIOUS
<1>2. q.op = "COMPARE" /\ q # Idle /\ q.user \in Users
  BY <1>1, KindsOfRequest DEF RightSecret, UsersInv, Types
<1>3. UNCHANGED <<role, pin, active, settings>> /\ Becomes(r, Idle)
  BY DEF RightSecret
<1>4. \/ Cleared(q.user) /\ apart' = apart
      \/ UNCHANGED <<attempts, locked>> /\ apart' = FALSE
  BY <1>1 DEF RightSecret, Attempted
<1>5. Types'
  BY <1>2, <1>3, <1>4, ClearedIsTyped DEF Becomes, UsersInv, Types
<1>6. ASSUME apart'
      PROVE  /\ apart
             /\ \A u \in Users : attempts'[u] = MaxFailed <=> locked'[u] # NoLock
             /\ \A u \in Users : pin'[u] => role'[u] = "COURIER"
             /\ Valid(settings')
  <2>1. apart /\ \A u \in Users : attempts[u] = MaxFailed <=> locked[u] # NoLock
    BY <1>1, <1>2, <1>4, <1>6, Alone
  <2>2. \A u \in Users : attempts'[u] = MaxFailed <=> locked'[u] # NoLock
    BY <1>2, <1>4, <1>6, <2>1, ClearedAgrees
  <2> QED
    BY <1>1, <1>2, <1>3, <2>1, <2>2, Alone
<1> QED
  BY <1>1, <1>2, <1>3, <1>5, <1>6, EndStep

LEMMA UpdatePasswordKeeps ==
    ASSUME UsersInv, NEW r \in Requests, UpdatePassword(r)
    PROVE  UsersInv'
<1>1. PICK q : q = request[r]
  OBVIOUS
<1>2. q.op = "PASSWORD" /\ q # Idle /\ q.user \in Users
  BY <1>1, KindsOfRequest DEF UpdatePassword, UsersInv, Types
<1>3. UNCHANGED <<role, pin, active, settings, apart>> /\ Becomes(r, Idle) /\ Cleared(q.user)
  BY <1>1 DEF UpdatePassword
<1>4. Types'
  BY <1>2, <1>3, ClearedIsTyped DEF Becomes, UsersInv, Types
<1>5. ASSUME apart
      PROVE  /\ \A u \in Users : attempts'[u] = MaxFailed <=> locked'[u] # NoLock
             /\ \A u \in Users : pin'[u] => role'[u] = "COURIER"
             /\ Valid(settings')
  <2>1. \A u \in Users : attempts[u] = MaxFailed <=> locked[u] # NoLock
    BY <1>1, <1>2, <1>5, Alone
  <2>2. \A u \in Users : attempts'[u] = MaxFailed <=> locked'[u] # NoLock
    BY <1>2, <1>3, <2>1, ClearedAgrees
  <2> QED
    BY <1>1, <1>2, <1>3, <1>5, <2>2, Alone
<1> QED
  BY <1>1, <1>2, <1>3, <1>4, <1>5, EndStep

LEMMA UpdateKeeps ==
    ASSUME UsersInv, NEW r \in Requests, Update(r)
    PROVE  UsersInv'
<1>1. PICK q : q = request[r]
  OBVIOUS
<1>2. q.op = "UPDATE" /\ q # Idle /\ q.user \in Users /\ q.role \in Roles /\ q.pin \in {"SET", "CLEAR", "KEEP"}
  BY <1>1, KindsOfRequest DEF Update, UsersInv, Types
<1>3. UNCHANGED <<active, attempts, locked, settings, apart>> /\ Becomes(r, Idle)
  BY DEF Update
<1>4. role' = [role EXCEPT ![q.user] = q.role]
  BY <1>1 DEF Update
<1>5. PICK has \in BOOLEAN : /\ pin' = [pin EXCEPT ![q.user] = has]
                             /\ q.pin = "SET" => has = TRUE
                             /\ q.pin = "CLEAR" => has = FALSE
                             /\ q.pin = "KEEP" => has = pin[q.user]
  <2>1. pin[q.user] \in BOOLEAN
    BY <1>2 DEF UsersInv, Types
  <2>2. CASE q.pin = "SET"
    <3>1. pin' = [pin EXCEPT ![q.user] = TRUE]
      BY <1>1, <2>2 DEF Update
    <3> QED
      BY <2>2, <3>1
  <2>3. CASE q.pin = "CLEAR"
    <3>1. pin' = [pin EXCEPT ![q.user] = FALSE]
      BY <1>1, <2>3 DEF Update
    <3> QED
      BY <2>3, <3>1
  <2>4. CASE q.pin = "KEEP"
    <3>1. pin' = [pin EXCEPT ![q.user] = pin[q.user]]
      BY <1>1, <2>4 DEF Update
    <3> QED
      BY <2>1, <2>4, <3>1
  <2> QED
    BY <1>2, <2>2, <2>3, <2>4
<1>6. Types'
  BY <1>2, <1>3, <1>4, <1>5 DEF Becomes, UsersInv, Types
<1>7. ASSUME apart
      PROVE  /\ \A u \in Users : attempts'[u] = MaxFailed <=> locked'[u] # NoLock
             /\ \A u \in Users : pin'[u] => role'[u] = "COURIER"
             /\ Valid(settings')
  <2>1. /\ \A u \in Users : pin[u] => role[u] = "COURIER"
        /\ q.pin = "SET" => q.role = "COURIER"
        /\ q.pin = "KEEP" => q.role = "COURIER" \/ role[q.user] # "COURIER"
    BY <1>1, <1>2, <1>7, Alone DEF StillStands
  <2>2. ASSUME NEW u \in Users, pin'[u]
        PROVE  role'[u] = "COURIER"
    <3>1. CASE u = q.user
      <4>1. has /\ role'[u] = q.role
        BY <1>2, <1>4, <1>5, <2>2, <3>1 DEF UsersInv, Types
      <4>2. q.pin = "SET" \/ (q.pin = "KEEP" /\ pin[q.user])
        BY <1>2, <1>5, <4>1
      <4> QED
        BY <1>2, <2>1, <4>1, <4>2
    <3>2. CASE u # q.user
      BY <1>4, <1>5, <2>1, <2>2, <3>2 DEF UsersInv, Types
    <3> QED
      BY <3>1, <3>2
  <2> QED
    BY <1>1, <1>2, <1>3, <1>7, <2>2, Alone
<1> QED
  BY <1>1, <1>2, <1>3, <1>6, <1>7, EndStep

LEMMA ChangeOwnPinKeeps ==
    ASSUME UsersInv, NEW r \in Requests, ChangeOwnPin(r)
    PROVE  UsersInv'
<1>1. PICK q : q = request[r]
  OBVIOUS
<1>2. q.op = "CHANGE_PIN" /\ q # Idle /\ q.user \in Users
  BY <1>1, KindsOfRequest DEF ChangeOwnPin, UsersInv, Types
<1>3. UNCHANGED <<role, active, attempts, locked, settings, apart>> /\ Becomes(r, Idle)
  BY DEF ChangeOwnPin
<1>4. pin' = [pin EXCEPT ![q.user] = TRUE]
  BY <1>1 DEF ChangeOwnPin
<1>5. Types'
  BY <1>2, <1>3, <1>4 DEF Becomes, UsersInv, Types
<1>6. ASSUME apart
      PROVE  /\ \A u \in Users : attempts'[u] = MaxFailed <=> locked'[u] # NoLock
             /\ \A u \in Users : pin'[u] => role'[u] = "COURIER"
             /\ Valid(settings')
  <2>1. role[q.user] = "COURIER"
    BY <1>1, <1>2, <1>6, Alone DEF StillStands
  <2>2. \A u \in Users : pin[u] => role[u] = "COURIER"
    BY <1>1, <1>2, <1>6, Alone
  <2>3. \A u \in Users : u # q.user => pin'[u] = pin[u]
    BY <1>4 DEF UsersInv, Types
  <2>4. \A u \in Users : pin'[u] => role'[u] = "COURIER"
    BY <1>3, <2>1, <2>2, <2>3
  <2> QED
    BY <1>1, <1>2, <1>3, <1>6, <2>4, Alone
<1> QED
  BY <1>1, <1>2, <1>3, <1>5, <1>6, EndStep

LEMMA ToggleUserActiveKeeps ==
    ASSUME UsersInv, NEW r \in Requests, ToggleUserActive(r)
    PROVE  UsersInv'
<1>1. PICK q : q = request[r]
  OBVIOUS
<1>2. q.op = "TOGGLE" /\ q # Idle /\ q.user \in Users /\ q.active \in BOOLEAN
  BY <1>1, KindsOfRequest DEF ToggleUserActive, UsersInv, Types
<1>3. UNCHANGED <<role, pin, attempts, locked, settings, apart>> /\ Becomes(r, Idle)
  BY DEF ToggleUserActive
<1>4. active' = [active EXCEPT ![q.user] = q.active]
  BY <1>1 DEF ToggleUserActive
<1>5. Types'
  BY <1>2, <1>3, <1>4 DEF Becomes, UsersInv, Types
<1>6. ASSUME apart
      PROVE  /\ \A u \in Users : attempts'[u] = MaxFailed <=> locked'[u] # NoLock
             /\ \A u \in Users : pin'[u] => role'[u] = "COURIER"
             /\ Valid(settings')
  BY <1>1, <1>2, <1>3, <1>6, Alone
<1> QED
  BY <1>1, <1>2, <1>3, <1>5, <1>6, EndStep

LEMMA UpsertManyKeeps ==
    ASSUME UsersInv, NEW r \in Requests, UpsertMany(r)
    PROVE  UsersInv'
<1>1. PICK q : q = request[r]
  OBVIOUS
<1>2. q.op = "SETTINGS" /\ q # Idle /\ q.new \in Changes
  BY <1>1, KindsOfRequest DEF UpsertMany, UsersInv, Types
<1>3. UNCHANGED <<role, pin, active, attempts, locked, apart>> /\ Becomes(r, Idle)
  BY DEF UpsertMany
<1>4. settings' = Merged(q.new)
  BY <1>1 DEF UpsertMany
<1>5. settings' \in Settings
  BY <1>2, <1>4, MergedIsSettings DEF UsersInv
<1>6. Types'
  BY <1>3, <1>5 DEF Becomes, UsersInv, Types
<1>7. ASSUME apart
      PROVE  /\ \A u \in Users : attempts'[u] = MaxFailed <=> locked'[u] # NoLock
             /\ \A u \in Users : pin'[u] => role'[u] = "COURIER"
             /\ Valid(settings')
  <2>1. Valid(settings')
    BY <1>1, <1>2, <1>4, <1>7, Alone DEF StillStands, Valid
  <2> QED
    BY <1>1, <1>2, <1>3, <1>7, <2>1, Alone
<1> QED
  BY <1>1, <1>2, <1>3, <1>6, <1>7, EndStep

LEMMA GiveUpKeeps ==
    ASSUME UsersInv, NEW r \in Requests, GiveUp(r)
    PROVE  UsersInv'
<1>1. request[r] # Idle /\ Becomes(r, Idle) /\ UNCHANGED <<role, pin, active, attempts, locked, settings>>
  BY DEF GiveUp
<1>2. apart' = (apart /\ request[r].op # "LOCK")
  BY DEF GiveUp
<1>3. apart' \in BOOLEAN
  BY <1>2
<1>4. Types'
  BY <1>1, <1>3 DEF Becomes, UsersInv, Types
<1>5. ASSUME apart'
      PROVE  /\ apart
             /\ \A u \in Users : attempts'[u] = MaxFailed <=> locked'[u] # NoLock
             /\ \A u \in Users : pin'[u] => role'[u] = "COURIER"
             /\ Valid(settings')
  BY <1>1, <1>2, <1>5, Alone
<1> QED
  BY <1>1, <1>4, <1>5, EndStep

-----------------------------------------------------------------------------
(* Steps that are of no request                                            *)

\* A user that is created is none that a request has read.
LEMMA CreateKeeps ==
    ASSUME UsersInv, NEW u \in Users, NEW caller \in Editors,
           NEW newRole \in Roles, NEW hasPin \in BOOLEAN, Create(u, caller, newRole, hasPin)
    PROVE  UsersInv'
<1>1. role[u] = "NONE" /\ UNCHANGED <<active, attempts, locked, settings, request, apart>>
  BY DEF Create
<1>2. PICK has \in BOOLEAN : has = (newRole = "COURIER")
  OBVIOUS
<1>3. role' = [role EXCEPT ![u] = newRole] /\ pin' = [pin EXCEPT ![u] = has]
  BY <1>2 DEF Create
<1>4. Types'
  BY <1>1, <1>3 DEF UsersInv, Types
<1>5. ASSUME apart'
      PROVE  /\ OneAtATime'
             /\ \A s \in Requests : request'[s] # Idle => StillStands(request[s])'
             /\ \A v \in Users : LockDue(v)'
             /\ PinOnlyForCouriers' /\ Valid(settings')
  <2>1. apart /\ OneAtATime' /\ Valid(settings')
    BY <1>1, <1>5 DEF UsersInv, AloneInv, OneAtATime
  <2>2. \A v \in Users \ {u} : role'[v] = role[v] /\ pin'[v] = pin[v]
    BY <1>3 DEF UsersInv, Types
  <2>3. ASSUME NEW s \in Requests, request'[s] # Idle
        PROVE  StillStands(request[s])'
    <3>1. PICK q : q = request[s]
      OBVIOUS
    <3>2. q # Idle /\ request'[s] = q /\ StillStands(q)
      BY <1>1, <2>1, <2>3, <3>1 DEF UsersInv, AloneInv
    <3>3. q.op \in {"UPDATE", "CHANGE_PIN"} => q.user \in Users /\ role[q.user] # "NONE"
      BY <3>1, <3>2, KindsOfRequest DEF StillStands, UsersInv, Types
    <3>4. q.op \in {"UPDATE", "CHANGE_PIN"} => role'[q.user] = role[q.user]
      BY <1>1, <2>2, <3>3
    <3> QED
      BY <1>1, <3>2, <3>4 DEF StillStands, Valid, Merged
  <2>4. \A v \in Users : LockDue(v)'
    BY <1>1, <2>1 DEF UsersInv, AloneInv, LockDue
  <2>5. PinOnlyForCouriers'
    <3>1. ASSUME NEW v \in Users, pin'[v]
          PROVE  role'[v] = "COURIER"
      <4>1. CASE v = u
        BY <1>2, <1>3, <3>1, <4>1 DEF UsersInv, Types
      <4>2. CASE v # u
        BY <2>1, <2>2, <3>1, <4>2 DEF UsersInv, AloneInv, PinOnlyForCouriers
      <4> QED
        BY <4>1, <4>2
    <3> QED
      BY <3>1 DEF PinOnlyForCouriers
  <2> QED
    BY <2>1, <2>3, <2>4, <2>5
<1>6. AloneInv'
  BY <1>5 DEF AloneInv
<1> QED
  BY <1>4, <1>6 DEF UsersInv

\* Time ends a lock, but leaves it written.
LEMMA TickKeeps ==
    ASSUME UsersInv, Tick
    PROVE  UsersInv'
<1>1. UNCHANGED <<role, pin, active, attempts, settings, request, apart>>
  BY DEF Tick
<1>2. locked' = [u \in Users |-> IF locked[u] > 0 THEN locked[u] - 1 ELSE locked[u]]
  BY DEF Tick
<1>3. \A u \in Users : /\ locked'[u] \in NoLock .. LockDuration
                       /\ locked'[u] # NoLock <=> locked[u] # NoLock
  BY <1>2, ParametersFit DEF UsersInv, Types, NoLock
<1>4. Types'
  BY <1>1, <1>2, <1>3 DEF UsersInv, Types
<1>5. ASSUME apart, NEW u \in Users
      PROVE  LockDue(u)'
  <2>1. LockDue(u)
    BY <1>5 DEF UsersInv, AloneInv
  <2> QED
    BY <1>1, <1>3, <2>1 DEF LockDue
<1>6. AloneInv'
  BY <1>1, <1>5 DEF UsersInv, AloneInv, OneAtATime, StillStands, Valid, Merged,
                    PinOnlyForCouriers
<1> QED
  BY <1>4, <1>6 DEF UsersInv

LEMMA StutterKeeps == ASSUME UsersInv, UNCHANGED vars PROVE UsersInv'
<1>1. Types'
  BY DEF UsersInv, Types, vars
<1>2. AloneInv'
  BY DEF UsersInv, AloneInv, OneAtATime, StillStands, Valid, Merged, LockDue,
         PinOnlyForCouriers, vars
<1> QED
  BY <1>1, <1>2 DEF UsersInv

LEMMA UsersStep == ASSUME UsersInv, [Next]_vars PROVE UsersInv'
<1>1. ASSUME NEW u \in Users, NEW caller \in Editors, NEW newRole \in Roles, NEW hasPin \in BOOLEAN,
             \/ Create(u, caller, newRole, hasPin)
             \/ \E r \in Requests : ReadForUpdate(r, u, caller, newRole, hasPin)
      PROVE  UsersInv'
  BY <1>1, CreateKeeps, ReadForUpdateKeeps
<1>2. ASSUME NEW r \in Requests, NEW u \in Users,
             \/ \E byPin \in BOOLEAN : Login(r, u, byPin)
             \/ \E caller \in Editors : ReadForPassword(r, u, caller)
             \/ ReadForPin(r, u)
             \/ \E on \in BOOLEAN : ReadForToggle(r, u, on)
      PROVE  UsersInv'
  BY <1>2, LoginKeeps, ReadForPasswordKeeps, ReadForPinKeeps, ReadForToggleKeeps
<1>3. ASSUME NEW r \in Requests,
             \/ WrongSecret(r)
             \/ LockUser(r)
             \/ RightSecret(r)
             \/ Update(r)
             \/ UpdatePassword(r)
             \/ ChangeOwnPin(r)
             \/ ToggleUserActive(r)
             \/ UpsertMany(r)
             \/ GiveUp(r)
      PROVE  UsersInv'
  BY <1>3, WrongSecretKeeps, LockUserKeeps, RightSecretKeeps, UpdateKeeps, UpdatePasswordKeeps,
     ChangeOwnPinKeeps, ToggleUserActiveKeeps, UpsertManyKeeps, GiveUpKeeps
<1>4. ASSUME NEW r \in Requests, NEW new \in Changes, ReadForSettings(r, new)
      PROVE  UsersInv'
  BY <1>4, ReadForSettingsKeeps
<1>5. CASE Tick
  BY <1>5, TickKeeps
<1>6. CASE UNCHANGED vars
  BY <1>6, StutterKeeps
<1> QED
  BY <1>1, <1>2, <1>3, <1>4, <1>5, <1>6 DEF Next

-----------------------------------------------------------------------------
(* What follows                                                            *)

LEMMA UsersAlways == Spec => []UsersInv
<1>1. Init => UsersInv
  BY UsersInit
<1>2. UsersInv /\ [Next]_vars => UsersInv'
  BY UsersStep
<1> QED
  BY <1>1, <1>2, PTL DEF Spec

\* The columns and the requests have their types, only a courier keeps a PIN
\* through any updates of its role, and limits of a PIN that are numbers admit some
\* PIN, while nothing overlaps (user_service.go, settings_service.go).
THEOREM PinsAreInOrder == Spec => []AccessInv
<1>1. ASSUME UsersInv
      PROVE  AccessInv
  <2>1. TypeOK
    <3>1. \A r \in Requests : request[r] \in {Idle} \cup InFlight
      BY <1>1 DEF UsersInv, Types
    <3> QED
      BY <1>1, <3>1 DEF UsersInv, Types, TypeOK, InFlight, Compares, Writers, Updates,
                        Toggles, Settlings
  <2>2. PinOnlyForCouriers
    BY <1>1 DEF UsersInv, AloneInv, PinOnlyForCouriers
  <2>3. SomePinIsValid
    BY <1>1, NumbersAdmitSomePin DEF UsersInv, AloneInv, Types, SomePinIsValid
  <2> QED
    BY <2>1, <2>2, <2>3 DEF AccessInv
<1> QED
  BY <1>1, UsersAlways, PTL

\* The count a login writes and the lock it derives from what it had read agree
\* as soon as it has ended, if nothing overlapped it (handleFailedAttempt,
\* handleSuccessfulLogin, auth_service.go).
THEOREM LocksAreEarned == Spec => []LockFollowsAttempts
<1>1. ASSUME UsersInv
      PROVE  LockFollowsAttempts
  BY <1>1 DEF UsersInv, AloneInv, LockDue, LockFollowsAttempts, Quiet
<1> QED
  BY <1>1, UsersAlways, PTL

-----------------------------------------------------------------------------
(* Permissions                                                             *)

LEMMA RightsInit ==
    ASSUME Rights!Init
    PROVE  Rights!TypeOK
BY CatalogIsFit DEF Rights!Init, Rights!TypeOK, Rights!Rows, Rights!ValidRoles

\* Rows with updates over them are rows, and untouched keys keep theirs.
LEMMA UpsertedRows ==
    ASSUME NEW rows \in [Keys -> Rights!Rows], NEW ks, NEW updates \in [ks -> BOOLEAN]
    PROVE  /\ Rights!Upserted(rows, updates) \in [Keys -> Rights!Rows]
           /\ \A k \in Keys \ ks : Rights!Upserted(rows, updates)[k] = rows[k]
BY DEF Rights!Upserted, Rights!Row, Rights!Rows

LEMMA RightsStep ==
    ASSUME Rights!TypeOK, [Rights!Next]_(Rights!vars)
    PROVE  Rights!TypeOK'
<1>1. ASSUME NEW updates \in Rights!Updates, NEW r \in Rights!ValidRoles,
             Rights!UpdateRolePermissions(r, updates)
      PROVE  Rights!TypeOK'
  <2>1. PICK ks \in SUBSET Keys : updates \in [ks -> BOOLEAN]
    BY <1>1 DEF Rights!Updates
  <2>2. PICK kept : kept = [k \in DOMAIN updates \cap Known |-> updates[k]]
    OBVIOUS
  <2>3. kept \in [ks \cap Known -> BOOLEAN] /\ ks \cap Known \subseteq catalog
    BY <1>1, <2>1, <2>2 DEF Rights!UpdateRolePermissions
  <2>4. PICK new : new = Rights!Upserted(ofRole[r], kept)
    OBVIOUS
  <2>5. /\ ofRole' = [ofRole EXCEPT ![r] = new]
        /\ UNCHANGED <<tables, catalog, ofUser, grantee, token>>
    BY <1>1, <2>2, <2>4 DEF Rights!UpdateRolePermissions
  <2>6. /\ new \in [Keys -> Rights!Rows]
        /\ \A k \in Keys \ catalog : new[k] = "NO_ROW"
    <3>1. ofRole[r] \in [Keys -> Rights!Rows] /\ \A k \in Keys \ catalog : ofRole[r][k] = "NO_ROW"
      BY <1>1 DEF Rights!TypeOK
    <3>2. /\ new \in [Keys -> Rights!Rows]
          /\ \A k \in Keys \ (ks \cap Known) : new[k] = ofRole[r][k]
      BY <2>3, <2>4, <3>1, UpsertedRows
    <3> QED
      BY <2>3, <3>1, <3>2
  <2>7. ofRole' \in [Rights!ValidRoles -> [Keys -> Rights!Rows]]
    BY <1>1, <2>5, <2>6 DEF Rights!TypeOK
  <2>8. \A k \in Keys \ catalog, x \in Rights!ValidRoles : ofRole'[x][k] = "NO_ROW"
    BY <1>1, <2>5, <2>6 DEF Rights!TypeOK
  <2> QED
    BY <2>5, <2>7, <2>8 DEF Rights!TypeOK
<1>2. ASSUME NEW updates \in Rights!Updates, NEW u \in Users,
             Rights!UpsertUserPermissions(u, updates)
      PROVE  Rights!TypeOK'
  <2>1. PICK ks \in SUBSET Keys : updates \in [ks -> BOOLEAN]
    BY <1>2 DEF Rights!Updates
  <2>2. PICK new : new = Rights!Upserted(ofUser[u], updates)
    OBVIOUS
  <2>3. /\ ofUser' = [ofUser EXCEPT ![u] = new]
        /\ ks \subseteq catalog
        /\ UNCHANGED <<tables, catalog, ofRole, grantee, token>>
    BY <1>2, <2>1, <2>2 DEF Rights!UpsertUserPermissions
  <2>4. /\ new \in [Keys -> Rights!Rows]
        /\ \A k \in Keys \ catalog : new[k] = "NO_ROW"
    BY <1>2, <2>1, <2>2, <2>3, UpsertedRows DEF Rights!TypeOK
  <2> QED
    BY <1>2, <2>3, <2>4 DEF Rights!TypeOK
<1>3. ASSUME NEW u \in Users, Rights!ClearUserOverrides(u)
      PROVE  Rights!TypeOK'
  BY <1>3 DEF Rights!ClearUserOverrides, Rights!TypeOK, Rights!Rows
<1>4. ASSUME NEW u \in Users, NEW r \in RoleNames, Rights!ChangeRole(u, r)
      PROVE  Rights!TypeOK'
  BY <1>4 DEF Rights!ChangeRole, Rights!TypeOK
<1>5. ASSUME NEW u \in Users, Rights!Login(u) \/ Rights!Expire(u)
      PROVE  Rights!TypeOK'
  BY <1>5 DEF Rights!Login, Rights!Expire, Rights!TypeOK
<1>6. CASE UNCHANGED Rights!vars
  BY <1>6 DEF Rights!vars, Rights!TypeOK
<1> QED
  BY <1>1, <1>2, <1>3, <1>4, <1>5, <1>6 DEF Rights!Next

\* What ResolvePermission may answer, when no query that counts fails.
LEMMA AnsweredResolutionIs ==
    ASSUME Rights!TypeOK, NEW u \in Users, NEW r, NEW k \in Keys, NEW failing, "USER" \notin failing
    PROVE  /\ Rights!ResolvePermission(u, r, k, failing) \in {"ALLOWED", "DENIED", "ERROR"}
           /\ tables /\ ofUser[u][k] # "NO_ROW" =>
                 Rights!ResolvePermission(u, r, k, failing) = ofUser[u][k]
           /\ ~(tables /\ ofUser[u][k] # "NO_ROW") /\ "ROLE" \in failing =>
                 Rights!ResolvePermission(u, r, k, failing) = "ERROR"
           /\ ~(tables /\ ofUser[u][k] # "NO_ROW") /\ "ROLE" \notin failing /\ r \in Rights!ValidRoles =>
                 IF tables /\ ofRole[r][k] # "NO_ROW"
                 THEN Rights!ResolvePermission(u, r, k, failing) = ofRole[r][k]
                 ELSE Rights!ResolvePermission(u, r, k, failing) =
                         IF k \in Fallback[r] THEN "ALLOWED" ELSE "DENIED"
<1>1. ofUser[u][k] \in Rights!Rows
  BY DEF Rights!TypeOK
<1>2. r \in Rights!ValidRoles => ofRole[r][k] \in Rights!Rows
  BY DEF Rights!TypeOK
<1>3. CASE r \in Rights!ValidRoles /\ "ROLE" \notin failing /\ (~tables \/ ofRole[r][k] = "NO_ROW")
  <2>1. Rights!CheckPermission(r, k, failing) = "UNKNOWN"
    BY <1>3 DEF Rights!CheckPermission
  <2>2. Rights!Row(Rights!FallbackAllows(r, k)) = IF k \in Fallback[r] THEN "ALLOWED" ELSE "DENIED"
    BY <1>3 DEF Rights!Row, Rights!FallbackAllows
  <2> QED
    BY <1>1, <1>3, <2>1, <2>2 DEF Rights!ResolvePermission, Rights!Rows
<1>4. CASE r \in Rights!ValidRoles /\ "ROLE" \notin failing /\ tables /\ ofRole[r][k] # "NO_ROW"
  <2>1. Rights!CheckPermission(r, k, failing) = ofRole[r][k] /\ ofRole[r][k] \in {"ALLOWED", "DENIED"}
    BY <1>2, <1>4 DEF Rights!CheckPermission, Rights!Rows
  <2> QED
    BY <1>1, <1>4, <2>1 DEF Rights!ResolvePermission, Rights!Rows
<1>5. CASE r \notin Rights!ValidRoles \/ "ROLE" \in failing
  <2>1. Rights!CheckPermission(r, k, failing) = "ERROR"
    BY <1>5 DEF Rights!CheckPermission
  <2> QED
    BY <1>1, <1>5, <2>1 DEF Rights!ResolvePermission, Rights!Rows
<1> QED
  BY <1>3, <1>4, <1>5

\* What the screen of a user shows of a key.
LEMMA MatrixIs ==
    ASSUME NEW u \in Users, NEW k \in Rights!ListCatalog
    PROVE  /\ tables /\ ofUser[u][k] # "NO_ROW" =>
                 Rights!UserMatrix(u)[k] = (ofUser[u][k] = "ALLOWED")
           /\ ~(tables /\ ofUser[u][k] # "NO_ROW") =>
                 IF tables /\ ofRole[grantee[u]][k] # "NO_ROW"
                 THEN Rights!UserMatrix(u)[k] = (ofRole[grantee[u]][k] = "ALLOWED")
                 ELSE Rights!UserMatrix(u)[k] = (k \in Fallback[grantee[u]])
BY DEF Rights!UserMatrix, Rights!RoleMatrix

\* With failures or without, it answers the same or an error; an override answers by itself.
LEMMA ResolutionIs ==
    ASSUME Rights!TypeOK, NEW u \in Users, NEW r, NEW k \in Keys, NEW failing
    PROVE  /\ Rights!ResolvePermission(u, r, k, failing) \in {"ALLOWED", "DENIED", "ERROR"}
           /\ \/ Rights!ResolvePermission(u, r, k, failing) = "ERROR"
              \/ Rights!ResolvePermission(u, r, k, failing) = Rights!ResolvePermission(u, r, k, {})
           /\ tables /\ ofUser[u][k] # "NO_ROW" /\ "USER" \notin failing =>
                 Rights!ResolvePermission(u, r, k, failing) # "ERROR"
<1>1. CASE "USER" \in failing
  BY <1>1 DEF Rights!ResolvePermission
<1>2. CASE "USER" \notin failing
  <2>1. ofUser[u][k] \in Rights!Rows
    BY DEF Rights!TypeOK
  <2>2. PICK found \in BOOLEAN : found = (tables /\ ofUser[u][k] # "NO_ROW")
    OBVIOUS
  <2>3. CASE found
    <3>1. /\ Rights!ResolvePermission(u, r, k, failing) = ofUser[u][k]
          /\ Rights!ResolvePermission(u, r, k, {}) = ofUser[u][k]
      BY <1>2, <2>2, <2>3 DEF Rights!ResolvePermission
    <3>2. ofUser[u][k] \in {"ALLOWED", "DENIED"}
      BY <2>1, <2>2, <2>3 DEF Rights!Rows
    <3> QED
      BY <3>1, <3>2
  <2>4. CASE ~found /\ "ROLE" \in failing
    <3>1. Rights!CheckPermission(r, k, failing) = "ERROR"
      BY <2>4 DEF Rights!CheckPermission
    <3>2. Rights!ResolvePermission(u, r, k, failing) = "ERROR"
      BY <1>2, <2>2, <2>4, <3>1 DEF Rights!ResolvePermission
    <3> QED
      BY <2>2, <2>4, <3>2
  <2>5. CASE ~found /\ "ROLE" \notin failing
    <3>1. Rights!CheckPermission(r, k, failing) = Rights!CheckPermission(r, k, {})
      BY <2>5 DEF Rights!CheckPermission
    <3>2. Rights!ResolvePermission(u, r, k, failing) = Rights!ResolvePermission(u, r, k, {})
      BY <1>2, <3>1 DEF Rights!ResolvePermission
    <3> QED
      BY <1>2, <2>2, <2>5, <3>2, AnsweredResolutionIs
  <2> QED
    BY <2>3, <2>4, <2>5
<1> QED
  BY <1>1, <1>2

LEMMA ViewsOfAUserAgree ==
    ASSUME Rights!TypeOK, NEW u \in Users, NEW routeRoles, NEW failing, NEW k \in Rights!ListCatalog
    PROVE  /\ /\ Rights!ResolvePermission(u, token[u], k, failing) # "ERROR"
              /\ grantee[u] = token[u] /\ grantee[u] \in Rights!ValidRoles
              => Rights!UserMatrix(u)[k] = Rights!RequirePermission(u, k, routeRoles, failing)
           /\ /\ Rights!ResolvePermission(u, token[u], k, failing) # "ERROR"
              /\ Rights!ListsEffective(u)
              => (k \in Rights!EffectivePermissions(u)
                     <=> Rights!RequirePermission(u, k, routeRoles, failing))
           /\ tables /\ ofUser[u][k] # "NO_ROW" /\ "USER" \notin failing
              => Rights!ResolvePermission(u, token[u], k, failing) # "ERROR"
<1>1. k \in Keys
  BY CatalogIsFit DEF Rights!ListCatalog, Rights!TypeOK
<1>2. PICK verdict : verdict = Rights!ResolvePermission(u, token[u], k, {})
  OBVIOUS
<1>3. verdict \in {"ALLOWED", "DENIED", "ERROR"}
  BY <1>1, <1>2, ResolutionIs
<1>4. ASSUME Rights!ResolvePermission(u, token[u], k, failing) # "ERROR"
      PROVE  /\ verdict = Rights!ResolvePermission(u, token[u], k, failing)
             /\ Rights!RequirePermission(u, k, routeRoles, failing) = (verdict = "ALLOWED")
  <2>1. verdict = Rights!ResolvePermission(u, token[u], k, failing)
    BY <1>1, <1>2, <1>4, ResolutionIs
  <2>2. verdict \in {"ALLOWED", "DENIED"}
    BY <1>3, <1>4, <2>1
  <2> QED
    BY <2>1, <2>2 DEF Rights!RequirePermission
<1>5. ASSUME Rights!ResolvePermission(u, token[u], k, failing) # "ERROR",
             grantee[u] = token[u], grantee[u] \in Rights!ValidRoles
      PROVE  Rights!UserMatrix(u)[k] = Rights!RequirePermission(u, k, routeRoles, failing)
  <2>1. CASE tables /\ ofUser[u][k] # "NO_ROW"
    <3>1. verdict = ofUser[u][k]
      BY <1>1, <1>2, <2>1, AnsweredResolutionIs
    <3> QED
      BY <1>4, <1>5, <2>1, <3>1, MatrixIs
  <2>2. CASE ~(tables /\ ofUser[u][k] # "NO_ROW") /\ tables /\ ofRole[grantee[u]][k] # "NO_ROW"
    <3>1. verdict = ofRole[grantee[u]][k]
      BY <1>1, <1>2, <1>5, <2>2, AnsweredResolutionIs
    <3> QED
      BY <1>4, <1>5, <2>2, <3>1, MatrixIs
  <2>3. CASE ~(tables /\ ofUser[u][k] # "NO_ROW") /\ ~(tables /\ ofRole[grantee[u]][k] # "NO_ROW")
    <3>1. verdict = IF k \in Fallback[grantee[u]] THEN "ALLOWED" ELSE "DENIED"
      BY <1>1, <1>2, <1>5, <2>3, AnsweredResolutionIs
    <3>2. Rights!UserMatrix(u)[k] = (k \in Fallback[grantee[u]])
      BY <2>3, MatrixIs
    <3> QED
      BY <1>4, <1>5, <3>1, <3>2
  <2> QED
    BY <2>1, <2>2, <2>3
<1>6. ASSUME Rights!ResolvePermission(u, token[u], k, failing) # "ERROR"
      PROVE  k \in Rights!EffectivePermissions(u)
                <=> Rights!RequirePermission(u, k, routeRoles, failing)
  BY <1>2, <1>4, <1>6 DEF Rights!EffectivePermissions
<1>7. tables /\ ofUser[u][k] # "NO_ROW" /\ "USER" \notin failing
        => Rights!ResolvePermission(u, token[u], k, failing) # "ERROR"
  BY <1>1, ResolutionIs
<1> QED
  BY <1>5, <1>6, <1>7

\* For any roles, keys and contents of the tables, missing tables included, what
\* the screen of a user shows and what the client lists is what the routes
\* enforce, unless a query fails or the role is none: then the roles of the route do
\* (permissions_service.go, user_permissions_service.go, permission_middleware.go).
THEOREM ReadersAgree == Rights!Spec => []PermissionsInv
<1>1. Rights!Init => Rights!TypeOK
  BY RightsInit
<1>2. Rights!TypeOK /\ [Rights!Next]_(Rights!vars) => Rights!TypeOK'
  BY RightsStep
<1>3. Rights!TypeOK => PermissionsInv
  BY ViewsOfAUserAgree DEF PermissionsInv, Rights!PermissionsInv, Rights!ViewsAgree
<1> QED
  BY <1>1, <1>2, <1>3, PTL DEF Rights!Spec

-----------------------------------------------------------------------------
(* The limit on logins                                                     *)
(*                                                                         *)
(* The limiter keeps the promise of LoginWindow as long as the clean-up    *)
(* tolerates at least a window of idleness.  The invariant adds to the     *)
(* types that no entry is of the future, that a window starts before its   *)
(* last request, and that the ticker is not late: these make an entry the  *)
(* clean-up drops one whose window is over.                                *)

\* The entries are of the past and the clean-up is on time.
Timely ==
    /\ now <= cleanAt /\ cleanAt <= now + CleanEvery
    /\ \A a \in Addresses :
          entries[a] # NoEntry =>
              /\ entries[a].windowStart <= entries[a].lastSeen
              /\ entries[a].lastSeen <= now
              /\ cleanAt - entries[a].lastSeen <= 2 * CleanEvery

TimelyInv == LimiterTypes /\ Timely

\* What an entry is made of.
LEMMA EntryType ==
    ASSUME LimiterTypes, NEW a \in Addresses, entries[a] # NoEntry
    PROVE  /\ entries[a] \in Entries
           /\ entries[a].count \in Int /\ 1 <= entries[a].count /\ entries[a].count <= Limit
           /\ entries[a].windowStart \in Int /\ entries[a].lastSeen \in Int
BY LimitIsPositive, TimeIsNatural DEF LimiterTypes, Entries, Times

\* The numbers are integers.
LEMMA NumberType ==
    ASSUME LimiterTypes
    PROVE  /\ now \in Int /\ cleanAt \in Int /\ Limit \in Int /\ Limit >= 1
           /\ Window \in Int /\ Window >= 0 /\ CleanEvery \in Int /\ Window <= CleanEvery
           /\ CleanEvery >= 1
BY LimitIsPositive, WindowFitsPeriod, TimeIsNatural DEF LimiterTypes, Times

\* A request stores an entry that was just seen.
LEMMA SeenIsTimely ==
    ASSUME TimelyInv, NEW a \in Addresses, NEW e \in Entries,
           e.lastSeen = now, e.windowStart <= now,
           entries' = [entries EXCEPT ![a] = e], UNCHANGED <<now, cleanAt>>
    PROVE  Timely'
<1> USE DEF TimelyInv
<1>1. now <= cleanAt /\ cleanAt <= now + CleanEvery
  BY DEF Timely
<1>2. ASSUME NEW b \in Addresses, entries'[b] # NoEntry
      PROVE  /\ entries'[b].windowStart <= entries'[b].lastSeen
             /\ entries'[b].lastSeen <= now
             /\ cleanAt - entries'[b].lastSeen <= 2 * CleanEvery
  <2>1. CASE b = a
    <3>1. entries'[b] = e
      BY <2>1 DEF LimiterTypes
    <3>2. cleanAt - now <= 2 * CleanEvery /\ now <= now
      BY <1>1, NumberType
    <3> QED
      BY <3>1, <3>2
  <2>2. CASE b # a
    <3>1. entries'[b] = entries[b]
      BY <2>2 DEF LimiterTypes
    <3> QED
      BY <1>2, <3>1 DEF Timely
  <2> QED
    BY <2>1, <2>2
<1> QED
  BY <1>1, <1>2 DEF Timely

\* A request that is let through keeps the invariant.
LEMMA LetThroughStep ==
    ASSUME TimelyInv, NEW a \in Addresses, NEW e \in Entries,
           e.lastSeen = now, e.windowStart <= now,
           LetThrough(a, e), UNCHANGED <<now, cleanAt>>
    PROVE  TimelyInv'
<1>1. LimiterTypes'
  BY DEF LetThrough, TimelyInv, LimiterTypes
<1>2. Timely'
  BY SeenIsTimely DEF LetThrough
<1> QED
  BY <1>1, <1>2 DEF TimelyInv

\* Every step keeps the invariant.
LEMMA TimelyStep ==
    ASSUME TimelyInv, [LimiterNext]_limiterVars
    PROVE  TimelyInv'
<1> USE DEF TimelyInv
<1>0. NewWindow \in Entries /\ NewWindow.lastSeen = now /\ NewWindow.windowStart = now
  BY LimitIsPositive, TimeIsNatural DEF NewWindow, Entries, LimiterTypes
<1>1. ASSUME NEW a \in Addresses, AllowFirst(a)
      PROVE  TimelyInv'
  BY <1>0, <1>1, LetThroughStep, NumberType DEF AllowFirst
<1>2. ASSUME NEW a \in Addresses, AllowExpired(a)
      PROVE  TimelyInv'
  BY <1>0, <1>2, LetThroughStep, NumberType DEF AllowExpired
<1>3. ASSUME NEW a \in Addresses, AllowCounted(a)
      PROVE  TimelyInv'
  <2> DEFINE e == [entries[a] EXCEPT !.count = @ + 1, !.lastSeen = now]
  <2>1. entries[a] # NoEntry /\ entries[a].count < Limit
    BY <1>3 DEF AllowCounted
  <2>2. entries[a].count + 1 \in 1 .. Limit
    BY <2>1, EntryType, NumberType
  <2>3. /\ e \in Entries /\ e.lastSeen = now
        /\ e.windowStart = entries[a].windowStart
    BY <2>1, <2>2, EntryType DEF Entries, LimiterTypes
  <2>4. e.windowStart <= now
    BY <2>1, <2>3, EntryType, NumberType DEF Timely
  <2>5. LetThrough(a, e) /\ UNCHANGED <<now, cleanAt>>
    BY <1>3 DEF AllowCounted
  <2> HIDE DEF e
  <2> QED
    BY <2>3, <2>4, <2>5, LetThroughStep
<1>4. ASSUME NEW a \in Addresses, Refuse(a)
      PROVE  TimelyInv'
  <2> DEFINE e == [entries[a] EXCEPT !.lastSeen = now]
  <2>1. entries[a] # NoEntry
    BY <1>4 DEF Refuse
  <2>2. e \in Entries /\ e.lastSeen = now /\ e.windowStart = entries[a].windowStart
    BY <2>1, EntryType DEF Entries, LimiterTypes
  <2>3. e.windowStart <= now
    BY <2>1, <2>2, EntryType, NumberType DEF Timely
  <2>4. entries' = [entries EXCEPT ![a] = e] /\ UNCHANGED <<now, cleanAt>>
    BY <1>4 DEF Refuse
  <2> HIDE DEF e
  <2>5. LimiterTypes'
    BY <1>4, <2>2, <2>4 DEF Refuse, LimiterTypes
  <2>6. Timely'
    BY <2>2, <2>3, <2>4, SeenIsTimely
  <2> QED
    BY <2>5, <2>6
<1>5. CASE Cleanup
  <2>1. LimiterTypes'
    BY <1>5, NumberType, WindowFitsPeriod DEF Cleanup, LimiterTypes
  <2>2. now = cleanAt /\ now' = now /\ cleanAt' = cleanAt + CleanEvery
    BY <1>5 DEF Cleanup
  <2>3. now' <= cleanAt' /\ cleanAt' <= now' + CleanEvery
    BY <2>2, NumberType
  <2>4. ASSUME NEW a \in Addresses, entries'[a] # NoEntry
        PROVE  /\ entries'[a].windowStart <= entries'[a].lastSeen
               /\ entries'[a].lastSeen <= now'
               /\ cleanAt' - entries'[a].lastSeen <= 2 * CleanEvery
    <3>1. entries'[a] = entries[a] /\ entries[a] # NoEntry /\ ~(entries[a].lastSeen < now - CleanEvery)
      BY <1>5, <2>4 DEF Cleanup, IsIdle
    <3> QED
      BY <2>2, <3>1, EntryType, NumberType DEF Timely
  <2> QED
    BY <2>1, <2>3, <2>4 DEF Timely
<1>6. CASE ClockTick
  <2>1. LimiterTypes'
    BY <1>6, NumberType, TimeIsNatural DEF ClockTick, LimiterTypes, Times
  <2>2. Timely'
    BY <1>6, EntryType, NumberType DEF ClockTick, Timely
  <2> QED
    BY <2>1, <2>2
<1>7. CASE UNCHANGED limiterVars
  BY <1>7 DEF limiterVars, LimiterTypes, Timely
<1> QED
  BY <1>1, <1>2, <1>3, <1>4, <1>5, <1>6, <1>7 DEF LimiterNext

\* The limiter starts on time, with no entries.
LEMMA TimelyInit == LimiterInit => TimelyInv
BY TimeIsNatural, WindowFitsPeriod, LimitIsPositive DEF LimiterInit, TimelyInv, LimiterTypes, Timely, Times

\* The map of entries holds the addresses of the last two periods only,
\* however many addresses there are.
THEOREM EntriesAreForgotten == LimiterSpec => []LimiterInv
<1>1. TimelyInv /\ [LimiterNext]_limiterVars => TimelyInv'
  BY TimelyStep
<1>2. TimelyInv => LimiterInv
  <2> SUFFICES ASSUME TimelyInv, NEW a \in Addresses, entries[a] # NoEntry
               PROVE  now - entries[a].lastSeen <= 2 * CleanEvery
    BY DEF TimelyInv, LimiterInv, IdleEntriesGo
  <2> QED
    BY EntryType, NumberType DEF TimelyInv, Timely
<1> QED
  BY TimelyInit, <1>1, <1>2, PTL DEF LimiterSpec

-----------------------------------------------------------------------------
(* The refinement                                                          *)

\* The window of an address as LoginWindow sees it.
AgeOf(a)  == IF InWindow(a) THEN now - entries[a].windowStart ELSE -1
UsedOf(a) == IF InWindow(a) THEN entries[a].count ELSE 0

\* A window that is not over has an age, and one that is has none.
LEMMA AgeType ==
    ASSUME TimelyInv, NEW a \in Addresses
    PROVE  /\ InWindow(a) <=> AgeOf(a) # -1
           /\ InWindow(a) => AgeOf(a) \in 0 .. Window /\ UsedOf(a) \in 1 .. Limit
           /\ ~InWindow(a) => AgeOf(a) = -1 /\ UsedOf(a) = 0
BY EntryType, NumberType DEF TimelyInv, Timely, AgeOf, UsedOf, InWindow, Expired

\* A request that is let through is an Open or a Grant of LoginWindow.
LEMMA LetThroughRefines ==
    ASSUME TimelyInv, NEW a \in Addresses, NEW e \in Entries, LetThrough(a, e), UNCHANGED now,
           \/ ~InWindow(a) /\ e.windowStart = now /\ e.count = 1
           \/ /\ InWindow(a) /\ entries[a].count < Limit
              /\ e.windowStart = entries[a].windowStart /\ e.count = entries[a].count + 1
    PROVE  Promise!Open(a) \/ Promise!Grant(a)
<1>1. entries' = [entries EXCEPT ![a] = e] /\ answer' = [answer EXCEPT ![a] = "OK"]
  BY DEF LetThrough
<1>2. entries'[a] = e /\ \A b \in Addresses : b # a => entries'[b] = entries[b]
  BY <1>1 DEF TimelyInv, LimiterTypes
<1>3. \A b \in Addresses : b # a => AgeOf(b)' = AgeOf(b) /\ UsedOf(b)' = UsedOf(b)
  BY <1>2 DEF AgeOf, UsedOf, InWindow, Expired
<1>4. e # NoEntry
  BY NoEntryIsNone
<1>5. CASE ~InWindow(a) /\ e.windowStart = now /\ e.count = 1
  <2>1. AgeOf(a)' = 0 /\ UsedOf(a)' = 1
    BY <1>2, <1>4, <1>5, NumberType DEF AgeOf, UsedOf, InWindow, Expired, TimelyInv
  <2>2. AgeOf(a) = -1
    BY <1>5, AgeType
  <2> QED
    BY <1>1, <1>3, <2>1, <2>2 DEF Promise!Open, AgeOf, UsedOf
<1>6. CASE /\ InWindow(a) /\ entries[a].count < Limit
           /\ e.windowStart = entries[a].windowStart /\ e.count = entries[a].count + 1
  <2>1. AgeOf(a)' = AgeOf(a) /\ UsedOf(a)' = UsedOf(a) + 1
    BY <1>2, <1>4, <1>6 DEF AgeOf, UsedOf, InWindow, Expired
  <2>2. AgeOf(a) # -1 /\ UsedOf(a) < Limit
    BY <1>6, AgeType DEF UsedOf
  <2> QED
    BY <1>1, <1>3, <2>1, <2>2 DEF Promise!Grant, AgeOf, UsedOf
<1> QED
  BY <1>5, <1>6

\* An entry the clean-up drops has no window any more.
LEMMA CleanupIsInvisible ==
    ASSUME TimelyInv, Cleanup
    PROVE  UNCHANGED <<[a \in Addresses |-> AgeOf(a)], [a \in Addresses |-> UsedOf(a)], answer>>
<1>1. ASSUME NEW a \in Addresses
      PROVE  AgeOf(a)' = AgeOf(a) /\ UsedOf(a)' = UsedOf(a)
  <2>1. CASE entries[a] # NoEntry /\ IsIdle(entries[a])
    <3>1. ~InWindow(a)
      BY <2>1, EntryType, NumberType DEF TimelyInv, Timely, InWindow, Expired, IsIdle
    <3>2. entries'[a] = NoEntry
      BY <2>1 DEF Cleanup
    <3> QED
      BY <3>1, <3>2 DEF AgeOf, UsedOf, InWindow
  <2>2. CASE ~(entries[a] # NoEntry /\ IsIdle(entries[a]))
    <3>1. entries'[a] = entries[a] /\ now' = now
      BY <2>2 DEF Cleanup
    <3> QED
      BY <3>1 DEF AgeOf, UsedOf, InWindow, Expired
  <2> QED
    BY <2>1, <2>2
<1> QED
  BY <1>1 DEF Cleanup

\* Time passes for every window alike.
LEMMA TickRefines ==
    ASSUME TimelyInv, ClockTick
    PROVE  Promise!Pass
<1>1. entries' = entries /\ now' = now + 1 /\ answer' = answer
  BY DEF ClockTick
<1>2. ASSUME NEW a \in Addresses
      PROVE  /\ AgeOf(a)' = IF AgeOf(a) = -1 \/ AgeOf(a) >= Window THEN -1 ELSE AgeOf(a) + 1
             /\ UsedOf(a)' = IF AgeOf(a) = -1 \/ AgeOf(a) >= Window THEN 0 ELSE UsedOf(a)
  <2>1. CASE entries[a] = NoEntry
    BY <1>1, <2>1 DEF AgeOf, UsedOf, InWindow
  <2>2. CASE entries[a] # NoEntry
    BY <1>1, <2>2, EntryType, NumberType DEF TimelyInv, Timely, AgeOf, UsedOf, InWindow, Expired
  <2> QED
    BY <2>1, <2>2
<1> QED
  BY <1>1, <1>2 DEF Promise!Pass, Promise!Closing, AgeOf, UsedOf

\* Every step of the limiter is a step of the promise or leaves it alone.
LEMMA LimiterStepRefines ==
    ASSUME TimelyInv, [LimiterNext]_limiterVars
    PROVE  [Promise!Next]_(Promise!vars)
<1> USE DEF TimelyInv
<1>1. ASSUME NEW a \in Addresses, AllowFirst(a) \/ AllowExpired(a)
      PROVE  Promise!Next
  <2>1. ~InWindow(a)
    BY <1>1 DEF AllowFirst, AllowExpired, InWindow
  <2>2. NewWindow \in Entries /\ NewWindow.windowStart = now /\ NewWindow.count = 1
    BY LimitIsPositive, TimeIsNatural DEF NewWindow, Entries, LimiterTypes
  <2>3. LetThrough(a, NewWindow) /\ UNCHANGED now
    BY <1>1 DEF AllowFirst, AllowExpired
  <2> HIDE DEF NewWindow
  <2> QED
    BY <2>1, <2>2, <2>3, LetThroughRefines DEF Promise!Next
<1>2. ASSUME NEW a \in Addresses, AllowCounted(a)
      PROVE  Promise!Next
  <2> DEFINE e == [entries[a] EXCEPT !.count = @ + 1, !.lastSeen = now]
  <2>1. InWindow(a) /\ entries[a] # NoEntry /\ entries[a].count < Limit
    BY <1>2 DEF AllowCounted, InWindow
  <2>2. entries[a].count + 1 \in 1 .. Limit
    BY <2>1, EntryType, NumberType
  <2>3. /\ e \in Entries /\ e.windowStart = entries[a].windowStart
        /\ e.count = entries[a].count + 1
    BY <2>1, <2>2, EntryType DEF Entries, LimiterTypes
  <2>4. LetThrough(a, e) /\ UNCHANGED now
    BY <1>2 DEF AllowCounted
  <2> HIDE DEF e
  <2> QED
    BY <2>1, <2>3, <2>4, LetThroughRefines DEF Promise!Next
<1>3. ASSUME NEW a \in Addresses, Refuse(a)
      PROVE  Promise!Next
  <2>1. InWindow(a) /\ entries[a] # NoEntry /\ entries[a].count >= Limit
    BY <1>3 DEF Refuse, InWindow
  <2>2. AgeOf(a) # -1 /\ UsedOf(a) = Limit
    BY <2>1, AgeType, EntryType, NumberType DEF UsedOf
  <2>3. \A b \in Addresses :
            /\ entries'[b] = NoEntry <=> entries[b] = NoEntry
            /\ entries[b] # NoEntry =>
                  /\ entries'[b].windowStart = entries[b].windowStart
                  /\ entries'[b].count = entries[b].count
    <3>1. entries[a] \in Entries
      BY <2>1, EntryType
    <3>2. [entries[a] EXCEPT !.lastSeen = now] \in Entries
      BY <3>1 DEF Entries, LimiterTypes
    <3> QED
      BY <1>3, <2>1, <3>1, <3>2, NoEntryIsNone DEF Refuse, Entries, LimiterTypes
  <2>4. \A b \in Addresses : AgeOf(b)' = AgeOf(b) /\ UsedOf(b)' = UsedOf(b)
    BY <1>3, <2>3 DEF Refuse, AgeOf, UsedOf, InWindow, Expired
  <2>5. answer' = [answer EXCEPT ![a] = "TOO_MANY_REQUESTS"]
    BY <1>3 DEF Refuse
  <2>6. Promise!Refuse(a)
    BY <2>2, <2>4, <2>5 DEF Promise!Refuse, AgeOf, UsedOf
  <2> QED
    BY <2>6 DEF Promise!Next
<1>4. CASE Cleanup
  BY <1>4, CleanupIsInvisible DEF Promise!vars, AgeOf, UsedOf
<1>5. CASE ClockTick
  BY <1>5, TickRefines DEF Promise!Next
<1>6. CASE UNCHANGED limiterVars
  BY <1>6 DEF limiterVars, Promise!vars, InWindow, Expired
<1> QED
  BY <1>1, <1>2, <1>3, <1>4, <1>5, <1>6 DEF LimiterNext

\* The limiter keeps the promise for any number of addresses: a request is
\* refused only when its window is spent, and no clean-up changes an answer.
THEOREM LimiterKeepsPromise == LimiterSpec => ImplementsLoginWindow
<1>1. LimiterInit => Promise!Init
  BY DEF LimiterInit, Promise!Init, InWindow
<1>2. TimelyInv /\ [LimiterNext]_limiterVars => TimelyInv'
  BY TimelyStep
<1>3. TimelyInv /\ [LimiterNext]_limiterVars => [Promise!Next]_(Promise!vars)
  BY LimiterStepRefines
<1> QED
  BY TimelyInit, <1>1, <1>2, <1>3, PTL DEF LimiterSpec, ImplementsLoginWindow, Promise!Spec

-----------------------------------------------------------------------------
(* Legs and lines of the operation forms                                   *)

\* Cash may be left pending, nothing else.
CashTick(leg) == leg.pending => leg.format = "CASH"

GoodLegs == {leg \in Legs : CashTick(leg)}
GoodLines == {line \in Lines : CashTick(line)}

\* The format is one the list shown has for the currency, if it has any.
Fits(leg, currency) ==
    AllowedFormats(leg.list, currency) # {} => leg.format \in AllowedFormats(leg.list, currency)

LEMMA AllowedAreFormats ==
  ASSUME NEW list \in Maybe(Accounts), NEW currency \in Maybe(Currencies)
  PROVE  /\ AllowedFormats(list, currency) \subseteq Formats
         /\ AllowedFormats(list, currency) # {} =>
              /\ list \in Accounts /\ currency \in Currencies
              /\ AllowedFormats(list, currency) = Offers[list, currency]
<1>1. CASE list = "" \/ currency = ""
  BY <1>1 DEF AllowedFormats
<1>2. CASE list # "" /\ currency # ""
  <2>1. <<list, currency>> \in Accounts \X Currencies
    BY <1>2 DEF Maybe
  <2>2. Offers[list, currency] \in SUBSET {"CASH", "DIGITAL"}
    BY <2>1, FormLegsAssumption
  <2>3. QED BY <1>2, <2>1, <2>2 DEF AllowedFormats, Formats
<1>3. QED BY <1>1, <1>2

LEMMA ResolvedIsAllowed ==
  ASSUME NEW allowed \in SUBSET Formats, NEW current \in Formats
  PROVE  /\ ResolveFormat(allowed, current) \in Formats
         /\ allowed # {} => ResolveFormat(allowed, current) \in allowed
BY DEF ResolveFormat, Formats

LEMMA TypedAreNat == Typed \subseteq Nat
<1>1. Amounts \subseteq Nat \ {0}
  BY FormLegsAssumption, Zenon
<1>2. QED BY <1>1 DEF Typed

(* A leg stays one whatever its list, its account or its currency.         *)
LEMMA LegFields ==
  ASSUME NEW leg \in Legs
  PROVE  /\ leg.account \in Maybe(Accounts) /\ leg.currency \in Maybe(Currencies)
         /\ leg.format \in Formats /\ leg.amount \in Nat /\ leg.pending \in BOOLEAN
         /\ leg.list \in Maybe(Accounts) /\ leg.asked \in SUBSET Accounts
         /\ \A a \in Maybe(Accounts) : [leg EXCEPT !.list = a] \in Legs
         /\ \A s \in SUBSET Accounts : [leg EXCEPT !.asked = s] \in Legs
BY DEF Legs

LEMMA LineFields ==
  ASSUME NEW line \in Lines
  PROVE  /\ line.key \in Nat /\ line.account \in Maybe(Accounts)
         /\ line.format \in Formats /\ line.amount \in Nat /\ line.pending \in BOOLEAN
         /\ line.list \in Maybe(Accounts) /\ line.asked \in SUBSET Accounts
BY DEF Lines

LEMMA AlignedLeg ==
  ASSUME NEW leg \in Legs, NEW currency \in Maybe(Currencies)
  PROVE  /\ AlignedTo(leg, currency) \in Legs
         /\ CashTick(leg) => CashTick(AlignedTo(leg, currency))
         /\ Fits(AlignedTo(leg, currency), currency)
         /\ AlignedTo(leg, currency).amount = leg.amount
         /\ AlignedTo(leg, currency).currency = leg.currency
         /\ AlignedTo(leg, currency).list = leg.list
         /\ AlignedTo(leg, currency).account = leg.account
         /\ AlignedTo(leg, currency).asked = leg.asked
<1> DEFINE allowed == AllowedFormats(leg.list, currency)
           next == ResolveFormat(allowed, leg.format)
<1>1. /\ leg.format \in Formats
      /\ leg.list \in Maybe(Accounts)
      /\ leg.pending \in BOOLEAN
  BY LegFields
<1>2. allowed \in SUBSET Formats
  BY <1>1, AllowedAreFormats
<1>3. next \in Formats /\ (allowed # {} => next \in allowed)
  BY <1>1, <1>2, ResolvedIsAllowed
<1>4. AlignedTo(leg, currency) =
        IF allowed = {} THEN leg
        ELSE [leg EXCEPT !.format = next, !.pending = leg.pending /\ next = "CASH"]
  BY DEF AlignedTo
<1> HIDE DEF allowed, next
<1>5. CASE allowed = {}
  BY <1>4, <1>5 DEF Fits, allowed
<1>6. CASE allowed # {}
  <2>1. PICK a \in BOOLEAN : a <=> leg.pending /\ next = "CASH"
    OBVIOUS
  <2>2. AlignedTo(leg, currency) = [leg EXCEPT !.format = next, !.pending = a]
    BY <1>1, <1>4, <1>6, <2>1
  <2>3. PICK new : new = [leg EXCEPT !.format = next, !.pending = a]
    OBVIOUS
  <2>4. /\ new \in Legs
        /\ new.format = next /\ new.pending = a /\ new.list = leg.list
        /\ new.amount = leg.amount /\ new.currency = leg.currency
        /\ new.account = leg.account /\ new.asked = leg.asked
    BY <1>3, <2>3 DEF Legs
  <2>5. CashTick(new)
    BY <2>1, <2>4 DEF CashTick
  <2>6. Fits(new, currency)
    BY <1>3, <1>6, <2>4 DEF Fits, allowed
  <2>7. QED BY <2>2, <2>3, <2>4, <2>5, <2>6
<1>7. QED BY <1>5, <1>6

LEMMA AlignedLine ==
  ASSUME NEW line \in Lines, NEW currency \in Maybe(Currencies)
  PROVE  /\ AlignedTo(line, currency) \in Lines
         /\ CashTick(line) => CashTick(AlignedTo(line, currency))
         /\ Fits(AlignedTo(line, currency), currency)
         /\ AlignedTo(line, currency).amount = line.amount
         /\ AlignedTo(line, currency).key = line.key
         /\ AlignedTo(line, currency).list = line.list
         /\ AlignedTo(line, currency).account = line.account
<1> DEFINE allowed == AllowedFormats(line.list, currency)
           next == ResolveFormat(allowed, line.format)
<1>1. /\ line.format \in Formats
      /\ line.list \in Maybe(Accounts)
      /\ line.pending \in BOOLEAN
  BY LineFields
<1>2. allowed \in SUBSET Formats
  BY <1>1, AllowedAreFormats
<1>3. next \in Formats /\ (allowed # {} => next \in allowed)
  BY <1>1, <1>2, ResolvedIsAllowed
<1>4. AlignedTo(line, currency) =
        IF allowed = {} THEN line
        ELSE [line EXCEPT !.format = next, !.pending = line.pending /\ next = "CASH"]
  BY DEF AlignedTo
<1> HIDE DEF allowed, next
<1>5. CASE allowed = {}
  BY <1>4, <1>5 DEF Fits, allowed
<1>6. CASE allowed # {}
  <2>1. PICK a \in BOOLEAN : a <=> line.pending /\ next = "CASH"
    OBVIOUS
  <2>2. AlignedTo(line, currency) = [line EXCEPT !.format = next, !.pending = a]
    BY <1>1, <1>4, <1>6, <2>1
  <2>3. PICK new : new = [line EXCEPT !.format = next, !.pending = a]
    OBVIOUS
  <2>4. /\ new \in Lines
        /\ new.format = next /\ new.pending = a /\ new.list = line.list
        /\ new.amount = line.amount /\ new.key = line.key
        /\ new.account = line.account
    BY <1>3, <2>3 DEF Lines
  <2>5. CashTick(new)
    BY <2>1, <2>4 DEF CashTick
  <2>6. Fits(new, currency)
    BY <1>3, <1>6, <2>4 DEF Fits, allowed
  <2>7. QED BY <2>2, <2>3, <2>4, <2>5, <2>6
<1>7. QED BY <1>5, <1>6

(* The lists a leg asks for and receives.                                  *)
LEMMA ListsOfLeg ==
  ASSUME NEW old \in Legs, NEW new \in Legs
  PROVE  /\ ListAsked(old, new) \in Legs
         /\ CashTick(new) => CashTick(ListAsked(old, new))
         /\ ListAsked(old, new).amount = new.amount
         /\ ListAsked(old, new).currency = new.currency
         /\ ListAsked(old, new).account = new.account
         /\ ListAsked(old, new).format = new.format
<1>1. CASE new.account = old.account
  BY <1>1 DEF ListAsked
<1>2. CASE new.account # old.account /\ new.account = ""
  BY <1>2 DEF ListAsked, Legs, Maybe, CashTick
<1>3. CASE new.account # old.account /\ new.account # ""
  <2>1. ListAsked(old, new) = [new EXCEPT !.asked = new.asked \cup {new.account}]
    BY <1>3 DEF ListAsked
  <2>2. new.asked \cup {new.account} \in SUBSET Accounts
    BY <1>3 DEF Legs, Maybe
  <2>3. PICK s \in SUBSET Accounts : s = new.asked \cup {new.account}
    BY <2>2
  <2>4. PICK n : n = [new EXCEPT !.asked = s]
    OBVIOUS
  <2>5. n \in Legs /\ n.amount = new.amount /\ n.currency = new.currency
        /\ n.account = new.account /\ n.format = new.format /\ n.pending = new.pending
    BY <2>4 DEF Legs
  <2>6. QED BY <2>1, <2>3, <2>4, <2>5 DEF CashTick
<1>4. QED BY <1>1, <1>2, <1>3

LEMMA AnswersOfLeg ==
  ASSUME NEW leg \in Legs, NEW a \in Accounts, NEW ok \in BOOLEAN
  PROVE  /\ ListAnswered(leg, a, ok) \in Legs
         /\ CashTick(leg) => CashTick(ListAnswered(leg, a, ok))
         /\ ListAnswered(leg, a, ok).amount = leg.amount
<1>1. PICK l \in Maybe(Accounts) : l = IF ok THEN a ELSE ""
  BY DEF Maybe
<1>2. PICK s \in SUBSET Accounts : s = leg.asked \ {a}
  BY DEF Legs
<1>3. PICK n : n = [leg EXCEPT !.list = l, !.asked = s]
  OBVIOUS
<1>4. n = ListAnswered(leg, a, ok)
  BY <1>1, <1>2, <1>3 DEF ListAnswered
<1>5. n \in Legs /\ n.amount = leg.amount /\ n.format = leg.format /\ n.pending = leg.pending
  BY <1>3 DEF Legs
<1>6. QED BY <1>4, <1>5 DEF CashTick

LEMMA AnswersOfLine ==
  ASSUME NEW line \in Lines, NEW a \in Accounts, NEW ok \in BOOLEAN
  PROVE  /\ LineListAnswered(line, a, ok) \in Lines
         /\ CashTick(line) => CashTick(LineListAnswered(line, a, ok))
         /\ LineListAnswered(line, a, ok).amount = line.amount
         /\ LineListAnswered(line, a, ok).key = line.key
<1>1. PICK l \in Maybe(Accounts) : l = IF ok THEN a ELSE line.list
  BY LineFields DEF Maybe
<1>2. PICK s \in SUBSET Accounts : s = line.asked \ {a}
  BY DEF Lines
<1>3. PICK n : n = [line EXCEPT !.list = l, !.asked = s]
  OBVIOUS
<1>4. n = LineListAnswered(line, a, ok)
  BY <1>1, <1>2, <1>3 DEF LineListAnswered
<1>5. n \in Lines /\ n.amount = line.amount /\ n.key = line.key
      /\ n.format = line.format /\ n.pending = line.pending
  BY <1>3 DEF Lines
<1>6. QED BY <1>4, <1>5 DEF CashTick

LEMMA GoodLeg == \A leg : leg \in GoodLegs <=> leg \in Legs /\ CashTick(leg)
BY DEF GoodLegs

LEMMA GoodLine == \A line : line \in GoodLines <=> line \in Lines /\ CashTick(line)
BY DEF GoodLines

LEMMA EmptyLegIsGood == EmptyLeg \in GoodLegs
BY DEF EmptyLeg, GoodLegs, CashTick, Legs, Maybe, Formats

(* What a draft keeps of a leg, and what it gives back.                    *)
LEMMA KeptLeg ==
  ASSUME NEW leg \in GoodLegs
  PROVE  Kept(leg) \in GoodLegs
BY DEF Kept, GoodLegs, CashTick, Legs, Maybe

LEMMA RefilledLeg ==
  ASSUME NEW leg \in Legs, NEW kept \in GoodLegs
  PROVE  Refilled(leg, kept) \in GoodLegs
BY DEF Refilled, GoodLegs, CashTick, Legs

LEMMA ClearedLeg ==
  ASSUME NEW leg \in Legs
  PROVE  [EmptyLeg EXCEPT !.asked = leg.asked] \in GoodLegs
BY DEF EmptyLeg, GoodLegs, CashTick, Legs, Maybe, Formats

(* What a user may do to a leg.                                            *)
LEMMA LegInputsAreGood ==
  ASSUME NEW leg \in GoodLegs
  PROVE  /\ \A accounts \in SUBSET Accounts : AccountsFor(leg, accounts) \subseteq GoodLegs
         /\ \A currencies \in SUBSET Currencies : CurrenciesFor(leg, currencies) \subseteq GoodLegs
         /\ \A currency \in Maybe(Currencies) : FormatsFor(leg, currency) \subseteq GoodLegs
         /\ AmountsFor(leg) \subseteq GoodLegs
         /\ TicksFor(leg) \subseteq GoodLegs
         /\ LegInputs(leg) \subseteq GoodLegs
<1>1. leg \in Legs /\ CashTick(leg)
  BY DEF GoodLegs
<1>2. ASSUME NEW accounts \in SUBSET Accounts
      PROVE  AccountsFor(leg, accounts) \subseteq GoodLegs
  <2>1. SUFFICES ASSUME NEW a \in Maybe(Accounts)
                 PROVE  [leg EXCEPT !.account = a, !.currency = ""] \in GoodLegs
    BY DEF AccountsFor, Maybe
  <2>2. PICK new : new = [leg EXCEPT !.account = a, !.currency = ""]
    OBVIOUS
  <2>3. new \in Legs /\ new.format = leg.format /\ new.pending = leg.pending
    BY <1>1, <2>2 DEF Legs, Maybe
  <2>4. QED BY <1>1, <2>2, <2>3 DEF GoodLegs, CashTick
<1>3. ASSUME NEW currencies \in SUBSET Currencies
      PROVE  CurrenciesFor(leg, currencies) \subseteq GoodLegs
  <2>1. SUFFICES ASSUME NEW c \in Maybe(Currencies)
                 PROVE  [leg EXCEPT !.currency = c] \in GoodLegs
    BY DEF CurrenciesFor, Maybe
  <2>2. PICK new : new = [leg EXCEPT !.currency = c]
    OBVIOUS
  <2>3. new \in Legs /\ new.format = leg.format /\ new.pending = leg.pending
    BY <1>1, <2>2 DEF Legs, Maybe
  <2>4. QED BY <1>1, <2>2, <2>3 DEF GoodLegs, CashTick
<1>4. ASSUME NEW currency \in Maybe(Currencies)
      PROVE  FormatsFor(leg, currency) \subseteq GoodLegs
  <2>1. SUFFICES ASSUME NEW f \in AllowedFormats(leg.list, currency)
                 PROVE  [leg EXCEPT !.format = f, !.pending = leg.pending /\ f = "CASH"] \in GoodLegs
    BY DEF FormatsFor
  <2>2. f \in Formats
    BY <1>1, LegFields, AllowedAreFormats
  <2>3. PICK a \in BOOLEAN : a <=> leg.pending /\ f = "CASH"
    OBVIOUS
  <2>4. [leg EXCEPT !.format = f, !.pending = leg.pending /\ f = "CASH"]
          = [leg EXCEPT !.format = f, !.pending = a]
    BY <1>1, <2>3, LegFields
  <2>5. PICK new : new = [leg EXCEPT !.format = f, !.pending = a]
    OBVIOUS
  <2>6. new \in Legs /\ new.format = f /\ new.pending = a
    BY <1>1, <2>2, <2>5 DEF Legs
  <2>7. new \in GoodLegs
    BY <2>3, <2>6 DEF GoodLegs, CashTick
  <2>8. QED BY <2>4, <2>5, <2>7
<1>5. AmountsFor(leg) \subseteq GoodLegs
  <2>1. SUFFICES ASSUME NEW x \in Typed PROVE [leg EXCEPT !.amount = x] \in GoodLegs
    BY DEF AmountsFor
  <2>2. x \in Nat
    BY TypedAreNat
  <2>3. QED BY <1>1, <2>2 DEF GoodLegs, Legs, CashTick
<1>6. TicksFor(leg) \subseteq GoodLegs
  BY <1>1 DEF TicksFor, GoodLegs, Legs, CashTick
<1>7. Shown(leg.list) \in SUBSET Currencies
  BY DEF Shown
<1>8. LegInputs(leg) \subseteq GoodLegs
  <2>1. leg.currency \in Maybe(Currencies)
    BY <1>1, LegFields
  <2>2. QED BY <1>2, <1>3, <1>4, <1>5, <1>7, <2>1 DEF LegInputs
<1>9. QED BY <1>2, <1>3, <1>4, <1>5, <1>6, <1>8

(* ... and to a line, whose currency is that of the quote.                 *)
LEMMA LineInputsAreGood ==
  ASSUME NEW line \in GoodLines
  PROVE  /\ \A new \in LineAccounts(line) : /\ new \in GoodLines /\ new.key = line.key
                                            /\ new.amount = line.amount
         /\ \A new \in TicksFor(line) : /\ new \in GoodLines /\ new.key = line.key
                                        /\ new.amount = line.amount
         /\ \A currency \in Maybe(Currencies) : \A new \in FormatsFor(line, currency) :
               new \in GoodLines /\ new.key = line.key /\ new.amount = line.amount
         /\ \A new \in AmountsFor(line) : new \in GoodLines /\ new.key = line.key
<1>1. line \in Lines /\ CashTick(line)
  BY DEF GoodLines
<1>2. \A new \in LineAccounts(line) : /\ new \in GoodLines /\ new.key = line.key
                                      /\ new.amount = line.amount
  BY <1>1 DEF LineAccounts, GoodLines, Lines, CashTick, Maybe
<1>3. \A new \in TicksFor(line) : /\ new \in GoodLines /\ new.key = line.key
                                  /\ new.amount = line.amount
  BY <1>1 DEF TicksFor, GoodLines, Lines, CashTick
<1>4. ASSUME NEW currency \in Maybe(Currencies), NEW new \in FormatsFor(line, currency)
      PROVE  new \in GoodLines /\ new.key = line.key /\ new.amount = line.amount
  <2>1. PICK f \in AllowedFormats(line.list, currency) :
               new = [line EXCEPT !.format = f, !.pending = line.pending /\ f = "CASH"]
    BY DEF FormatsFor
  <2>2. f \in Formats
    BY <1>1, LineFields, AllowedAreFormats
  <2>3. PICK a \in BOOLEAN : a <=> line.pending /\ f = "CASH"
    OBVIOUS
  <2>4. new = [line EXCEPT !.format = f, !.pending = a]
    BY <1>1, <2>1, <2>3, LineFields
  <2>5. /\ new \in Lines /\ new.format = f /\ new.pending = a
        /\ new.key = line.key /\ new.amount = line.amount
    BY <1>1, <2>2, <2>4 DEF Lines
  <2>6. QED BY <2>3, <2>5 DEF GoodLines, CashTick
<1>5. \A new \in AmountsFor(line) : new \in GoodLines /\ new.key = line.key
  <2>1. SUFFICES ASSUME NEW x \in Typed, NEW new, new = [line EXCEPT !.amount = x]
                 PROVE  new \in GoodLines /\ new.key = line.key
    BY DEF AmountsFor
  <2>2. x \in Nat
    BY TypedAreNat
  <2>3. QED BY <1>1, <2>1, <2>2 DEF GoodLines, Lines, CashTick
<1>6. QED BY <1>2, <1>3, <1>4, <1>5

-----------------------------------------------------------------------------
(* The legs of a form                                                      *)

LEMMA LegsAfterRender ==
  ASSUME NEW n \in Nat, NEW old \in [1..n -> Legs], NEW new \in [1..n -> GoodLegs]
  PROVE  /\ LegsRendered(old, new) \in [1..n -> GoodLegs]
         /\ \A i \in 1..n : /\ Fits(LegsRendered(old, new)[i], LegsRendered(old, new)[i].currency)
                            /\ LegsRendered(old, new)[i].amount = new[i].amount
<1> DEFINE asked(i) == ListAsked(old[i], new[i])
           rendered == [i \in 1..n |-> AlignedTo(asked(i), asked(i).currency)]
<1>1. LegsRendered(old, new) = rendered
  BY DEF LegsRendered, Aligned
<1>2. ASSUME NEW i \in 1..n
      PROVE  /\ rendered[i] \in GoodLegs
             /\ Fits(rendered[i], rendered[i].currency)
             /\ rendered[i].amount = new[i].amount
  <2>1. /\ old[i] \in Legs
        /\ new[i] \in Legs
        /\ CashTick(new[i])
    BY GoodLeg
  <2>2. PICK leg : leg = asked(i)
    OBVIOUS
  <2>3. leg \in Legs /\ CashTick(leg) /\ leg.amount = new[i].amount
    BY <2>1, <2>2, ListsOfLeg
  <2>4. leg.currency \in Maybe(Currencies)
    BY <2>3, LegFields
  <2>5. rendered[i] = AlignedTo(leg, leg.currency)
    BY <2>2
  <2> HIDE DEF rendered
  <2>6. /\ AlignedTo(leg, leg.currency) \in Legs
        /\ CashTick(AlignedTo(leg, leg.currency))
        /\ Fits(AlignedTo(leg, leg.currency), leg.currency)
        /\ AlignedTo(leg, leg.currency).amount = leg.amount
        /\ AlignedTo(leg, leg.currency).currency = leg.currency
    BY <2>3, <2>4, AlignedLeg
  <2>7. QED BY <2>3, <2>5, <2>6, GoodLeg
<1>3. rendered \in [1..n -> GoodLegs]
  BY <1>2
<1> HIDE DEF rendered
<1>4. QED BY <1>1, <1>2, <1>3

LEMMA LegsOfDraft ==
  ASSUME NEW n \in Nat, NEW legs \in [1..n -> Legs], NEW good \in [1..n -> GoodLegs]
  PROVE  /\ LegsKept(good) \in [1..n -> GoodLegs]
         /\ LegsRefilled(legs, good) \in [1..n -> GoodLegs]
         /\ LegsCleared(legs) \in [1..n -> GoodLegs]
<1>1. ASSUME NEW i \in 1..n
      PROVE  /\ Kept(good[i]) \in GoodLegs
             /\ Refilled(legs[i], good[i]) \in GoodLegs
             /\ [EmptyLeg EXCEPT !.asked = legs[i].asked] \in GoodLegs
  <2>1. legs[i] \in Legs /\ good[i] \in GoodLegs
    OBVIOUS
  <2>2. QED BY <2>1, KeptLeg, RefilledLeg, ClearedLeg
<1>2. DOMAIN good = 1..n /\ DOMAIN legs = 1..n
  OBVIOUS
<1>3. QED BY <1>1, <1>2 DEF LegsKept, LegsRefilled, LegsCleared

LEMMA GoodLegsAreLegs == \A n \in Nat : [1..n -> GoodLegs] \subseteq [1..n -> Legs]
BY DEF GoodLegs

(* One leg replaced.                                                       *)
LEMMA LegReplaced ==
  ASSUME NEW n \in Nat, NEW legs \in [1..n -> GoodLegs], NEW i \in 1..n, NEW leg \in GoodLegs
  PROVE  [legs EXCEPT ![i] = leg] \in [1..n -> GoodLegs]
OBVIOUS

-----------------------------------------------------------------------------
(* The forms whose legs are all they keep consistent                       *)

GoodCapital == [legs : [1..1 -> GoodLegs], lines : {<<>>}, note : BOOLEAN]
GoodPago == [legs : [1..1 -> GoodLegs], lines : {<<>>}, mode : {"ENTRA", "SALE"},
             debt : Maybe(Currencies), cancel : Nat]
GoodCuentas == [legs : [1..2 -> GoodLegs], lines : {<<>>}]
GoodArbitraje == [legs : [1..3 -> GoodLegs], lines : {<<>>}, override : BOOLEAN, clients : BOOLEAN]

LEMMA CapitalBlankIsGood == CapitalBlank \in GoodCapital
<1>1. <<EmptyLeg>> \in [1..1 -> GoodLegs]
  BY EmptyLegIsGood
<1>2. QED BY <1>1 DEF CapitalBlank, GoodCapital

LEMMA CapitalIsGood ==
  ASSUME NEW old \in CapitalForm, NEW f \in GoodCapital
  PROVE  /\ IngresoInputs(f) \subseteq GoodCapital
         /\ IngresoData(f) \in GoodCapital
         /\ IngresoRestored(old, f) \in GoodCapital
         /\ IngresoCleared(old) \in GoodCapital
         /\ IngresoRendered(old, f) \in GoodCapital
         /\ LET g == IngresoRendered(old, f)
            IN Fits(g.legs[1], g.legs[1].currency) /\ g.legs[1].amount = f.legs[1].amount
<1>1. /\ old.legs \in [1..1 -> Legs]
      /\ f.legs \in [1..1 -> GoodLegs] /\ f.legs[1] \in GoodLegs
      /\ f.lines = <<>> /\ f.note \in BOOLEAN
  BY DEF CapitalForm, GoodCapital
<1>2. ASSUME NEW legs \in [1..1 -> GoodLegs]
      PROVE  /\ [f EXCEPT !.legs = legs] \in GoodCapital
             /\ [f EXCEPT !.legs = legs].legs = legs
  BY DEF GoodCapital
<1>3. IngresoInputs(f) \subseteq GoodCapital
  <2>1. SUFFICES ASSUME NEW g \in IngresoInputs(f) PROVE g \in GoodCapital
    OBVIOUS
  <2>2. CASE g = [f EXCEPT !.note = ~f.note]
    BY <1>1, <2>2 DEF GoodCapital
  <2>3. CASE \E leg \in LegInputs(f.legs[1]) : g = [f EXCEPT !.legs[1] = leg]
    <3>1. PICK leg \in GoodLegs : g = [f EXCEPT !.legs[1] = leg]
      BY <1>1, <2>3, LegInputsAreGood
    <3>2. g = [f EXCEPT !.legs = [f.legs EXCEPT ![1] = leg]]
      BY <3>1
    <3>3. [f.legs EXCEPT ![1] = leg] \in [1..1 -> GoodLegs]
      BY <1>1
    <3>4. QED BY <1>2, <3>2, <3>3
  <2>4. QED BY <2>1, <2>2, <2>3 DEF IngresoInputs
<1>4. IngresoData(f) \in GoodCapital /\ IngresoRestored(old, f) \in GoodCapital
  <2>1. LegsKept(f.legs) \in [1..1 -> GoodLegs] /\ LegsRefilled(old.legs, f.legs) \in [1..1 -> GoodLegs]
    BY <1>1, LegsOfDraft
  <2>2. QED BY <1>2, <2>1 DEF IngresoData, IngresoRestored
<1>5. IngresoCleared(old) \in GoodCapital
  <2>1. LegsCleared(old.legs) \in [1..1 -> GoodLegs]
    BY <1>1, LegsOfDraft
  <2>2. QED BY <2>1, CapitalBlankIsGood DEF IngresoCleared, GoodCapital
<1>6. /\ LegsRendered(old.legs, f.legs) \in [1..1 -> GoodLegs]
      /\ LET leg == LegsRendered(old.legs, f.legs)[1]
         IN Fits(leg, leg.currency) /\ leg.amount = f.legs[1].amount
  <2>1. 1 \in Nat /\ 1 \in 1..1
    OBVIOUS
  <2>2. /\ LegsRendered(old.legs, f.legs) \in [1..1 -> GoodLegs]
        /\ \A i \in 1..1 : /\ Fits(LegsRendered(old.legs, f.legs)[i],
                                    LegsRendered(old.legs, f.legs)[i].currency)
                           /\ LegsRendered(old.legs, f.legs)[i].amount = f.legs[i].amount
    BY <1>1, <2>1, LegsAfterRender
  <2>3. QED BY <2>1, <2>2
<1>7. QED BY <1>2, <1>3, <1>4, <1>5, <1>6 DEF IngresoRendered

(* A withdrawal does not align its format.                                 *)
LEMMA RetiroIsGood ==
  ASSUME NEW old \in CapitalForm, NEW f \in GoodCapital
  PROVE  /\ RetiroRendered(old, f) \in GoodCapital
         /\ RetiroRendered(old, f).legs[1].amount = f.legs[1].amount
<1>1. /\ old.legs[1] \in Legs
      /\ f.legs[1] \in Legs /\ CashTick(f.legs[1])
  BY DEF CapitalForm, GoodCapital, GoodLegs
<1>2. PICK leg : leg = ListAsked(old.legs[1], f.legs[1])
  OBVIOUS
<1>3. leg \in GoodLegs /\ leg.amount = f.legs[1].amount
  BY <1>1, <1>2, ListsOfLeg, GoodLeg
<1>4. <<leg>> \in [1..1 -> GoodLegs] /\ <<leg>>[1] = leg
  BY <1>3
<1>5. RetiroRendered(old, f) = [f EXCEPT !.legs = <<leg>>]
  BY <1>2 DEF RetiroRendered
<1>6. QED BY <1>3, <1>4, <1>5 DEF GoodCapital

LEMMA PagoBlankIsGood == PagoBlank \in GoodPago
<1>1. <<EmptyLeg>> \in [1..1 -> GoodLegs]
  BY EmptyLegIsGood
<1>2. QED BY <1>1 DEF PagoBlank, GoodPago, Maybe

LEMMA PagoIsGood ==
  ASSUME NEW old \in PagoForm, NEW f \in GoodPago
  PROVE  /\ PagoInputs(f) \subseteq GoodPago
         /\ PagoData(f) \in GoodPago
         /\ PagoRestored(old, f) \in GoodPago
         /\ PagoCleared(old) \in GoodPago
         /\ PagoRendered(old, f) \in GoodPago
         /\ LET g == PagoRendered(old, f)
            IN Fits(g.legs[1], g.legs[1].currency) /\ g.legs[1].amount = f.legs[1].amount
<1>1. /\ old.legs \in [1..1 -> Legs]
      /\ f.legs \in [1..1 -> GoodLegs] /\ f.legs[1] \in GoodLegs
  BY DEF PagoForm, GoodPago
<1>2. ASSUME NEW legs \in [1..1 -> GoodLegs]
      PROVE  /\ [f EXCEPT !.legs = legs] \in GoodPago
             /\ [f EXCEPT !.legs = legs].legs = legs
  BY DEF GoodPago
<1>3. PagoInputs(f) \subseteq GoodPago
  <2>1. SUFFICES ASSUME NEW g \in PagoInputs(f) PROVE g \in GoodPago
    OBVIOUS
  <2>2. CASE \E leg \in LegInputs(f.legs[1]) : g = [f EXCEPT !.legs[1] = leg]
    <3>1. PICK leg \in GoodLegs : g = [f EXCEPT !.legs[1] = leg]
      BY <1>1, <2>2, LegInputsAreGood
    <3>2. g = [f EXCEPT !.legs = [f.legs EXCEPT ![1] = leg]]
      BY <3>1
    <3>3. [f.legs EXCEPT ![1] = leg] \in [1..1 -> GoodLegs]
      BY <1>1
    <3>4. QED BY <1>2, <3>2, <3>3
  <2>3. CASE \E c \in Maybe(Currencies) : g = [f EXCEPT !.debt = c]
    BY <2>3 DEF GoodPago
  <2>4. CASE \E x \in Typed : g = [f EXCEPT !.cancel = x]
    BY <2>4, TypedAreNat DEF GoodPago
  <2>5. CASE \E m \in {"ENTRA", "SALE"} : g = [f EXCEPT !.mode = m]
    BY <2>5 DEF GoodPago
  <2>6. QED BY <2>1, <2>2, <2>3, <2>4, <2>5 DEF PagoInputs
<1>4. PagoData(f) \in GoodPago /\ PagoRestored(old, f) \in GoodPago
  <2>1. LegsKept(f.legs) \in [1..1 -> GoodLegs] /\ LegsRefilled(old.legs, f.legs) \in [1..1 -> GoodLegs]
    BY <1>1, LegsOfDraft
  <2>2. QED BY <1>2, <2>1 DEF PagoData, PagoRestored
<1>5. PagoCleared(old) \in GoodPago
  <2>1. LegsCleared(old.legs) \in [1..1 -> GoodLegs]
    BY <1>1, LegsOfDraft
  <2>2. QED BY <2>1, PagoBlankIsGood DEF PagoCleared, GoodPago
<1>6. /\ LegsRendered(old.legs, f.legs) \in [1..1 -> GoodLegs]
      /\ LET leg == LegsRendered(old.legs, f.legs)[1]
         IN Fits(leg, leg.currency) /\ leg.amount = f.legs[1].amount
  <2>1. 1 \in Nat /\ 1 \in 1..1
    OBVIOUS
  <2>2. /\ LegsRendered(old.legs, f.legs) \in [1..1 -> GoodLegs]
        /\ \A i \in 1..1 : /\ Fits(LegsRendered(old.legs, f.legs)[i],
                                    LegsRendered(old.legs, f.legs)[i].currency)
                           /\ LegsRendered(old.legs, f.legs)[i].amount = f.legs[i].amount
    BY <1>1, <2>1, LegsAfterRender
  <2>3. QED BY <2>1, <2>2
<1>7. QED BY <1>2, <1>3, <1>4, <1>5, <1>6 DEF PagoRendered

LEMMA TraspasoIsGood ==
  ASSUME NEW f \in TraspasoForm
  PROVE  /\ TraspasoBlank \in TraspasoForm
         /\ TraspasoInputs(f) \subseteq TraspasoForm
<1>1. TraspasoBlank \in TraspasoForm
  BY DEF TraspasoBlank, TraspasoForm, Maybe
<1>2. TraspasoInputs(f) \subseteq TraspasoForm
  <2>1. SUFFICES ASSUME NEW g \in TraspasoInputs(f) PROVE g \in TraspasoForm
    OBVIOUS
  <2>2. CASE \E c \in Maybe(Clients) : g = [f EXCEPT !.client = c]
    BY <2>2 DEF TraspasoForm
  <2>3. CASE \E c \in Maybe(Currencies) : g = [f EXCEPT !.currency = c]
    BY <2>3 DEF TraspasoForm
  <2>4. CASE \E x \in Typed : g = [f EXCEPT !.amount = x]
    BY <2>4, TypedAreNat DEF TraspasoForm
  <2>5. CASE g = [f EXCEPT !.note = ~f.note]
    BY <2>5 DEF TraspasoForm
  <2>6. QED BY <2>1, <2>2, <2>3, <2>4, <2>5 DEF TraspasoInputs, Maybe
<1>3. QED BY <1>1, <1>2

LEMMA CuentasBlankIsGood == CuentasBlank \in GoodCuentas
<1>1. <<EmptyLeg, EmptyLeg>> \in [1..2 -> GoodLegs]
  BY EmptyLegIsGood
<1>2. QED BY <1>1 DEF CuentasBlank, GoodCuentas

LEMMA CuentasIsGood ==
  ASSUME NEW old \in CuentasForm, NEW f \in GoodCuentas
  PROVE  /\ CuentasInputs(f) \subseteq GoodCuentas
         /\ CuentasData(f) \in GoodCuentas
         /\ CuentasRestored(old, f) \in GoodCuentas
         /\ CuentasCleared(old) \in GoodCuentas
         /\ CuentasRendered(old, f) \in GoodCuentas
         /\ LET g == CuentasRendered(old, f)
            IN \A i \in 1..2 : /\ Fits(g.legs[i], g.legs[1].currency)
                               /\ g.legs[i].amount = f.legs[i].amount
<1>1. /\ old.legs \in [1..2 -> Legs] /\ old.legs[1] \in Legs /\ old.legs[2] \in Legs
      /\ f.legs \in [1..2 -> GoodLegs] /\ f.legs[1] \in GoodLegs /\ f.legs[2] \in GoodLegs
  BY DEF CuentasForm, GoodCuentas
<1>2. ASSUME NEW legs \in [1..2 -> GoodLegs]
      PROVE  /\ [f EXCEPT !.legs = legs] \in GoodCuentas
             /\ [f EXCEPT !.legs = legs].legs = legs
  BY DEF GoodCuentas
<1>3. CuentasInputs(f) \subseteq GoodCuentas
  <2>1. SUFFICES ASSUME NEW g \in CuentasInputs(f) PROVE g \in GoodCuentas
    OBVIOUS
  <2>2. f.legs[1].currency \in Maybe(Currencies)
    BY <1>1, LegFields, GoodLeg
  <2>3. \E i \in 1..2 : \E leg \in GoodLegs : g = [f EXCEPT !.legs[i] = leg]
    <3>1. CASE \E leg \in LegInputs(f.legs[1]) : g = [f EXCEPT !.legs[1] = leg]
      BY <1>1, <3>1, LegInputsAreGood
    <3>2. CASE \E leg \in AccountsFor(f.legs[2], Accounts \ {f.legs[1].account}) :
                  g = [f EXCEPT !.legs[2] = leg]
      <4>1. Accounts \ {f.legs[1].account} \in SUBSET Accounts
        OBVIOUS
      <4>2. PICK leg \in AccountsFor(f.legs[2], Accounts \ {f.legs[1].account}) :
                  g = [f EXCEPT !.legs[2] = leg]
        BY <3>2
      <4>3. leg \in GoodLegs
        BY <1>1, <4>1, <4>2, LegInputsAreGood
      <4>4. QED BY <4>2, <4>3
    <3>3. CASE \E leg \in FormatsFor(f.legs[2], f.legs[1].currency) :
                  g = [f EXCEPT !.legs[2] = leg]
      BY <1>1, <2>2, <3>3, LegInputsAreGood
    <3>4. QED BY <2>1, <3>1, <3>2, <3>3 DEF CuentasInputs
  <2>4. PICK i \in 1..2, leg \in GoodLegs : g = [f EXCEPT !.legs[i] = leg]
    BY <2>3
  <2>5. g = [f EXCEPT !.legs = [f.legs EXCEPT ![i] = leg]]
    BY <2>4
  <2>6. [f.legs EXCEPT ![i] = leg] \in [1..2 -> GoodLegs]
    BY <1>1
  <2>7. QED BY <1>2, <2>5, <2>6
<1>4. CuentasData(f) \in GoodCuentas /\ CuentasRestored(old, f) \in GoodCuentas
  <2>1. LegsKept(f.legs) \in [1..2 -> GoodLegs] /\ LegsRefilled(old.legs, f.legs) \in [1..2 -> GoodLegs]
    BY <1>1, LegsOfDraft
  <2>2. QED BY <1>2, <2>1 DEF CuentasData, CuentasRestored
<1>5. CuentasCleared(old) \in GoodCuentas
  <2>1. LegsCleared(old.legs) \in [1..2 -> GoodLegs]
    BY <1>1, LegsOfDraft
  <2>2. QED BY <2>1, CuentasBlankIsGood DEF CuentasCleared, GoodCuentas
<1>6. PICK from, to : /\ from = ListAsked(old.legs[1], f.legs[1])
                      /\ to = ListAsked(old.legs[2], f.legs[2])
  OBVIOUS
<1>7. /\ from \in Legs /\ CashTick(from)
      /\ to \in Legs /\ CashTick(to)
      /\ from.amount = f.legs[1].amount /\ to.amount = f.legs[2].amount
      /\ from.currency = f.legs[1].currency /\ from.currency \in Maybe(Currencies)
  BY <1>1, <1>6, ListsOfLeg, LegFields, GoodLeg
<1>8. PICK a, b : a = AlignedTo(from, from.currency) /\ b = AlignedTo(to, from.currency)
  OBVIOUS
<1>9. /\ a \in GoodLegs /\ Fits(a, from.currency)
      /\ a.amount = f.legs[1].amount /\ a.currency = from.currency
      /\ b \in GoodLegs /\ Fits(b, from.currency)
      /\ b.amount = f.legs[2].amount
  BY <1>7, <1>8, AlignedLeg, GoodLeg
<1>10. CuentasRendered(old, f) = [f EXCEPT !.legs = <<a, b>>]
  BY <1>6, <1>7, <1>8 DEF CuentasRendered, Aligned
<1>11. <<a, b>> \in [1..2 -> GoodLegs]
  BY <1>9
<1>12. CuentasRendered(old, f) \in GoodCuentas /\ CuentasRendered(old, f).legs = <<a, b>>
  BY <1>2, <1>10, <1>11
<1>13. LET g == CuentasRendered(old, f)
       IN \A i \in 1..2 : /\ Fits(g.legs[i], g.legs[1].currency)
                          /\ g.legs[i].amount = f.legs[i].amount
  BY <1>9, <1>12
<1>14. QED BY <1>3, <1>4, <1>5, <1>12, <1>13

LEMMA ArbitrajeBlankIsGood == ArbitrajeBlank \in GoodArbitraje
<1>1. <<EmptyLeg, EmptyLeg, EmptyLeg>> \in [1..3 -> GoodLegs]
  BY EmptyLegIsGood
<1>2. QED BY <1>1 DEF ArbitrajeBlank, GoodArbitraje

(* The profit takes the currency collected; no amount changes.             *)
LEMMA ProfitCurrencyIsGood ==
  ASSUME NEW old \in ArbitrajeForm, NEW f \in GoodArbitraje
  PROVE  /\ ProfitCurrency(old, f) \in GoodArbitraje
         /\ \A i \in 1..3 : ProfitCurrency(old, f).legs[i].amount = f.legs[i].amount
<1>1. /\ f.legs \in [1..3 -> GoodLegs]
      /\ f.legs[2] \in GoodLegs /\ f.legs[3] \in GoodLegs
  BY DEF GoodArbitraje
<1>2. PICK c : c = f.legs[2].currency
  OBVIOUS
<1>3. c \in Maybe(Currencies)
  BY <1>1, <1>2, LegFields, GoodLeg
<1>4. PICK leg : leg = [f.legs[3] EXCEPT !.currency = c]
  OBVIOUS
<1>5. leg \in GoodLegs /\ leg.amount = f.legs[3].amount
  BY <1>1, <1>3, <1>4 DEF GoodLegs, Legs, CashTick
<1>6. PICK legs : legs = [f.legs EXCEPT ![3] = leg]
  OBVIOUS
<1>7. legs \in [1..3 -> GoodLegs] /\ \A i \in 1..3 : legs[i].amount = f.legs[i].amount
  BY <1>1, <1>5, <1>6
<1>8. [f EXCEPT !.legs[3].currency = c] = [f EXCEPT !.legs = legs]
  BY <1>4, <1>6
<1>9. [f EXCEPT !.legs = legs] \in GoodArbitraje /\ [f EXCEPT !.legs = legs].legs = legs
  BY <1>7 DEF GoodArbitraje
<1>10. ProfitCurrency(old, f) = f \/ ProfitCurrency(old, f) = [f EXCEPT !.legs = legs]
  BY <1>2, <1>8 DEF ProfitCurrency
<1>11. QED BY <1>7, <1>9, <1>10

LEMMA ArbitrajeInputsAreGood ==
  ASSUME NEW f \in GoodArbitraje
  PROVE  ArbitrajeInputs(f) \subseteq GoodArbitraje
<1>1. /\ f.legs \in [1..3 -> GoodLegs]
      /\ f.legs[1] \in GoodLegs /\ f.legs[2] \in GoodLegs /\ f.legs[3] \in GoodLegs
  BY DEF GoodArbitraje
<1>2. ASSUME NEW i \in 1..3, NEW leg \in GoodLegs
      PROVE  /\ [f EXCEPT !.legs[i] = leg] \in GoodArbitraje
             /\ \A b \in BOOLEAN : [f EXCEPT !.legs[i] = leg, !.override = b] \in GoodArbitraje
  <2>1. PICK legs : legs = [f.legs EXCEPT ![i] = leg]
    OBVIOUS
  <2>2. legs \in [1..3 -> GoodLegs]
    BY <1>1, <2>1
  <2>3. [f EXCEPT !.legs[i] = leg] = [f EXCEPT !.legs = legs]
    BY <2>1
  <2>4. \A b : [f EXCEPT !.legs[i] = leg, !.override = b] = [f EXCEPT !.legs = legs, !.override = b]
    BY <2>1
  <2>5. QED BY <2>2, <2>3, <2>4 DEF GoodArbitraje
<1> 1 \in 1..3 /\ 2 \in 1..3 /\ 3 \in 1..3
  OBVIOUS
<1>3. SUFFICES ASSUME NEW g \in ArbitrajeInputs(f) PROVE g \in GoodArbitraje
  OBVIOUS
<1>4. CASE \E leg \in LegInputs(f.legs[1]) \cup TicksFor(f.legs[1]) : g = [f EXCEPT !.legs[1] = leg]
  <2>1. PICK leg \in LegInputs(f.legs[1]) \cup TicksFor(f.legs[1]) : g = [f EXCEPT !.legs[1] = leg]
    BY <1>4
  <2>2. leg \in GoodLegs
    BY <1>1, <2>1, LegInputsAreGood
  <2>3. QED BY <1>2, <2>1, <2>2, Zenon
<1>5. CASE \E leg \in LegInputs(f.legs[2]) \cup TicksFor(f.legs[2]) : g = [f EXCEPT !.legs[2] = leg]
  <2>1. PICK leg \in LegInputs(f.legs[2]) \cup TicksFor(f.legs[2]) : g = [f EXCEPT !.legs[2] = leg]
    BY <1>5
  <2>2. leg \in GoodLegs
    BY <1>1, <2>1, LegInputsAreGood
  <2>3. QED BY <1>2, <2>1, <2>2, Zenon
<1>6. CASE \E leg \in ProfitPlaces(f.legs[3]) : g = [f EXCEPT !.legs[3] = leg]
  <2>1. PICK leg \in ProfitPlaces(f.legs[3]) : g = [f EXCEPT !.legs[3] = leg]
    BY <1>6
  <2>2. leg \in GoodLegs
    <3>1. CASE \E a \in Maybe(Accounts) : leg = [f.legs[3] EXCEPT !.account = a]
      <4>1. PICK a \in Maybe(Accounts) : leg = [f.legs[3] EXCEPT !.account = a]
        BY <3>1
      <4>2. QED BY <1>1, <4>1 DEF GoodLegs, Legs, CashTick
    <3>2. CASE leg \in FormatsFor(f.legs[3], f.legs[3].currency)
      <4>1. f.legs[3].currency \in Maybe(Currencies)
        BY <1>1, LegFields, GoodLeg
      <4>2. QED BY <1>1, <3>2, <4>1, LegInputsAreGood
    <3>3. CASE \E S \in SUBSET Currencies : leg \in CurrenciesFor(f.legs[3], S)
      BY <1>1, <3>3, LegInputsAreGood
    <3>4. Shown(f.legs[3].list) \in SUBSET Currencies /\ Currencies \in SUBSET Currencies
      BY DEF Shown
    <3>5. PICK S \in SUBSET Currencies :
                 S = IF Shown(f.legs[3].list) = {} THEN Currencies ELSE Shown(f.legs[3].list)
      BY <3>4
    <3>6. QED BY <2>1, <3>1, <3>2, <3>3, <3>5 DEF ProfitPlaces
  <2>3. QED BY <1>2, <2>1, <2>2, Zenon
<1>7. CASE g \in ProfitAmounts(f)
  <2>1. PICK leg \in AmountsFor(f.legs[3]) :
          g = [f EXCEPT !.legs[3] = leg,
                        !.override = IF SameCurrency(f) THEN leg.amount > 0 ELSE f.override]
    BY <1>7 DEF ProfitAmounts
  <2>2. leg \in GoodLegs
    BY <1>1, <2>1, LegInputsAreGood
  <2>3. f.override \in BOOLEAN /\ (leg.amount > 0) \in BOOLEAN
    BY DEF GoodArbitraje
  <2>4. (IF SameCurrency(f) THEN leg.amount > 0 ELSE f.override) \in BOOLEAN
    BY <2>3, Zenon
  <2>5. QED BY <1>2, <2>1, <2>2, <2>4, Zenon
<1>8. CASE g \in ProfitAutomatic(f)
  <2>1. g = [f EXCEPT !.override = FALSE, !.legs[3].amount = 0]
    BY <1>8 DEF ProfitAutomatic
  <2>2. PICK leg : leg = [f.legs[3] EXCEPT !.amount = 0]
    OBVIOUS
  <2>3. leg \in GoodLegs
    BY <1>1, <2>2 DEF GoodLegs, Legs, CashTick
  <2>4. PICK legs : legs = [f.legs EXCEPT ![3] = leg]
    OBVIOUS
  <2>5. legs \in [1..3 -> GoodLegs]
    BY <1>1, <2>3, <2>4
  <2>6. g = [f EXCEPT !.override = FALSE, !.legs = legs]
    BY <2>1, <2>2, <2>4 DEF GoodArbitraje
  <2>7. QED BY <2>5, <2>6 DEF GoodArbitraje
<1>9. CASE g = [f EXCEPT !.clients = ~f.clients]
  BY <1>9 DEF GoodArbitraje
<1>10. QED BY <1>3, <1>4, <1>5, <1>6, <1>7, <1>8, <1>9 DEF ArbitrajeInputs

LEMMA ArbitrajeIsGood ==
  ASSUME NEW old \in ArbitrajeForm, NEW f \in GoodArbitraje
  PROVE  /\ ArbitrajeData(f) \in GoodArbitraje
         /\ ArbitrajeRestored(old, f) \in GoodArbitraje
         /\ ArbitrajeCleared(old) \in GoodArbitraje
         /\ ArbitrajeRendered(old, f) \in GoodArbitraje
         /\ LET g == ArbitrajeRendered(old, f)
            IN \A i \in 1..3 : /\ Fits(g.legs[i], g.legs[i].currency)
                               /\ g.legs[i].amount = f.legs[i].amount
<1>1. /\ old.legs \in [1..3 -> Legs] /\ f.legs \in [1..3 -> GoodLegs]
      /\ old.clients \in BOOLEAN /\ f.clients \in BOOLEAN
  BY DEF ArbitrajeForm, GoodArbitraje
<1>2. /\ LegsKept(f.legs) \in [1..3 -> GoodLegs]
      /\ LegsRefilled(old.legs, f.legs) \in [1..3 -> GoodLegs]
      /\ LegsCleared(old.legs) \in [1..3 -> GoodLegs]
  BY <1>1, LegsOfDraft
<1>3. ArbitrajeData(f) \in GoodArbitraje
  BY <1>2 DEF ArbitrajeData, LegsKept, GoodArbitraje
<1>4. ArbitrajeRestored(old, f) \in GoodArbitraje
  <2>1. PICK b \in BOOLEAN : b <=> f.clients \/ old.clients
    OBVIOUS
  <2>2. ArbitrajeRestored(old, f) = [f EXCEPT !.legs = LegsRefilled(old.legs, f.legs), !.clients = b]
    BY <1>1, <2>1 DEF ArbitrajeRestored, LegsRefilled
  <2>3. QED BY <1>2, <2>2 DEF GoodArbitraje
<1>5. ArbitrajeCleared(old) \in GoodArbitraje
  <2>1. LegsCleared(old.legs) = [i \in DOMAIN ArbitrajeBlank.legs |->
                                   [ArbitrajeBlank.legs[i] EXCEPT !.asked = old.legs[i].asked]]
    <3>1. DOMAIN ArbitrajeBlank.legs = 1..3 /\ DOMAIN old.legs = 1..3
      BY <1>1 DEF ArbitrajeBlank
    <3>2. \A i \in 1..3 : ArbitrajeBlank.legs[i] = EmptyLeg
      BY DEF ArbitrajeBlank
    <3>3. QED BY <3>1, <3>2 DEF LegsCleared
  <2>2. ArbitrajeCleared(old) = [ArbitrajeBlank EXCEPT !.legs = LegsCleared(old.legs),
                                                       !.clients = old.clients]
    BY <2>1 DEF ArbitrajeCleared
  <2>3. QED BY <1>1, <1>2, <2>2, ArbitrajeBlankIsGood DEF GoodArbitraje
<1>6. PICK p : p = ProfitCurrency(old, f)
  OBVIOUS
<1>7. /\ p \in GoodArbitraje
      /\ p.legs \in [1..3 -> GoodLegs]
      /\ \A i \in 1..3 : p.legs[i].amount = f.legs[i].amount
  <2>1. p \in GoodArbitraje /\ \A i \in 1..3 : p.legs[i].amount = f.legs[i].amount
    BY <1>6, ProfitCurrencyIsGood
  <2>2. QED BY <2>1 DEF GoodArbitraje
<1>8. PICK legs : legs = LegsRendered(old.legs, p.legs)
  OBVIOUS
<1>9. /\ legs \in [1..3 -> GoodLegs]
      /\ \A i \in 1..3 : Fits(legs[i], legs[i].currency) /\ legs[i].amount = p.legs[i].amount
  <2>1. /\ LegsRendered(old.legs, p.legs) \in [1..3 -> GoodLegs]
        /\ \A i \in 1..3 : /\ Fits(LegsRendered(old.legs, p.legs)[i],
                                    LegsRendered(old.legs, p.legs)[i].currency)
                           /\ LegsRendered(old.legs, p.legs)[i].amount = p.legs[i].amount
    <3>1. \A n \in Nat : \A o \in [1..n -> Legs], l \in [1..n -> GoodLegs] :
            /\ LegsRendered(o, l) \in [1..n -> GoodLegs]
            /\ \A i \in 1..n : /\ Fits(LegsRendered(o, l)[i], LegsRendered(o, l)[i].currency)
                               /\ LegsRendered(o, l)[i].amount = l[i].amount
      BY LegsAfterRender, Zenon
    <3>2. 3 \in Nat
      OBVIOUS
    <3>3. QED BY <1>1, <1>7, <3>1, <3>2, Zenon
  <2>2. QED BY <1>8, <2>1
<1>10. ArbitrajeRendered(old, f) = [p EXCEPT !.legs = legs]
  BY <1>6, <1>8 DEF ArbitrajeRendered, LegsRendered
<1>11. [p EXCEPT !.legs = legs] \in GoodArbitraje /\ [p EXCEPT !.legs = legs].legs = legs
  BY <1>7, <1>9 DEF GoodArbitraje
<1>12. QED BY <1>3, <1>4, <1>5, <1>7, <1>9, <1>10, <1>11

-----------------------------------------------------------------------------
(* The sale and the purchase                                               *)

GoodQuote ==
    {f \in [legs : [1..1 -> GoodLegs], rate : Nat, quote : Maybe(Currencies),
            mode : {"MULTIPLY", "DIVIDE"}, lines : Seq(GoodLines), first : {"AUTO", "MANUAL"},
            settled : Nat] : Len(f.lines) \in 1..MaxLines}

KeysDiffer(f) == \A i, j \in DOMAIN f.lines : f.lines[i].key = f.lines[j].key => i = j

\* An automatic line shows what last settled, or nothing.
AutoLine(f) ==
    Len(f.lines) = 1 /\ f.first = "AUTO" => f.lines[1].amount \in {0, f.settled}

\* An empty single line is filled in by the form.
EmptyIsAuto(f) == Len(f.lines) = 1 /\ f.lines[1].amount = 0 => f.first = "AUTO"

\* An automatic line that stays has its amount, or none.
Follows(old, new) ==
    Len(old.lines) = 1 /\ Len(new.lines) = 1 /\ new.lines[1].key = old.lines[1].key
      /\ new.first = "AUTO" => new.lines[1].amount \in {0, old.lines[1].amount}

LEMMA QuoteFields ==
  ASSUME NEW f \in GoodQuote
  PROVE  /\ f.legs \in [1..1 -> GoodLegs] /\ f.legs[1] \in GoodLegs /\ f.rate \in Nat
         /\ f.quote \in Maybe(Currencies) /\ f.mode \in {"MULTIPLY", "DIVIDE"}
         /\ f.lines \in Seq(GoodLines) /\ DOMAIN f.lines = 1..Len(f.lines)
         /\ Len(f.lines) \in 1..MaxLines
         /\ \A i \in 1..Len(f.lines) : f.lines[i] \in GoodLines
         /\ f.first \in {"AUTO", "MANUAL"} /\ f.settled \in Nat
BY DEF GoodQuote

(* A quote with other legs, lines or fields.                               *)
LEMMA QuoteChanged ==
  ASSUME NEW f \in GoodQuote
  PROVE  /\ \A leg \in GoodLegs : [f EXCEPT !.legs = <<leg>>] \in GoodQuote
         /\ \A lines \in Seq(GoodLines) : Len(lines) \in 1..MaxLines =>
              /\ [f EXCEPT !.lines = lines] \in GoodQuote
              /\ \A first \in {"AUTO", "MANUAL"} :
                    [f EXCEPT !.lines = lines, !.first = first] \in GoodQuote
         /\ \A r \in Nat : [f EXCEPT !.rate = r] \in GoodQuote
         /\ \A c \in Maybe(Currencies) : [f EXCEPT !.quote = c] \in GoodQuote
         /\ \A m \in {"MULTIPLY", "DIVIDE"} : [f EXCEPT !.mode = m] \in GoodQuote
         /\ \A n \in Nat : [f EXCEPT !.settled = n] \in GoodQuote
<1>1. \A leg \in GoodLegs : <<leg>> \in [1..1 -> GoodLegs]
  OBVIOUS
<1>2. \A leg \in GoodLegs : [f EXCEPT !.legs = <<leg>>] \in GoodQuote
  BY <1>1 DEF GoodQuote
<1>3. ASSUME NEW lines \in Seq(GoodLines), Len(lines) \in 1..MaxLines
      PROVE  /\ [f EXCEPT !.lines = lines] \in GoodQuote
             /\ \A first \in {"AUTO", "MANUAL"} :
                   [f EXCEPT !.lines = lines, !.first = first] \in GoodQuote
  BY <1>3 DEF GoodQuote
<1>4. /\ \A r \in Nat : [f EXCEPT !.rate = r] \in GoodQuote
      /\ \A c \in Maybe(Currencies) : [f EXCEPT !.quote = c] \in GoodQuote
      /\ \A m \in {"MULTIPLY", "DIVIDE"} : [f EXCEPT !.mode = m] \in GoodQuote
      /\ \A n \in Nat : [f EXCEPT !.settled = n] \in GoodQuote
  BY DEF GoodQuote
<1>5. QED BY <1>2, <1>3, <1>4

(* There is a key that no line has: there are twice as many as lines.      *)
LEMMA NewKeyIsNew ==
  ASSUME NEW f, f.lines \in Seq(Lines), Len(f.lines) \in 1..MaxLines
  PROVE  /\ NewKey(f) \in 1..(2 * MaxLines)
         /\ \A i \in DOMAIN f.lines : f.lines[i].key # NewKey(f)
<1> DEFINE n == Len(f.lines)
           key == [i \in 1..n |-> f.lines[i].key]
           used == {key[i] : i \in 1..n}
<1>1. MaxLines \in Nat \ {0} /\ n \in 1..MaxLines /\ DOMAIN f.lines = 1..n
  BY QuoteFormsAssumption
<1>2. key \in Surjection(1..n, used)
  BY DEF Surjection
<1>3. IsFiniteSet(1..n) /\ Cardinality(1..n) = n
  BY <1>1, FS_Interval
<1>4. IsFiniteSet(used) /\ Cardinality(used) <= n
  <2> HIDE DEF used, key, n
  <2>1. IsFiniteSet(used) /\ Cardinality(used) <= Cardinality(1..n)
    BY <1>2, <1>3, FS_Surjection
  <2>2. QED BY <1>3, <2>1
<1>5. Cardinality(used) \in Nat
  BY <1>4, FS_CardinalityType
<1>6. Cardinality(1..(2 * MaxLines)) = 2 * MaxLines
  BY <1>1, FS_Interval
<1>7. ~ (1..(2 * MaxLines) \subseteq used)
  <2>1. ASSUME 1..(2 * MaxLines) \subseteq used
        PROVE  Cardinality(1..(2 * MaxLines)) <= Cardinality(used)
    BY <1>4, <2>1, FS_Subset
  <2> HIDE DEF used, n
  <2>2. QED BY <1>1, <1>4, <1>5, <1>6, <2>1
<1>8. \E k \in 1..(2 * MaxLines) : \A i \in DOMAIN f.lines : f.lines[i].key # k
  BY <1>1, <1>7
<1>9. QED BY <1>8 DEF NewKey

LEMMA GoodLinesAreLines ==
  ASSUME NEW f \in GoodQuote
  PROVE  /\ f.lines \in Seq(Lines)
         /\ NewKey(f) \in 1..(2 * MaxLines)
         /\ \A i \in DOMAIN f.lines : f.lines[i].key # NewKey(f)
<1>1. GoodLines \subseteq Lines
  BY DEF GoodLines
<1>2. f.lines \in Seq(GoodLines) /\ Len(f.lines) \in 1..MaxLines
  BY QuoteFields
<1>3. f.lines \in Seq(Lines)
  BY <1>1, <1>2, SeqMonotonic
<1>4. QED BY <1>2, <1>3, NewKeyIsNew

LEMMA BlankLineIsGood ==
  ASSUME NEW key \in Nat
  PROVE  BlankLine(key) \in GoodLines /\ BlankLine(key).key = key /\ BlankLine(key).amount = 0
BY DEF BlankLine, GoodLines, Lines, CashTick, Maybe, Formats

LEMMA VentaBlankIsGood ==
  VentaBlank \in GoodQuote /\ KeysDiffer(VentaBlank) /\ AutoLine(VentaBlank) /\ EmptyIsAuto(VentaBlank)
<1>1. BlankLine(1) \in GoodLines /\ BlankLine(1).amount = 0
  BY BlankLineIsGood
<1>2. <<EmptyLeg>> \in [1..1 -> GoodLegs]
  BY EmptyLegIsGood
<1>3. PICK lines : lines = <<BlankLine(1)>>
  OBVIOUS
<1>4. lines \in Seq(GoodLines) /\ Len(lines) = 1 /\ lines[1].amount = 0 /\ DOMAIN lines = 1..1
  BY <1>1, <1>3
<1>5. MaxLines \in Nat \ {0}
  BY QuoteFormsAssumption
<1>6. PICK legs \in [1..1 -> GoodLegs] : legs = <<EmptyLeg>>
  BY <1>2
<1>7. PICK f : f = [legs |-> legs, rate |-> 0, quote |-> "", mode |-> "MULTIPLY",
                    lines |-> lines, first |-> "AUTO", settled |-> 0]
  OBVIOUS
<1>8. VentaBlank = f
  BY <1>3, <1>6, <1>7 DEF VentaBlank
<1>9. /\ f \in [legs : [1..1 -> GoodLegs], rate : Nat, quote : Maybe(Currencies),
               mode : {"MULTIPLY", "DIVIDE"}, lines : Seq(GoodLines), first : {"AUTO", "MANUAL"},
               settled : Nat]
      /\ f.lines = lines /\ f.first = "AUTO"
  BY <1>4, <1>7 DEF Maybe
<1>10. f \in GoodQuote
  <2>1. Len(lines) \in 1..MaxLines
    BY <1>4, <1>5
  <2>2. QED BY <1>9, <2>1, Zenon DEF GoodQuote
<1>11. KeysDiffer(f) /\ AutoLine(f) /\ EmptyIsAuto(f)
  BY <1>4, <1>9 DEF KeysDiffer, AutoLine, EmptyIsAuto
<1>12. QED BY <1>8, <1>10, <1>11

(* A line after a render.                                                  *)
LEMMA LineIsRendered ==
  ASSUME NEW old, NEW new \in GoodQuote, NEW i \in DOMAIN new.lines
  PROVE  /\ LineRendered(old, new, i) \in GoodLines
         /\ Fits(LineRendered(old, new, i), new.quote)
         /\ LineRendered(old, new, i).key = new.lines[i].key
         /\ LineRendered(old, new, i).amount =
              IF Fills(old, new) THEN new.settled ELSE new.lines[i].amount
<1>1. /\ new.lines[i] \in Lines /\ CashTick(new.lines[i])
      /\ new.quote \in Maybe(Currencies) /\ new.settled \in Nat
  BY QuoteFields, GoodLine
<1>2. PICK asked : asked = LineAsked(old.lines, new.lines, i)
  OBVIOUS
<1>3. /\ asked \in Lines /\ CashTick(asked)
      /\ asked.key = new.lines[i].key /\ asked.amount = new.lines[i].amount
  <2>1. CASE asked = new.lines[i]
    BY <1>1, <2>1
  <2>2. CASE /\ new.lines[i].account # ""
             /\ asked = [new.lines[i] EXCEPT !.asked = new.lines[i].asked \cup {new.lines[i].account}]
    <3>1. PICK s \in SUBSET Accounts : s = new.lines[i].asked \cup {new.lines[i].account}
      BY <1>1, <2>2, LineFields DEF Maybe
    <3>2. asked = [new.lines[i] EXCEPT !.asked = s]
      BY <2>2, <3>1
    <3>3. QED BY <1>1, <3>2 DEF Lines, CashTick
  <2>3. QED BY <1>2, <2>1, <2>2 DEF LineAsked
<1>4. PICK line : line = AlignedTo(asked, new.quote)
  OBVIOUS
<1>5. /\ line \in Lines /\ CashTick(line) /\ Fits(line, new.quote)
      /\ line.key = new.lines[i].key /\ line.amount = new.lines[i].amount
  BY <1>1, <1>3, <1>4, AlignedLine
<1>6. LineRendered(old, new, i) = IF Fills(old, new) THEN [line EXCEPT !.amount = new.settled] ELSE line
  BY <1>2, <1>4 DEF LineRendered
<1>7. CASE Fills(old, new)
  <2>1. PICK l : l = [line EXCEPT !.amount = new.settled]
    OBVIOUS
  <2>2. /\ l \in Lines /\ l.key = line.key /\ l.amount = new.settled
        /\ l.format = line.format /\ l.pending = line.pending /\ l.list = line.list
    BY <1>1, <1>5, <2>1 DEF Lines
  <2>3. CashTick(l) /\ Fits(l, new.quote)
    BY <1>5, <2>2 DEF CashTick, Fits
  <2>4. QED BY <1>5, <1>6, <1>7, <2>1, <2>2, <2>3, GoodLine
<1>8. CASE ~Fills(old, new)
  BY <1>5, <1>6, <1>8, GoodLine
<1>9. QED BY <1>7, <1>8

LEMMA ModeOf ==
  ASSUME NEW f \in GoodQuote
  PROVE  /\ Mode(f) \in {"AUTO", "MANUAL"}
         /\ Len(f.lines) = 1 /\ f.lines[1].amount = 0 => Mode(f) = "AUTO"
         /\ Mode(f) = "AUTO" => f.first = "AUTO" \/ f.lines[1].amount = 0
         /\ EmptyIsAuto(f) => Mode(f) = f.first
BY QuoteFields DEF Mode, EmptyIsAuto

(* What a render does to a quote.                                          *)
LEMMA VentaIsRendered ==
  ASSUME NEW old \in GoodQuote, NEW new \in GoodQuote
  PROVE  LET g == VentaRendered(old, new)
         IN /\ g \in GoodQuote
            /\ Fits(g.legs[1], g.legs[1].currency)
            /\ g.legs[1].amount = new.legs[1].amount
            /\ g.quote = new.quote /\ g.settled = new.settled /\ g.first = Mode(new)
            /\ DOMAIN g.lines = DOMAIN new.lines /\ Len(g.lines) = Len(new.lines)
            /\ \A i \in DOMAIN new.lines :
                 /\ Fits(g.lines[i], g.quote)
                 /\ g.lines[i].key = new.lines[i].key
                 /\ g.lines[i].amount = IF Fills(old, new) THEN new.settled ELSE new.lines[i].amount
<1>1. /\ old.legs[1] \in Legs
      /\ new.legs[1] \in Legs /\ CashTick(new.legs[1])
      /\ DOMAIN new.lines = 1..Len(new.lines) /\ Len(new.lines) \in 1..MaxLines
      /\ new.lines \in Seq(GoodLines)
  BY QuoteFields, GoodLeg
<1>2. PICK asked : asked = ListAsked(old.legs[1], new.legs[1])
  OBVIOUS
<1>3. asked \in Legs /\ CashTick(asked) /\ asked.amount = new.legs[1].amount
  BY <1>1, <1>2, ListsOfLeg
<1>4. asked.currency \in Maybe(Currencies)
  BY <1>3, LegFields
<1>5. PICK leg : leg = AlignedTo(asked, asked.currency)
  OBVIOUS
<1>6. leg \in GoodLegs /\ Fits(leg, leg.currency) /\ leg.amount = new.legs[1].amount
  BY <1>3, <1>4, <1>5, AlignedLeg, GoodLeg
<1>7. PICK lines : lines = [i \in DOMAIN new.lines |-> LineRendered(old, new, i)]
  OBVIOUS
<1>8. \A i \in DOMAIN new.lines :
        /\ lines[i] \in GoodLines
        /\ Fits(lines[i], new.quote)
        /\ lines[i].key = new.lines[i].key
        /\ lines[i].amount = IF Fills(old, new) THEN new.settled ELSE new.lines[i].amount
  BY <1>7, LineIsRendered
<1>9. lines \in Seq(GoodLines) /\ Len(lines) = Len(new.lines) /\ DOMAIN lines = DOMAIN new.lines
  <2>1. PICK n \in Nat : n = Len(new.lines)
    BY <1>1
  <2>2. DOMAIN lines = 1..n /\ lines = [i \in 1..n |-> lines[i]]
    BY <1>1, <1>7, <2>1
  <2>3. lines \in [1..n -> GoodLines]
    BY <1>1, <1>8, <2>1, <2>2
  <2>4. lines \in Seq(GoodLines) /\ Len(lines) = n
    BY <2>3
  <2>5. QED BY <1>1, <2>1, <2>2, <2>4
<1>10. PICK first \in {"AUTO", "MANUAL"} : first = Mode(new)
  BY ModeOf
<1>11. PICK g : g = [new EXCEPT !.legs = <<leg>>, !.lines = lines, !.first = first]
  OBVIOUS
<1>12. VentaRendered(old, new) = g
  BY <1>2, <1>5, <1>7, <1>10, <1>11 DEF VentaRendered, Aligned
<1>13. <<leg>> \in [1..1 -> GoodLegs] /\ <<leg>>[1] = leg
  BY <1>6
<1>14. g \in GoodQuote
  BY <1>1, <1>9, <1>11, <1>13 DEF GoodQuote
<1>15. /\ g.legs = <<leg>> /\ g.lines = lines /\ g.first = first
       /\ g.quote = new.quote /\ g.settled = new.settled
  BY <1>11 DEF GoodQuote
<1>16. QED BY <1>6, <1>8, <1>9, <1>10, <1>12, <1>13, <1>14, <1>15

(* ... and what it means for the automatic line.                           *)
LEMMA VentaStaysAutomatic ==
  ASSUME NEW old \in GoodQuote, NEW new \in GoodQuote,
         AutoLine(old), KeysDiffer(new), Follows(old, new)
  PROVE  LET g == VentaRendered(old, new)
         IN KeysDiffer(g) /\ AutoLine(g) /\ EmptyIsAuto(g)
<1>1. PICK g : g = VentaRendered(old, new)
  OBVIOUS
<1>2. /\ g \in GoodQuote
      /\ g.settled = new.settled /\ g.first = Mode(new)
      /\ DOMAIN g.lines = DOMAIN new.lines /\ Len(g.lines) = Len(new.lines)
      /\ \A i \in DOMAIN new.lines :
           /\ g.lines[i].key = new.lines[i].key
           /\ g.lines[i].amount = IF Fills(old, new) THEN new.settled ELSE new.lines[i].amount
  BY <1>1, VentaIsRendered
<1>3. KeysDiffer(g)
  BY <1>2 DEF KeysDiffer
<1>4. Len(new.lines) = 1 => 1 \in DOMAIN new.lines
  BY QuoteFields
<1>5. AutoLine(g)
  <2>1. SUFFICES ASSUME Len(new.lines) = 1, Mode(new) = "AUTO"
                 PROVE  g.lines[1].amount \in {0, new.settled}
    BY <1>2 DEF AutoLine
  <2>2. CASE Fills(old, new)
    BY <1>2, <1>4, <2>1, <2>2
  <2>3. CASE ~Fills(old, new)
    <3>1. g.lines[1].amount = new.lines[1].amount
      BY <1>2, <1>4, <2>1, <2>3
    <3>2. FillsFrom(old, old.first) = FillsFrom(new, "AUTO")
      BY <2>1, <2>3 DEF Fills
    <3>3. /\ old.settled = new.settled /\ old.first = "AUTO"
          /\ old.lines[1].key = new.lines[1].key /\ Len(old.lines) = 1
      BY <2>1, <3>2 DEF FillsFrom
    <3>4. new.first = "AUTO" \/ new.lines[1].amount = 0
      BY <2>1, ModeOf
    <3>5. new.lines[1].amount \in {0, old.lines[1].amount}
      BY <2>1, <3>3, <3>4 DEF Follows
    <3>6. old.lines[1].amount \in {0, new.settled}
      BY <3>3 DEF AutoLine
    <3>7. QED BY <3>1, <3>5, <3>6
  <2>4. QED BY <2>2, <2>3
<1>6. EmptyIsAuto(g)
  <2>1. SUFFICES ASSUME Len(new.lines) = 1, g.lines[1].amount = 0
                 PROVE  Mode(new) = "AUTO"
    BY <1>2 DEF EmptyIsAuto
  <2>2. CASE Fills(old, new)
    BY <2>2 DEF Fills
  <2>3. CASE ~Fills(old, new)
    BY <1>2, <1>4, <2>1, <2>3, ModeOf
  <2>4. QED BY <2>2, <2>3
<1>7. QED BY <1>1, <1>3, <1>5, <1>6

(* The amounts of the lines stay, but for a single automatic one.          *)
LEMMA LineAmountsStay ==
  ASSUME NEW old \in GoodQuote, NEW new \in GoodQuote, EmptyIsAuto(old),
         Len(new.lines) = Len(old.lines), new.first = old.first,
         \A i \in DOMAIN old.lines : new.lines[i].amount = old.lines[i].amount
  PROVE  \/ AmountsOf(VentaRendered(old, new).lines) = AmountsOf(old.lines)
         \/ Len(old.lines) = 1 /\ old.first = "AUTO"
<1>1. /\ DOMAIN old.lines = 1..Len(old.lines) /\ DOMAIN new.lines = 1..Len(new.lines)
      /\ Len(old.lines) \in 1..MaxLines
  BY QuoteFields
<1>2. PICK g : g = VentaRendered(old, new)
  OBVIOUS
<1>3. /\ DOMAIN g.lines = DOMAIN new.lines
      /\ \A i \in DOMAIN new.lines :
           g.lines[i].amount = IF Fills(old, new) THEN new.settled ELSE new.lines[i].amount
  BY <1>2, VentaIsRendered
<1>4. CASE ~Fills(old, new)
  <2>1. DOMAIN g.lines = DOMAIN old.lines
        /\ \A i \in DOMAIN old.lines : g.lines[i].amount = old.lines[i].amount
    BY <1>1, <1>3, <1>4
  <2>2. QED BY <1>2, <2>1 DEF AmountsOf
<1>5. CASE Fills(old, new)
  <2>1. Len(new.lines) = 1 /\ Mode(new) = "AUTO"
    BY <1>5 DEF Fills
  <2>2. EmptyIsAuto(new)
    BY <1>1, <2>1 DEF EmptyIsAuto
  <2>3. QED BY <2>1, <2>2, ModeOf
<1>6. QED BY <1>4, <1>5

(* Lines that stay keep their keys and their amounts.                      *)
LEMMA SameLines ==
  ASSUME NEW f \in GoodQuote, KeysDiffer(f), NEW g, g.lines = f.lines
  PROVE  KeysDiffer(g) /\ Follows(f, g)
BY DEF KeysDiffer, Follows

(* One line replaced by another with its key.                              *)
LEMMA LineReplaced ==
  ASSUME NEW f \in GoodQuote, KeysDiffer(f), NEW i \in DOMAIN f.lines,
         NEW line \in GoodLines, line.key = f.lines[i].key
  PROVE  LET lines == [f.lines EXCEPT ![i] = line]
         IN /\ lines \in Seq(GoodLines) /\ Len(lines) = Len(f.lines)
            /\ lines[i] = line /\ \A j \in DOMAIN f.lines : j # i => lines[j] = f.lines[j]
            /\ \A g : g.lines = lines => KeysDiffer(g)
<1>1. PICK lines : lines = [f.lines EXCEPT ![i] = line]
  OBVIOUS
<1>2. f.lines \in Seq(GoodLines) /\ DOMAIN f.lines = 1..Len(f.lines)
  BY QuoteFields
<1>3. lines \in Seq(GoodLines) /\ Len(lines) = Len(f.lines)
  BY <1>1, <1>2, ExceptSeq
<1>4. /\ DOMAIN lines = DOMAIN f.lines /\ lines[i] = line
      /\ \A j \in DOMAIN f.lines : j # i => lines[j] = f.lines[j]
  BY <1>1
<1>5. \A j \in DOMAIN f.lines : lines[j].key = f.lines[j].key
  BY <1>4
<1>6. \A g : g.lines = lines => KeysDiffer(g)
  BY <1>4, <1>5 DEF KeysDiffer
<1>7. QED BY <1>1, <1>3, <1>4, <1>6

(* A line added: its key is new.                                           *)
LEMMA LineAdded ==
  ASSUME NEW f \in GoodQuote, KeysDiffer(f), NEW g \in AddLine(f)
  PROVE  g \in GoodQuote /\ KeysDiffer(g) /\ Follows(f, g)
<1>1. /\ f.lines \in Seq(GoodLines) /\ DOMAIN f.lines = 1..Len(f.lines)
      /\ Len(f.lines) \in 1..MaxLines /\ MaxLines \in Nat \ {0}
  BY QuoteFields, QuoteFormsAssumption
<1>2. PICK line : line = BlankLine(NewKey(f))
  OBVIOUS
<1>3. line \in GoodLines /\ \A i \in DOMAIN f.lines : f.lines[i].key # line.key
  <2>1. NewKey(f) \in Nat /\ \A i \in DOMAIN f.lines : f.lines[i].key # NewKey(f)
    BY <1>1, GoodLinesAreLines
  <2>2. QED BY <1>2, <2>1, BlankLineIsGood
<1>4. PICK lines : lines = Append(f.lines, line)
  OBVIOUS
<1>5. /\ lines \in Seq(GoodLines) /\ Len(lines) = Len(f.lines) + 1
      /\ \A i \in 1..Len(f.lines) : lines[i] = f.lines[i]
      /\ lines[Len(f.lines) + 1] = line
  BY <1>1, <1>3, <1>4, AppendProperties
<1>6. Len(f.lines) < MaxLines /\ g = [f EXCEPT !.lines = lines]
  BY <1>2, <1>4 DEF AddLine
<1>7. g.lines = lines
  BY <1>6 DEF GoodQuote
<1>8. Len(lines) \in 1..MaxLines
  BY <1>1, <1>5, <1>6
<1>9. g \in GoodQuote
  BY <1>5, <1>6, <1>8, QuoteChanged
<1>10. KeysDiffer(g)
  <2>1. DOMAIN lines = 1..(Len(f.lines) + 1)
    BY <1>5
  <2>2. SUFFICES ASSUME NEW i \in 1..(Len(f.lines) + 1), NEW j \in 1..(Len(f.lines) + 1),
                        lines[i].key = lines[j].key
                 PROVE  i = j
    BY <1>7, <2>1 DEF KeysDiffer
  <2>3. CASE i \in 1..Len(f.lines) /\ j \in 1..Len(f.lines)
    BY <1>1, <1>5, <2>2, <2>3 DEF KeysDiffer
  <2>4. CASE i = Len(f.lines) + 1 /\ j \in 1..Len(f.lines)
    BY <1>1, <1>3, <1>5, <2>2, <2>4
  <2>5. CASE j = Len(f.lines) + 1 /\ i \in 1..Len(f.lines)
    BY <1>1, <1>3, <1>5, <2>2, <2>5
  <2>6. QED BY <1>1, <2>3, <2>4, <2>5
<1>11. Follows(f, g)
  BY <1>1, <1>5, <1>7 DEF Follows
<1>12. QED BY <1>9, <1>10, <1>11

(* A line removed.                                                         *)
LEMMA LineRemoved ==
  ASSUME NEW f \in GoodQuote, KeysDiffer(f), NEW g \in RemoveLine(f)
  PROVE  g \in GoodQuote /\ KeysDiffer(g) /\ Follows(f, g)
<1>1. /\ f.lines \in Seq(GoodLines) /\ DOMAIN f.lines = 1..Len(f.lines)
      /\ Len(f.lines) \in 1..MaxLines /\ MaxLines \in Nat \ {0}
      /\ \A k \in 1..Len(f.lines) : f.lines[k] \in GoodLines
  BY QuoteFields, QuoteFormsAssumption
<1>2. Len(f.lines) > 1
  BY <1>1 DEF RemoveLine
<1>3. PICK i \in 1..Len(f.lines) : g = [f EXCEPT !.lines = RemoveAt(f.lines, i)]
  BY <1>1, <1>2 DEF RemoveLine
<1>4. PICK n \in Nat : n = Len(f.lines) /\ n > 1
  BY <1>1, <1>2
<1>5. PICK a : a = SubSeq(f.lines, 1, i - 1)
  OBVIOUS
<1>6. PICK b : b = SubSeq(f.lines, i + 1, n)
  OBVIOUS
<1>7. /\ a \in Seq(GoodLines) /\ Len(a) = i - 1
      /\ \A j \in 1..(i - 1) : a[j] = f.lines[j]
  <2>1. 1 \in Int /\ i - 1 \in Int /\ \A j \in 1..(i - 1) : f.lines[j] \in GoodLines
    BY <1>1
  <2>2. /\ a \in Seq(GoodLines) /\ Len(a) = IF 1 <= i - 1 THEN (i - 1) - 1 + 1 ELSE 0
        /\ \A j \in 1..((i - 1) - 1 + 1) : a[j] = f.lines[1 + j - 1]
    BY <1>5, <2>1, SubSeqProperties
  <2>3. Len(a) = i - 1
    BY <1>1, <1>3, <2>2
  <2>4. ASSUME NEW j \in 1..(i - 1) PROVE a[j] = f.lines[j]
    <3>1. 1 + j - 1 = j /\ j \in 1..((i - 1) - 1 + 1)
      BY <1>1, <1>3
    <3>2. QED BY <2>2, <3>1
  <2>5. QED BY <2>2, <2>3, <2>4
<1>8. /\ b \in Seq(GoodLines) /\ Len(b) = n - i
      /\ \A j \in 1..(n - i) : b[j] = f.lines[i + j]
  <2>1. i + 1 \in Int /\ n \in Int /\ \A j \in (i + 1)..n : f.lines[j] \in GoodLines
    BY <1>1, <1>3, <1>4
  <2>2. /\ b \in Seq(GoodLines) /\ Len(b) = IF i + 1 <= n THEN n - (i + 1) + 1 ELSE 0
        /\ \A j \in 1..(n - (i + 1) + 1) : b[j] = f.lines[(i + 1) + j - 1]
    BY <1>6, <2>1, SubSeqProperties
  <2>3. Len(b) = n - i
    BY <1>1, <1>3, <1>4, <2>2
  <2>4. ASSUME NEW j \in 1..(n - i) PROVE b[j] = f.lines[i + j]
    <3>1. (i + 1) + j - 1 = i + j /\ j \in 1..(n - (i + 1) + 1)
      BY <1>1, <1>3, <1>4
    <3>2. QED BY <2>2, <3>1
  <2>5. QED BY <2>2, <2>3, <2>4
<1>9. PICK lines : lines = a \o b
  OBVIOUS
<1>10. /\ lines \in Seq(GoodLines) /\ Len(lines) = (i - 1) + (n - i)
       /\ \A j \in 1..((i - 1) + (n - i)) :
            lines[j] = IF j <= i - 1 THEN a[j] ELSE b[j - (i - 1)]
  <2>1. /\ lines \in Seq(GoodLines) /\ Len(lines) = Len(a) + Len(b)
        /\ \A j \in 1..(Len(a) + Len(b)) :
             lines[j] = IF j <= Len(a) THEN a[j] ELSE b[j - Len(a)]
    BY <1>7, <1>8, <1>9, ConcatProperties
  <2>2. Len(a) = i - 1 /\ Len(b) = n - i
    BY <1>7, <1>8
  <2>3. QED BY <2>1, <2>2
<1>11. Len(lines) = n - 1 /\ DOMAIN lines = 1..(n - 1)
  BY <1>3, <1>4, <1>10
<1>12. ASSUME NEW j \in 1..(n - 1)
       PROVE  lines[j] = f.lines[IF j < i THEN j ELSE j + 1]
  <2>1. lines[j] = IF j <= i - 1 THEN a[j] ELSE b[j - (i - 1)]
    BY <1>3, <1>4, <1>10
  <2>2. CASE j < i
    BY <1>3, <1>4, <1>7, <2>1, <2>2
  <2>3. CASE ~(j < i)
    <3>1. j - (i - 1) \in 1..(n - i) /\ i + (j - (i - 1)) = j + 1 /\ ~(j <= i - 1)
      BY <1>3, <1>4, <2>3
    <3>2. b[j - (i - 1)] = f.lines[i + (j - (i - 1))]
      BY <1>8, <3>1
    <3>3. QED BY <2>1, <2>3, <3>1, <3>2
  <2>4. QED BY <2>2, <2>3
<1>13. g = [f EXCEPT !.lines = lines]
  BY <1>3, <1>4, <1>5, <1>6, <1>9 DEF RemoveAt
<1>14. g.lines = lines
  BY <1>13 DEF GoodQuote
<1>15. Len(lines) \in 1..MaxLines
  BY <1>1, <1>4, <1>11
<1>16. g \in GoodQuote
  BY <1>10, <1>13, <1>15, QuoteChanged
<1>17. KeysDiffer(g)
  <2>1. SUFFICES ASSUME NEW j \in 1..(n - 1), NEW k \in 1..(n - 1), lines[j].key = lines[k].key
                 PROVE  j = k
    BY <1>11, <1>14 DEF KeysDiffer
  <2>2. PICK p \in 1..n : p = IF j < i THEN j ELSE j + 1
    BY <1>3, <1>4
  <2>3. PICK q \in 1..n : q = IF k < i THEN k ELSE k + 1
    BY <1>3, <1>4
  <2>4. f.lines[p].key = f.lines[q].key
    BY <1>12, <2>1, <2>2, <2>3
  <2>5. p = q
    BY <1>1, <1>4, <2>4 DEF KeysDiffer
  <2>6. QED BY <1>3, <1>4, <2>2, <2>3, <2>5
<1>18. Follows(f, g)
  BY <1>2 DEF Follows
<1>19. QED BY <1>16, <1>17, <1>18

(* An input to a line.                                                     *)
LEMMA LineChanged ==
  ASSUME NEW f \in GoodQuote, KeysDiffer(f), NEW i \in DOMAIN f.lines,
         NEW g \in LineInputs(f, i) \cup LineAmounts(f, i)
  PROVE  g \in GoodQuote /\ KeysDiffer(g) /\ Follows(f, g)
<1>1. /\ f.lines[i] \in GoodLines /\ f.quote \in Maybe(Currencies)
      /\ Len(f.lines) \in 1..MaxLines /\ f.first \in {"AUTO", "MANUAL"}
  BY QuoteFields
<1>2. ASSUME NEW line \in GoodLines, line.key = f.lines[i].key, NEW first \in {"AUTO", "MANUAL"},
             \/ line.amount = f.lines[i].amount /\ first = f.first
             \/ (i = 1 /\ first = "AUTO") => line.amount = 0,
             g = [f EXCEPT !.lines[i] = line, !.first = first]
      PROVE  g \in GoodQuote /\ KeysDiffer(g) /\ Follows(f, g)
  <2>1. PICK lines : lines = [f.lines EXCEPT ![i] = line]
    OBVIOUS
  <2>2. /\ lines \in Seq(GoodLines) /\ Len(lines) = Len(f.lines)
        /\ lines[i] = line /\ \A j \in DOMAIN f.lines : j # i => lines[j] = f.lines[j]
        /\ \A h : h.lines = lines => KeysDiffer(h)
    BY <1>2, <2>1, LineReplaced
  <2>3. g = [f EXCEPT !.lines = lines, !.first = first]
    BY <1>2, <2>1
  <2>4. g \in GoodQuote
    BY <1>1, <2>2, <2>3, QuoteChanged
  <2>5. g.lines = lines /\ g.first = first
    BY <2>3 DEF GoodQuote
  <2>6. KeysDiffer(g)
    BY <2>2, <2>5
  <2>7. Follows(f, g)
    <3>1. SUFFICES ASSUME Len(f.lines) = 1, first = "AUTO"
                   PROVE  lines[1].amount \in {0, f.lines[1].amount}
      BY <2>5 DEF Follows
    <3>2. i = 1
      BY <3>1, QuoteFields
    <3>3. QED BY <1>2, <2>2, <3>1, <3>2
  <2>8. QED BY <2>4, <2>6, <2>7
<1>3. ASSUME NEW line \in GoodLines, line.key = f.lines[i].key, line.amount = f.lines[i].amount,
             g = [f EXCEPT !.lines[i] = line]
      PROVE  g \in GoodQuote /\ KeysDiffer(g) /\ Follows(f, g)
  <2>1. g = [f EXCEPT !.lines[i] = line, !.first = f.first]
    BY <1>3 DEF GoodQuote
  <2>2. QED BY <1>1, <1>2, <1>3, <2>1
<1>4. CASE \E line \in LineAccounts(f.lines[i]) : g = [f EXCEPT !.lines[i] = line]
  BY <1>1, <1>3, <1>4, LineInputsAreGood
<1>5. CASE \E line \in TicksFor(f.lines[i]) : g = [f EXCEPT !.lines[i] = line]
  BY <1>1, <1>3, <1>5, LineInputsAreGood
<1>6. CASE \E line \in FormatsFor(f.lines[i], f.quote) : g = [f EXCEPT !.lines[i] = line]
  BY <1>1, <1>3, <1>6, LineInputsAreGood
<1>7. CASE g \in LineAmounts(f, i)
  <2>1. PICK line \in AmountsFor(f.lines[i]) :
          g = [f EXCEPT !.lines[i] = line,
                        !.first = IF i # 1 THEN f.first ELSE IF line.amount = 0 THEN "AUTO" ELSE "MANUAL"]
    BY <1>7 DEF LineAmounts
  <2>2. line \in GoodLines /\ line.key = f.lines[i].key
    BY <1>1, <2>1, LineInputsAreGood
  <2>3. PICK first \in {"AUTO", "MANUAL"} :
          first = IF i # 1 THEN f.first ELSE IF line.amount = 0 THEN "AUTO" ELSE "MANUAL"
    BY <1>1
  <2>4. QED BY <1>2, <2>1, <2>2, <2>3
<1>8. QED BY <1>4, <1>5, <1>6, <1>7 DEF LineInputs

(* What a user may do to a quote.                                          *)
LEMMA VentaInputsAreGood ==
  ASSUME NEW f \in GoodQuote, KeysDiffer(f), NEW g \in VentaInputs(f)
  PROVE  g \in GoodQuote /\ KeysDiffer(g) /\ Follows(f, g)
<1>1. f.legs[1] \in GoodLegs
  BY QuoteFields
<1>2. CASE \E leg \in LegInputs(f.legs[1]) \cup TicksFor(f.legs[1]) : g = [f EXCEPT !.legs = <<leg>>]
  <2>1. PICK leg \in GoodLegs : g = [f EXCEPT !.legs = <<leg>>]
    BY <1>1, <1>2, LegInputsAreGood
  <2>2. g \in GoodQuote
    BY <2>1, QuoteChanged
  <2>3. g.lines = f.lines
    BY <2>1 DEF GoodQuote
  <2>4. QED BY <2>2, <2>3, SameLines
<1>3. CASE g \in QuoteInputs(f)
  <2>1. /\ Rates \cup {0} \subseteq Nat
        /\ Maybe(Currencies \ {f.legs[1].currency}) \subseteq Maybe(Currencies)
    <3>1. Rates \subseteq Nat \ {0}
      BY QuoteFormsAssumption, Zenon
    <3>2. \A r \in Rates \cup {0} : r \in Nat
      BY <3>1
    <3>3. Maybe(Currencies \ {f.legs[1].currency}) \subseteq Maybe(Currencies)
      BY DEF Maybe
    <3>4. QED BY <3>2, <3>3, Zenon
  <2>2. \/ \E r \in Nat : g = [f EXCEPT !.rate = r]
        \/ \E c \in Maybe(Currencies) : g = [f EXCEPT !.quote = c]
        \/ \E m \in {"MULTIPLY", "DIVIDE"} : g = [f EXCEPT !.mode = m]
    BY <1>3, <2>1 DEF QuoteInputs
  <2>3. g \in GoodQuote
    BY <2>2, QuoteChanged
  <2>4. g.lines = f.lines
    BY <2>2 DEF GoodQuote
  <2>5. QED BY <2>3, <2>4, SameLines
<1>4. CASE g \in AddLine(f)
  BY <1>4, LineAdded
<1>5. CASE g \in RemoveLine(f)
  BY <1>5, LineRemoved
<1>6. CASE \E i \in DOMAIN f.lines : g \in LineInputs(f, i) \cup LineAmounts(f, i)
  BY <1>6, LineChanged
<1>7. QED BY <1>2, <1>3, <1>4, <1>5, <1>6 DEF VentaInputs

(* The equivalent settles.                                                 *)
LEMMA SettlingIsGood ==
  ASSUME NEW f \in GoodQuote, KeysDiffer(f), Worth(f) \in Nat
  PROVE  /\ Settling(f) \in GoodQuote /\ KeysDiffer(Settling(f)) /\ Follows(f, Settling(f))
         /\ Settling(f).lines = f.lines /\ Settling(f).first = f.first
         /\ Settling(f).legs = f.legs
<1>1. PICK n \in Nat : n = Worth(f)
  OBVIOUS
<1>2. Settling(f) = [f EXCEPT !.settled = n]
  BY <1>1 DEF Settling
<1>3. Settling(f) \in GoodQuote
  BY <1>2, QuoteChanged
<1>4. Settling(f).lines = f.lines /\ Settling(f).first = f.first /\ Settling(f).legs = f.legs
  BY <1>2 DEF GoodQuote
<1>5. QED BY <1>3, <1>4, SameLines

(* The equivalent is a number of cents.                                    *)
LEMMA RoundedIsNat ==
  ASSUME NEW amount \in Nat, NEW times \in Nat, NEW by \in Nat \ {0}
  PROVE  RoundedByClient(amount, times, by) \in Nat
<1>1. PICK short \in {0, 1} : short = IF <<amount, times, by>> \in ShortOfHalf THEN 1 ELSE 0
  OBVIOUS
<1>2. PICK x \in Nat : x = 2 * amount * times
  OBVIOUS
<1>3. PICK a \in Nat, b \in Nat \ {0} : a = x + by - short /\ b = 2 * by
  OBVIOUS
<1>4. a \div b \in Nat
  OBVIOUS
<1>5. QED BY <1>1, <1>2, <1>3, <1>4 DEF RoundedByClient

LEMMA EquivalentIsNat ==
  ASSUME NEW amount \in Nat, NEW rate \in Nat, NEW mode
  PROVE  calculateEquivalent(amount, rate, mode) \in Nat
<1>1. RateUnit \in Nat \ {0}
  BY QuoteAmountsAssumption
<1>2. QED BY <1>1, RoundedIsNat DEF calculateEquivalent

(* Client and service round alike, or the exact value is half a cent and   *)
(* the client is one below (money.ts:21, fx_quote_mode.go:10).             *)
THEOREM OnlyHalfCentsAreMissed ==
  ASSUME NEW amount \in Nat, NEW times \in Nat, NEW by \in Nat \ {0},
         RoundedByClient(amount, times, by) # Rounded(amount, times, by)
  PROVE  /\ <<amount, times, by>> \in ShortOfHalf
         /\ (2 * amount * times) % (2 * by) = by
         /\ RoundedByClient(amount, times, by) = Rounded(amount, times, by) - 1
<1>1. PICK x \in Nat : x = 2 * amount * times
  OBVIOUS
<1>2. PICK q : q = Rounded(amount, times, by)
  OBVIOUS
<1>3. PICK p : p = RoundedByClient(amount, times, by)
  OBVIOUS
<1>4. q = (x + by) \div (2 * by)
  BY <1>1, <1>2 DEF Rounded
<1>5. <<amount, times, by>> \in ShortOfHalf
  <2>1. SUFFICES ASSUME <<amount, times, by>> \notin ShortOfHalf PROVE p = q
    BY <1>2, <1>3
  <2>2. p = (x + by - 0) \div (2 * by)
    BY <1>1, <1>3, <2>1 DEF RoundedByClient
  <2>3. QED BY <1>4, <2>2
<1>6. p = (x + by - 1) \div (2 * by)
  BY <1>1, <1>3, <1>5 DEF RoundedByClient
<1>7. PICK d \in Nat \ {0}, n \in Nat \ {0} : d = 2 * by /\ n = x + by
  OBVIOUS
<1>8. q = n \div d /\ p = (n - 1) \div d /\ p # q
  BY <1>2, <1>3, <1>4, <1>6, <1>7
<1>9. n % d = 0 /\ p = q - 1 /\ q \in Nat /\ n = d * q
  BY <1>8
<1>10. x = by + d * (q - 1) /\ q - 1 \in Nat
  <2>1. p \in Nat
    BY <1>8
  <2>2. QED BY <1>7, <1>9, <2>1
<1>11. x % d = by
  BY <1>7, <1>10
<1>12. QED BY <1>1, <1>2, <1>3, <1>5, <1>7, <1>9, <1>11

LEMMA WorthIsNat == \A f \in GoodQuote : Worth(f) \in Nat
<1>1. SUFFICES ASSUME NEW f \in GoodQuote PROVE Worth(f) \in Nat
  OBVIOUS
<1>2. f.legs[1].amount \in Nat /\ f.rate \in Nat
  BY QuoteFields, GoodLeg, LegFields
<1>3. QED BY <1>2, EquivalentIsNat DEF Worth

(* What a draft keeps of a quote.                                          *)
LEMMA QuoteDataIsGood ==
  ASSUME NEW f \in GoodQuote
  PROVE  QuoteData(f) \in GoodQuote
<1>1. /\ f.lines \in Seq(GoodLines) /\ DOMAIN f.lines = 1..Len(f.lines)
      /\ Len(f.lines) \in 1..MaxLines /\ f.legs[1] \in GoodLegs
      /\ \A i \in 1..Len(f.lines) : f.lines[i] \in GoodLines
  BY QuoteFields
<1>2. PICK leg : leg = Kept(f.legs[1])
  OBVIOUS
<1>3. leg \in GoodLegs
  BY <1>1, <1>2, KeptLeg
<1>4. ASSUME NEW line \in GoodLines
      PROVE  [Kept(line) EXCEPT !.key = 0] \in GoodLines
  <2>1. PICK l : l = [Kept(line) EXCEPT !.key = 0]
    OBVIOUS
  <2>2. l = [line EXCEPT !.list = "", !.asked = {}, !.key = 0]
    BY <2>1 DEF Kept
  <2>3. l \in Lines /\ l.pending = line.pending /\ l.format = line.format
    BY <2>2 DEF GoodLines, Lines, Maybe
  <2>4. QED BY <2>1, <2>3 DEF GoodLines, CashTick
<1>5. PICK n \in Nat : n = Len(f.lines)
  BY <1>1
<1>6. PICK lines : lines = [i \in 1..n |-> [Kept(f.lines[i]) EXCEPT !.key = 0]]
  OBVIOUS
<1>7. lines \in [1..n -> GoodLines]
  BY <1>1, <1>4, <1>5, <1>6
<1>8. lines \in Seq(GoodLines) /\ Len(lines) = n
  BY <1>7
<1>9. QuoteData(f) = [f EXCEPT !.legs = <<leg>>, !.settled = 0, !.lines = lines]
  BY <1>1, <1>2, <1>5, <1>6 DEF QuoteData
<1>10. <<leg>> \in [1..1 -> GoodLegs]
  BY <1>3
<1>11. PICK g : g = [f EXCEPT !.legs = <<leg>>, !.settled = 0, !.lines = lines]
  OBVIOUS
<1>12. Len(lines) \in 1..MaxLines
  BY <1>1, <1>5, <1>8
<1>13. g \in GoodQuote
  BY <1>8, <1>10, <1>11, <1>12 DEF GoodQuote
<1>14. QED BY <1>9, <1>11, <1>13

(* A quote whose single first line has another key is filled in again.     *)
LEMMA OtherKey ==
  ASSUME NEW f, NEW g, g.lines[1].key # f.lines[1].key
  PROVE  Follows(f, g)
BY DEF Follows

(* What a draft gives back: its lines have keys of their own.              *)
LEMMA VentaRestoredIsGood ==
  ASSUME NEW f \in GoodQuote, NEW d \in GoodQuote
  PROVE  LET g == VentaRestored(f, d)
         IN g \in GoodQuote /\ KeysDiffer(g) /\ Follows(f, g)
<1>1. /\ d.lines \in Seq(GoodLines) /\ DOMAIN d.lines = 1..Len(d.lines)
      /\ Len(d.lines) \in 1..MaxLines /\ d.legs[1] \in GoodLegs
      /\ f.legs[1] \in Legs /\ f.settled \in Nat
      /\ \A i \in 1..Len(d.lines) : d.lines[i] \in GoodLines
      /\ 1 \in DOMAIN f.lines /\ MaxLines \in Nat \ {0}
  BY QuoteFields, GoodLeg, QuoteFormsAssumption
<1>2. PICK key : key = NewKey(f)
  OBVIOUS
<1>3. key \in 1..(2 * MaxLines) /\ \A i \in DOMAIN f.lines : f.lines[i].key # key
  BY <1>2, GoodLinesAreLines
<1>4. PICK n \in Nat : n = Len(d.lines)
  BY <1>1
<1>5. PICK keys : keys = [i \in 1..n |-> IF i = 1 THEN key ELSE 2 * MaxLines + i]
  OBVIOUS
<1>6. \A i \in 1..n : keys[i] \in Nat
  BY <1>1, <1>3, <1>4, <1>5
<1>7. \A i, j \in 1..n : keys[i] = keys[j] => i = j
  BY <1>1, <1>3, <1>4, <1>5
<1>8. PICK lines : lines = [i \in 1..n |-> [d.lines[i] EXCEPT !.key = keys[i]]]
  OBVIOUS
<1>9. ASSUME NEW i \in 1..n
      PROVE  lines[i] \in GoodLines /\ lines[i].key = keys[i]
  <2>1. d.lines[i] \in GoodLines /\ keys[i] \in Nat
    BY <1>1, <1>4, <1>6
  <2>2. lines[i] = [d.lines[i] EXCEPT !.key = keys[i]]
    BY <1>8
  <2>3. PICK l \in GoodLines, k \in Nat : l = d.lines[i] /\ k = keys[i]
    BY <2>1
  <2>4. [l EXCEPT !.key = k] \in GoodLines /\ [l EXCEPT !.key = k].key = k
    BY DEF GoodLines, Lines, CashTick
  <2>5. QED BY <2>2, <2>3, <2>4
<1>10. lines \in Seq(GoodLines) /\ Len(lines) = n /\ DOMAIN lines = 1..n
  <2>1. DOMAIN lines = 1..n /\ lines = [i \in 1..n |-> lines[i]]
    BY <1>8
  <2>2. lines \in [1..n -> GoodLines]
    BY <1>9, <2>1
  <2>3. QED BY <2>1, <2>2
<1>11. PICK leg : leg = Refilled(f.legs[1], d.legs[1])
  OBVIOUS
<1>12. leg \in GoodLegs
  BY <1>1, <1>11, RefilledLeg
<1>13. PICK g : g = [d EXCEPT !.legs = <<leg>>, !.settled = f.settled, !.lines = lines]
  OBVIOUS
<1>14. VentaRestored(f, d) = g
  <2>1. lines = [i \in DOMAIN d.lines |-> [d.lines[i] EXCEPT !.key =
                   IF i = 1 THEN key ELSE 2 * MaxLines + i]]
    BY <1>1, <1>4, <1>5, <1>8
  <2>2. QED BY <1>2, <1>11, <1>13, <2>1 DEF VentaRestored
<1>15. <<leg>> \in [1..1 -> GoodLegs]
  BY <1>12
<1>16. g \in GoodQuote /\ g.lines = lines
  BY <1>1, <1>4, <1>10, <1>13, <1>15 DEF GoodQuote
<1>17. KeysDiffer(g)
  BY <1>7, <1>9, <1>10, <1>16 DEF KeysDiffer
<1>18. Follows(f, g)
  <2>1. 1 \in 1..n
    BY <1>1, <1>4
  <2>2. g.lines[1].key = key
    BY <1>5, <1>9, <1>16, <2>1
  <2>3. QED BY <1>1, <1>3, <2>2, OtherKey
<1>19. QED BY <1>14, <1>16, <1>17, <1>18

(* What Limpiar leaves.                                                    *)
LEMMA VentaClearedIsGood ==
  ASSUME NEW f \in GoodQuote
  PROVE  LET g == VentaCleared(f)
         IN g \in GoodQuote /\ KeysDiffer(g) /\ Follows(f, g)
<1>1. /\ f.legs[1] \in Legs /\ f.settled \in Nat /\ 1 \in DOMAIN f.lines
      /\ MaxLines \in Nat \ {0}
  BY QuoteFields, GoodLeg, QuoteFormsAssumption
<1>2. PICK key : key = NewKey(f)
  OBVIOUS
<1>3. key \in Nat /\ \A i \in DOMAIN f.lines : f.lines[i].key # key
  BY <1>1, <1>2, GoodLinesAreLines
<1>4. PICK line : line = BlankLine(key)
  OBVIOUS
<1>5. line \in GoodLines /\ line.key = key
  BY <1>3, <1>4, BlankLineIsGood
<1>6. PICK lines : lines = <<line>>
  OBVIOUS
<1>7. lines \in Seq(GoodLines) /\ Len(lines) = 1 /\ lines[1] = line /\ DOMAIN lines = 1..1
  BY <1>5, <1>6
<1>8. PICK leg : leg = [EmptyLeg EXCEPT !.asked = f.legs[1].asked]
  OBVIOUS
<1>9. leg \in GoodLegs
  BY <1>1, <1>8, ClearedLeg
<1>10. PICK g : g = [VentaBlank EXCEPT !.lines = lines, !.settled = f.settled, !.legs = <<leg>>]
  OBVIOUS
<1>11. VentaCleared(f) = g
  <2>1. [VentaBlank.legs EXCEPT ![1].asked = f.legs[1].asked] = <<leg>>
    <3>1. VentaBlank.legs = <<EmptyLeg>>
      BY DEF VentaBlank
    <3>2. [<<EmptyLeg>> EXCEPT ![1].asked = f.legs[1].asked] = <<leg>>
      BY <1>8
    <3>3. QED BY <3>1, <3>2
  <2>2. VentaCleared(f) = [VentaBlank EXCEPT !.lines = <<BlankLine(NewKey(f))>>,
                             !.settled = f.settled,
                             !.legs = [VentaBlank.legs EXCEPT ![1].asked = f.legs[1].asked]]
    BY DEF VentaCleared, VentaBlank
  <2>3. QED BY <1>2, <1>4, <1>6, <1>10, <2>1, <2>2
<1>12. <<leg>> \in [1..1 -> GoodLegs] /\ Len(lines) \in 1..MaxLines
  BY <1>1, <1>7, <1>9
<1>13. g \in GoodQuote /\ g.lines = lines
  BY <1>1, <1>7, <1>10, <1>12, VentaBlankIsGood DEF GoodQuote
<1>14. KeysDiffer(g)
  BY <1>7, <1>13 DEF KeysDiffer
<1>15. Follows(f, g)
  BY <1>1, <1>3, <1>5, <1>7, <1>13, OtherKey
<1>16. QED BY <1>11, <1>13, <1>14, <1>15

-----------------------------------------------------------------------------
(* The form of each type                                                   *)

GoodForm(k) ==
    CASE k \in {"VENTA", "COMPRA"} -> GoodQuote
      [] k \in {"INGRESO_CAPITAL", "RETIRO_CAPITAL", "GASTO"} -> GoodCapital
      [] k = "PAGO_CC_CRUZADO" -> GoodPago
      [] k = "TRASPASO_DEUDA_CC" -> TraspasoForm
      [] k = "TRANSFERENCIA_ENTRE_CUENTAS" -> GoodCuentas
      [] k = "ARBITRAJE" -> GoodArbitraje

LEMMA KindIs ==
  ASSUME NEW k \in Kinds
  PROVE  \/ k \in {"VENTA", "COMPRA"}
         \/ k \in {"INGRESO_CAPITAL", "RETIRO_CAPITAL", "GASTO"}
         \/ k = "PAGO_CC_CRUZADO"
         \/ k = "TRASPASO_DEUDA_CC"
         \/ k = "TRANSFERENCIA_ENTRE_CUENTAS"
         \/ k = "ARBITRAJE"
<1>1. Kinds \subseteq {"VENTA", "COMPRA", "INGRESO_CAPITAL", "RETIRO_CAPITAL", "GASTO",
                       "PAGO_CC_CRUZADO", "TRASPASO_DEUDA_CC", "TRANSFERENCIA_ENTRE_CUENTAS",
                       "ARBITRAJE"}
  BY OperationFormsAssumption, Zenon
<1>2. QED BY <1>1

LEMMA TickedIs ==
  \A f : Ticked(f) <=> /\ \A i \in DOMAIN f.legs : CashTick(f.legs[i])
                       /\ \A i \in DOMAIN f.lines : CashTick(f.lines[i])
BY DEF Ticked, LegsOf, LinesOf, CashTick

LEMMA GoodLegsAre ==
  \A n \in Nat : \A legs :
     legs \in [1..n -> GoodLegs] <=>
        legs \in [1..n -> Legs] /\ \A i \in DOMAIN legs : CashTick(legs[i])
BY DEF GoodLegs

LEMMA GoodLinesAre ==
  \A lines : lines \in Seq(GoodLines) <=>
               lines \in Seq(Lines) /\ \A i \in DOMAIN lines : CashTick(lines[i])
<1>1. SUFFICES ASSUME NEW lines
               PROVE  lines \in Seq(GoodLines) <=>
                        lines \in Seq(Lines) /\ \A i \in DOMAIN lines : CashTick(lines[i])
  OBVIOUS
<1>2. ASSUME lines \in Seq(GoodLines)
      PROVE  lines \in Seq(Lines) /\ \A i \in DOMAIN lines : CashTick(lines[i])
  <2>1. GoodLines \subseteq Lines /\ \A i \in DOMAIN lines : lines[i] \in GoodLines
    BY <1>2 DEF GoodLines
  <2>2. lines \in Seq(Lines)
    BY <1>2, <2>1, SeqMonotonic
  <2>3. QED BY <2>1, <2>2 DEF GoodLines
<1>3. ASSUME lines \in Seq(Lines), \A i \in DOMAIN lines : CashTick(lines[i])
      PROVE  lines \in Seq(GoodLines)
  <2>1. PICK n \in Nat : n = Len(lines) /\ DOMAIN lines = 1..n /\ lines = [i \in 1..n |-> lines[i]]
    BY <1>3
  <2>2. ASSUME NEW i \in 1..n
        PROVE  lines[i] \in GoodLines
    <3>1. i \in 1..Len(lines) /\ i \in DOMAIN lines
      BY <2>1
    <3>2. lines[i] \in Lines
      BY <1>3, <3>1
    <3>3. CashTick(lines[i])
      BY <1>3, <3>1
    <3>4. QED BY <3>2, <3>3 DEF GoodLines
  <2>3. lines \in [1..n -> GoodLines]
    BY <2>1, <2>2
  <2>4. QED BY <2>3
<1>4. QED BY <1>2, <1>3

(* A good form is one of its type that leaves only cash pending.           *)
LEMMA GoodForms ==
  ASSUME NEW k \in Kinds, NEW f
  PROVE  f \in GoodForm(k) <=> f \in FormOf(k) /\ Ticked(f)
<1>1. \A legs : /\ legs \in [1..1 -> GoodLegs] <=>
                     legs \in [1..1 -> Legs] /\ \A i \in DOMAIN legs : CashTick(legs[i])
                /\ legs \in [1..2 -> GoodLegs] <=>
                     legs \in [1..2 -> Legs] /\ \A i \in DOMAIN legs : CashTick(legs[i])
                /\ legs \in [1..3 -> GoodLegs] <=>
                     legs \in [1..3 -> Legs] /\ \A i \in DOMAIN legs : CashTick(legs[i])
  <2>1. 1 \in Nat /\ 2 \in Nat /\ 3 \in Nat
    OBVIOUS
  <2>2. QED BY <2>1, GoodLegsAre, Zenon
<1>2. Ticked(f) <=> /\ \A i \in DOMAIN f.legs : CashTick(f.legs[i])
                    /\ \A i \in DOMAIN f.lines : CashTick(f.lines[i])
  BY TickedIs
<1>3. f.lines = <<>> => DOMAIN f.lines = {}
  OBVIOUS
<1>4. CASE k \in {"VENTA", "COMPRA"}
  <2>1. GoodForm(k) = GoodQuote /\ FormOf(k) = {g \in QuoteForm : Len(g.lines) \in 1..MaxLines}
    BY <1>4 DEF GoodForm, FormOf
  <2>2. f.lines \in Seq(GoodLines) <=>
          f.lines \in Seq(Lines) /\ \A i \in DOMAIN f.lines : CashTick(f.lines[i])
    BY GoodLinesAre
  <2>3. f.legs \in [1..1 -> GoodLegs] <=>
          f.legs \in [1..1 -> Legs] /\ \A i \in DOMAIN f.legs : CashTick(f.legs[i])
    BY <1>1
  <2>4. f \in GoodQuote => f \in QuoteForm /\ Len(f.lines) \in 1..MaxLines /\ Ticked(f)
    BY <1>2, <2>2, <2>3 DEF GoodQuote, QuoteForm
  <2>5. f \in QuoteForm /\ Len(f.lines) \in 1..MaxLines /\ Ticked(f) => f \in GoodQuote
    BY <1>2, <2>2, <2>3 DEF GoodQuote, QuoteForm
  <2>6. QED BY <2>1, <2>4, <2>5
<1>5. CASE k \in {"INGRESO_CAPITAL", "RETIRO_CAPITAL", "GASTO"}
  <2>1. GoodForm(k) = GoodCapital /\ FormOf(k) = CapitalForm
    BY <1>5 DEF GoodForm, FormOf
  <2>2. QED BY <1>1, <1>2, <1>3, <2>1 DEF GoodCapital, CapitalForm
<1>6. CASE k = "PAGO_CC_CRUZADO"
  <2>1. GoodForm(k) = GoodPago /\ FormOf(k) = PagoForm
    BY <1>6 DEF GoodForm, FormOf
  <2>2. QED BY <1>1, <1>2, <1>3, <2>1 DEF GoodPago, PagoForm
<1>7. CASE k = "TRASPASO_DEUDA_CC"
  <2>1. GoodForm(k) = TraspasoForm /\ FormOf(k) = TraspasoForm
    BY <1>7 DEF GoodForm, FormOf
  <2>2. f \in TraspasoForm => DOMAIN f.legs = {} /\ DOMAIN f.lines = {}
    BY DEF TraspasoForm
  <2>3. QED BY <1>2, <2>1, <2>2
<1>8. CASE k = "TRANSFERENCIA_ENTRE_CUENTAS"
  <2>1. GoodForm(k) = GoodCuentas /\ FormOf(k) = CuentasForm
    BY <1>8 DEF GoodForm, FormOf
  <2>2. QED BY <1>1, <1>2, <1>3, <2>1 DEF GoodCuentas, CuentasForm
<1>9. CASE k = "ARBITRAJE"
  <2>1. GoodForm(k) = GoodArbitraje /\ FormOf(k) = ArbitrajeForm
    BY <1>9 DEF GoodForm, FormOf
  <2>2. QED BY <1>1, <1>2, <1>3, <2>1 DEF GoodArbitraje, ArbitrajeForm
<1>10. QED BY <1>4, <1>5, <1>6, <1>7, <1>8, <1>9, KindIs

(* What each operator is for each type.                                    *)
LEMMA OfQuote ==
  ASSUME kind \in {"VENTA", "COMPRA"}
  PROVE  /\ Quoted /\ GoodForm(kind) = GoodQuote /\ Blank = VentaBlank
         /\ \A f : Inputs(f) = VentaInputs(f) /\ Data(f) = QuoteData(f) /\ Emptied(f) = VentaCleared(f)
         /\ \A f, g : Rendered(f, g) = VentaRendered(f, g) /\ Restored(f, g) = VentaRestored(f, g)
<1>1. CASE kind = "VENTA"
  BY <1>1 DEF Quoted, GoodForm, Blank, Inputs, Data, Emptied, Rendered, Restored, VentaData
<1>2. CASE kind = "COMPRA"
  BY <1>2 DEF Quoted, GoodForm, Blank, Inputs, Data, Emptied, Rendered, Restored,
              CompraBlank, CompraInputs, CompraData, CompraCleared, CompraRendered, CompraRestored
<1>3. QED BY <1>1, <1>2

LEMMA OfCapital ==
  ASSUME kind \in {"INGRESO_CAPITAL", "RETIRO_CAPITAL", "GASTO"}
  PROVE  /\ ~Quoted /\ GoodForm(kind) = GoodCapital /\ Blank = CapitalBlank
         /\ \A f : /\ Inputs(f) = IngresoInputs(f) /\ Data(f) = IngresoData(f)
                   /\ Emptied(f) = IngresoCleared(f)
         /\ \A f, g : /\ Rendered(f, g) = IF kind = "RETIRO_CAPITAL" THEN RetiroRendered(f, g)
                                          ELSE IngresoRendered(f, g)
                      /\ Restored(f, g) = IngresoRestored(f, g)
<1>1. CASE kind = "INGRESO_CAPITAL"
  BY <1>1 DEF Quoted, GoodForm, Blank, Inputs, Data, Emptied, Rendered, Restored
<1>2. CASE kind = "RETIRO_CAPITAL"
  BY <1>2 DEF Quoted, GoodForm, Blank, Inputs, Data, Emptied, Rendered, Restored,
              RetiroInputs, RetiroData, RetiroCleared, RetiroRestored
<1>3. CASE kind = "GASTO"
  BY <1>3 DEF Quoted, GoodForm, Blank, Inputs, Data, Emptied, Rendered, Restored,
              GastoInputs, GastoData, GastoCleared, GastoRendered, GastoRestored
<1>4. QED BY <1>1, <1>2, <1>3

LEMMA OfPago ==
  ASSUME kind = "PAGO_CC_CRUZADO"
  PROVE  /\ ~Quoted /\ GoodForm(kind) = GoodPago /\ Blank = PagoBlank
         /\ \A f : Inputs(f) = PagoInputs(f) /\ Data(f) = PagoData(f) /\ Emptied(f) = PagoCleared(f)
         /\ \A f, g : Rendered(f, g) = PagoRendered(f, g) /\ Restored(f, g) = PagoRestored(f, g)
BY DEF Quoted, GoodForm, Blank, Inputs, Data, Emptied, Rendered, Restored

LEMMA OfTraspaso ==
  ASSUME kind = "TRASPASO_DEUDA_CC"
  PROVE  /\ ~Quoted /\ GoodForm(kind) = TraspasoForm /\ Blank = TraspasoBlank
         /\ \A f : Inputs(f) = TraspasoInputs(f) /\ Data(f) = f /\ Emptied(f) = TraspasoBlank
         /\ \A f, g : Rendered(f, g) = g /\ Restored(f, g) = g
BY DEF Quoted, GoodForm, Blank, Inputs, Data, Emptied, Rendered, Restored,
       TraspasoData, TraspasoCleared, TraspasoRendered, TraspasoRestored

LEMMA OfCuentas ==
  ASSUME kind = "TRANSFERENCIA_ENTRE_CUENTAS"
  PROVE  /\ ~Quoted /\ GoodForm(kind) = GoodCuentas /\ Blank = CuentasBlank
         /\ \A f : /\ Inputs(f) = CuentasInputs(f) /\ Data(f) = CuentasData(f)
                   /\ Emptied(f) = CuentasCleared(f)
         /\ \A f, g : Rendered(f, g) = CuentasRendered(f, g) /\ Restored(f, g) = CuentasRestored(f, g)
BY DEF Quoted, GoodForm, Blank, Inputs, Data, Emptied, Rendered, Restored

LEMMA OfArbitraje ==
  ASSUME kind = "ARBITRAJE"
  PROVE  /\ ~Quoted /\ GoodForm(kind) = GoodArbitraje /\ Blank = ArbitrajeBlank
         /\ \A f : /\ Inputs(f) = ArbitrajeInputs(f) /\ Data(f) = ArbitrajeData(f)
                   /\ Emptied(f) = ArbitrajeCleared(f)
         /\ \A f, g : /\ Rendered(f, g) = ArbitrajeRendered(f, g)
                      /\ Restored(f, g) = ArbitrajeRestored(f, g)
BY DEF Quoted, GoodForm, Blank, Inputs, Data, Emptied, Rendered, Restored

-----------------------------------------------------------------------------
(* A step of a form                                                        *)

\* What every form shown is.
Consistent(f) ==
    /\ f \in GoodForm(kind)
    /\ KeysDiffer(f)
    /\ Quoted => AutoLine(f) /\ EmptyIsAuto(f)

\* What an input, an answer or a draft makes of f, before it is rendered.
Reaches(f, g) ==
    /\ g \in GoodForm(kind)
    /\ KeysDiffer(g)
    /\ Quoted => Follows(f, g)

\* A leg fits its currency, the second of a transfer between accounts that of the first.
LegsFit(f) ==
    \A i \in DOMAIN f.legs :
        Fits(f.legs[i], IF kind = "TRANSFERENCIA_ENTRE_CUENTAS" THEN f.legs[1].currency
                        ELSE f.legs[i].currency)

\* ... and a line that of the quote.  A withdrawal does not see to it.
FormFits(f) ==
    kind # "RETIRO_CAPITAL" =>
        LegsFit(f) /\ (Quoted => \A i \in DOMAIN f.lines : Fits(f.lines[i], f.quote))

LEMMA NoLines ==
  ASSUME kind \in Kinds, ~Quoted, NEW f \in GoodForm(kind)
  PROVE  f.lines = <<>> /\ KeysDiffer(f)
<1>1. /\ \A g \in GoodCapital : g.lines = <<>>
      /\ \A g \in GoodPago : g.lines = <<>>
      /\ \A g \in TraspasoForm : g.lines = <<>>
      /\ \A g \in GoodCuentas : g.lines = <<>>
      /\ \A g \in GoodArbitraje : g.lines = <<>>
  BY DEF GoodCapital, GoodPago, TraspasoForm, GoodCuentas, GoodArbitraje
<1>2. GoodForm(kind) \in {GoodCapital, GoodPago, TraspasoForm, GoodCuentas, GoodArbitraje}
  BY KindIs, OfCapital, OfPago, OfTraspaso, OfCuentas, OfArbitraje DEF Quoted
<1>3. f.lines = <<>>
  BY <1>1, <1>2
<1>4. DOMAIN f.lines = {}
  BY <1>3
<1>5. QED BY <1>3, <1>4 DEF KeysDiffer

LEMMA WithoutListFits ==
  ASSUME NEW leg, leg.list = "", NEW currency
  PROVE  Fits(leg, currency)
BY DEF Fits, AllowedFormats

LEMMA EmptyLegsHaveNoList ==
  ASSUME NEW f, \/ f.legs = <<>> \/ f.legs = <<EmptyLeg>> \/ f.legs = <<EmptyLeg, EmptyLeg>>
                \/ f.legs = <<EmptyLeg, EmptyLeg, EmptyLeg>>
  PROVE  LegsFit(f)
<1>1. PICK leg : leg = EmptyLeg
  OBVIOUS
<1>2. leg.list = ""
  BY <1>1 DEF EmptyLeg
<1>3. PICK legs : legs = f.legs
  OBVIOUS
<1>4. \/ legs = <<>> \/ legs = <<leg>> \/ legs = <<leg, leg>> \/ legs = <<leg, leg, leg>>
  BY <1>1, <1>3
<1>5. \A i \in DOMAIN legs : legs[i] = leg
  BY <1>4
<1>6. \A i \in DOMAIN f.legs : f.legs[i].list = ""
  BY <1>2, <1>3, <1>5
<1>7. QED BY <1>6, WithoutListFits DEF LegsFit

LEMMA BlankIsConsistent ==
  ASSUME kind \in Kinds
  PROVE  Consistent(Blank) /\ FormFits(Blank)
<1>1. CASE kind \in {"VENTA", "COMPRA"}
  <2>1. Quoted /\ GoodForm(kind) = GoodQuote /\ Blank = VentaBlank
    BY <1>1, OfQuote
  <2>2. VentaBlank.legs = <<EmptyLeg>> /\ VentaBlank.lines = <<BlankLine(1)>>
    BY DEF VentaBlank
  <2>3. LegsFit(VentaBlank)
    BY <2>2, EmptyLegsHaveNoList
  <2>4. \A i \in DOMAIN VentaBlank.lines : Fits(VentaBlank.lines[i], VentaBlank.quote)
    <3>1. PICK line : line = BlankLine(1)
      OBVIOUS
    <3>2. line.list = ""
      BY <3>1 DEF BlankLine
    <3>3. PICK lines : lines = VentaBlank.lines
      OBVIOUS
    <3>4. \A i \in DOMAIN lines : lines[i] = line
      BY <2>2, <3>1, <3>3
    <3>5. QED BY <3>2, <3>3, <3>4, WithoutListFits
  <2>5. QED BY <2>1, <2>3, <2>4, VentaBlankIsGood DEF Consistent, FormFits
<1>2. CASE kind \notin {"VENTA", "COMPRA"}
  <2>1. ~Quoted
    BY <1>2 DEF Quoted
  <2>2. /\ Blank \in GoodForm(kind)
        /\ \/ Blank.legs = <<>> \/ Blank.legs = <<EmptyLeg>> \/ Blank.legs = <<EmptyLeg, EmptyLeg>>
           \/ Blank.legs = <<EmptyLeg, EmptyLeg, EmptyLeg>>
    <3>1. CASE kind \in {"INGRESO_CAPITAL", "RETIRO_CAPITAL", "GASTO"}
      <4>1. CapitalBlank.legs = <<EmptyLeg>>
        BY DEF CapitalBlank
      <4>2. GoodForm(kind) = GoodCapital /\ Blank = CapitalBlank
        BY <3>1, OfCapital
      <4>3. QED BY <4>1, <4>2, CapitalBlankIsGood
    <3>2. CASE kind = "PAGO_CC_CRUZADO"
      <4>1. PagoBlank.legs = <<EmptyLeg>>
        BY DEF PagoBlank
      <4>2. GoodForm(kind) = GoodPago /\ Blank = PagoBlank
        BY <3>2, OfPago
      <4>3. QED BY <4>1, <4>2, PagoBlankIsGood
    <3>3. CASE kind = "TRASPASO_DEUDA_CC"
      <4>1. TraspasoBlank \in TraspasoForm /\ TraspasoBlank.legs = <<>>
        BY DEF TraspasoBlank, TraspasoForm, Maybe
      <4>2. GoodForm(kind) = TraspasoForm /\ Blank = TraspasoBlank
        BY <3>3, OfTraspaso
      <4>3. QED BY <4>1, <4>2
    <3>4. CASE kind = "TRANSFERENCIA_ENTRE_CUENTAS"
      <4>1. CuentasBlank.legs = <<EmptyLeg, EmptyLeg>>
        BY DEF CuentasBlank
      <4>2. GoodForm(kind) = GoodCuentas /\ Blank = CuentasBlank
        BY <3>4, OfCuentas
      <4>3. QED BY <4>1, <4>2, CuentasBlankIsGood
    <3>5. CASE kind = "ARBITRAJE"
      <4>1. ArbitrajeBlank.legs = <<EmptyLeg, EmptyLeg, EmptyLeg>>
        BY DEF ArbitrajeBlank
      <4>2. GoodForm(kind) = GoodArbitraje /\ Blank = ArbitrajeBlank
        BY <3>5, OfArbitraje
      <4>3. QED BY <4>1, <4>2, ArbitrajeBlankIsGood
    <3>6. QED BY <1>2, <3>1, <3>2, <3>3, <3>4, <3>5, KindIs
  <2>3. KeysDiffer(Blank) /\ LegsFit(Blank)
    BY <2>1, <2>2, NoLines, EmptyLegsHaveNoList
  <2>4. QED BY <2>1, <2>2, <2>3 DEF Consistent, FormFits
<1>3. QED BY <1>1, <1>2

(* Without lines to follow, a form of the type is enough.                  *)
LEMMA ReachesAnother ==
  ASSUME kind \in Kinds, ~Quoted, NEW f, NEW g \in GoodForm(kind)
  PROVE  Reaches(f, g)
BY NoLines DEF Reaches

LEMMA GoodFormIsOfType ==
  ASSUME kind \in Kinds, NEW f \in GoodForm(kind)
  PROVE  f \in FormOf(kind)
BY GoodForms

(* Every input, draft and Limpiar leads to a form that can be rendered.    *)
LEMMA FormsReached ==
  ASSUME kind \in Kinds, NEW f, Consistent(f), NEW d \in GoodForm(kind)
  PROVE  /\ \A g \in Inputs(f) : Reaches(f, g)
         /\ Reaches(f, Emptied(f))
         /\ Reaches(f, Restored(f, d))
         /\ Data(f) \in GoodForm(kind)
<1>1. f \in GoodForm(kind) /\ KeysDiffer(f) /\ f \in FormOf(kind)
  BY GoodFormIsOfType DEF Consistent
<1>2. CASE kind \in {"VENTA", "COMPRA"}
  <2>1. Quoted /\ GoodForm(kind) = GoodQuote
    BY <1>2, OfQuote
  <2>2. f \in GoodQuote /\ d \in GoodQuote
    BY <1>1, <2>1
  <2>3. /\ \A g \in Inputs(f) : g \in VentaInputs(f)
        /\ Emptied(f) = VentaCleared(f) /\ Restored(f, d) = VentaRestored(f, d)
        /\ Data(f) = QuoteData(f)
    BY <1>2, OfQuote
  <2>4. \A g \in Inputs(f) : g \in GoodQuote /\ KeysDiffer(g) /\ Follows(f, g)
    BY <1>1, <2>2, <2>3, VentaInputsAreGood
  <2>5. QED BY <2>1, <2>2, <2>3, <2>4, VentaClearedIsGood, VentaRestoredIsGood, QuoteDataIsGood
            DEF Reaches
<1>3. CASE kind \in {"INGRESO_CAPITAL", "RETIRO_CAPITAL", "GASTO"}
  <2>1. ~Quoted /\ GoodForm(kind) = GoodCapital /\ f \in CapitalForm
    BY <1>1, <1>3, OfCapital DEF FormOf
  <2>2. f \in GoodCapital /\ d \in GoodCapital
    BY <1>1, <2>1
  <2>3. /\ Inputs(f) = IngresoInputs(f) /\ Emptied(f) = IngresoCleared(f)
        /\ Restored(f, d) = IngresoRestored(f, d) /\ Data(f) = IngresoData(f)
    BY <1>3, OfCapital
  <2>4. /\ IngresoInputs(f) \subseteq GoodCapital /\ IngresoCleared(f) \in GoodCapital
        /\ IngresoRestored(f, d) \in GoodCapital /\ IngresoData(f) \in GoodCapital
    BY <2>1, <2>2, CapitalIsGood
  <2>5. QED BY <2>1, <2>3, <2>4, ReachesAnother
<1>4. CASE kind = "PAGO_CC_CRUZADO"
  <2>1. ~Quoted /\ GoodForm(kind) = GoodPago /\ f \in PagoForm
    BY <1>1, <1>4, OfPago DEF FormOf
  <2>2. f \in GoodPago /\ d \in GoodPago
    BY <1>1, <2>1
  <2>3. /\ Inputs(f) = PagoInputs(f) /\ Emptied(f) = PagoCleared(f)
        /\ Restored(f, d) = PagoRestored(f, d) /\ Data(f) = PagoData(f)
    BY <1>4, OfPago
  <2>4. /\ PagoInputs(f) \subseteq GoodPago /\ PagoCleared(f) \in GoodPago
        /\ PagoRestored(f, d) \in GoodPago /\ PagoData(f) \in GoodPago
    BY <2>1, <2>2, PagoIsGood
  <2>5. QED BY <2>1, <2>3, <2>4, ReachesAnother
<1>5. CASE kind = "TRASPASO_DEUDA_CC"
  <2>1. ~Quoted /\ GoodForm(kind) = TraspasoForm
    BY <1>5, OfTraspaso
  <2>2. f \in TraspasoForm /\ d \in TraspasoForm
    BY <1>1, <2>1
  <2>3. /\ Inputs(f) = TraspasoInputs(f) /\ Emptied(f) = TraspasoBlank
        /\ Restored(f, d) = d /\ Data(f) = f
    BY <1>5, OfTraspaso
  <2>4. TraspasoInputs(f) \subseteq TraspasoForm /\ TraspasoBlank \in TraspasoForm
    BY <2>2, TraspasoIsGood
  <2>5. QED BY <2>1, <2>2, <2>3, <2>4, ReachesAnother
<1>6. CASE kind = "TRANSFERENCIA_ENTRE_CUENTAS"
  <2>1. ~Quoted /\ GoodForm(kind) = GoodCuentas /\ f \in CuentasForm
    BY <1>1, <1>6, OfCuentas DEF FormOf
  <2>2. f \in GoodCuentas /\ d \in GoodCuentas
    BY <1>1, <2>1
  <2>3. /\ Inputs(f) = CuentasInputs(f) /\ Emptied(f) = CuentasCleared(f)
        /\ Restored(f, d) = CuentasRestored(f, d) /\ Data(f) = CuentasData(f)
    BY <1>6, OfCuentas
  <2>4. /\ CuentasInputs(f) \subseteq GoodCuentas /\ CuentasCleared(f) \in GoodCuentas
        /\ CuentasRestored(f, d) \in GoodCuentas /\ CuentasData(f) \in GoodCuentas
    BY <2>1, <2>2, CuentasIsGood
  <2>5. QED BY <2>1, <2>3, <2>4, ReachesAnother
<1>7. CASE kind = "ARBITRAJE"
  <2>1. ~Quoted /\ GoodForm(kind) = GoodArbitraje /\ f \in ArbitrajeForm
    BY <1>1, <1>7, OfArbitraje DEF FormOf
  <2>2. f \in GoodArbitraje /\ d \in GoodArbitraje
    BY <1>1, <2>1
  <2>3. /\ Inputs(f) = ArbitrajeInputs(f) /\ Emptied(f) = ArbitrajeCleared(f)
        /\ Restored(f, d) = ArbitrajeRestored(f, d) /\ Data(f) = ArbitrajeData(f)
    BY <1>7, OfArbitraje
  <2>4. /\ ArbitrajeInputs(f) \subseteq GoodArbitraje /\ ArbitrajeCleared(f) \in GoodArbitraje
        /\ ArbitrajeRestored(f, d) \in GoodArbitraje /\ ArbitrajeData(f) \in GoodArbitraje
    BY <2>1, <2>2, ArbitrajeInputsAreGood, ArbitrajeIsGood
  <2>5. QED BY <2>1, <2>3, <2>4, ReachesAnother
<1>8. QED BY <1>2, <1>3, <1>4, <1>5, <1>6, <1>7, KindIs

(* A rendered form is consistent, its legs and lines fit, and its legs     *)
(* keep their amounts.                                                     *)
LEMMA FormsRendered ==
  ASSUME kind \in Kinds, NEW old, Consistent(old), NEW new, Reaches(old, new)
  PROVE  LET g == Rendered(old, new)
         IN /\ Consistent(g)
            /\ FormFits(g)
            /\ \A i \in DOMAIN g.legs : g.legs[i].amount = new.legs[i].amount
<1>1. /\ old \in GoodForm(kind) /\ new \in GoodForm(kind) /\ old \in FormOf(kind)
      /\ KeysDiffer(old) /\ KeysDiffer(new)
  BY GoodFormIsOfType DEF Consistent, Reaches
<1>2. CASE kind \in {"VENTA", "COMPRA"}
  <2>1. Quoted /\ GoodForm(kind) = GoodQuote
    BY <1>2, OfQuote
  <2>2. /\ old \in GoodQuote /\ new \in GoodQuote
        /\ AutoLine(old) /\ Follows(old, new)
    BY <1>1, <2>1 DEF Consistent, Reaches
  <2>3. PICK g : g = VentaRendered(old, new)
    OBVIOUS
  <2>4. Rendered(old, new) = g
    BY <1>2, <2>3, OfQuote
  <2>5. /\ g \in GoodQuote
        /\ Fits(g.legs[1], g.legs[1].currency)
        /\ g.legs[1].amount = new.legs[1].amount
        /\ DOMAIN g.lines = DOMAIN new.lines
        /\ \A i \in DOMAIN new.lines : Fits(g.lines[i], g.quote)
    BY <2>2, <2>3, VentaIsRendered
  <2>6. KeysDiffer(g) /\ AutoLine(g) /\ EmptyIsAuto(g)
    BY <1>1, <2>2, <2>3, VentaStaysAutomatic
  <2>7. g.legs \in [1..1 -> GoodLegs]
    BY <2>5, QuoteFields
  <2>8. DOMAIN g.legs = {1}
    BY <2>7
  <2>9. kind # "TRANSFERENCIA_ENTRE_CUENTAS"
    BY <1>2
  <2>10. FormFits(g)
    BY <2>5, <2>8, <2>9 DEF FormFits, LegsFit
  <2>11. QED BY <2>1, <2>4, <2>5, <2>6, <2>8, <2>10 DEF Consistent
<1>3. ASSUME ~Quoted, NEW g, g = Rendered(old, new), g \in GoodForm(kind),
             kind # "RETIRO_CAPITAL" => LegsFit(g),
             \A i \in DOMAIN g.legs : g.legs[i].amount = new.legs[i].amount
      PROVE  /\ Consistent(Rendered(old, new))
             /\ FormFits(Rendered(old, new))
             /\ \A i \in DOMAIN Rendered(old, new).legs :
                  Rendered(old, new).legs[i].amount = new.legs[i].amount
  <2>1. KeysDiffer(g)
    BY <1>3, NoLines
  <2>2. QED BY <1>3, <2>1 DEF Consistent, FormFits
<1>4. CASE kind \in {"INGRESO_CAPITAL", "RETIRO_CAPITAL", "GASTO"}
  <2>1. ~Quoted /\ GoodForm(kind) = GoodCapital /\ old \in CapitalForm /\ new \in GoodCapital
    BY <1>1, <1>4, OfCapital DEF FormOf
  <2>2. PICK g : g = Rendered(old, new)
    OBVIOUS
  <2>3. g = IF kind = "RETIRO_CAPITAL" THEN RetiroRendered(old, new) ELSE IngresoRendered(old, new)
    BY <1>4, <2>2, OfCapital
  <2>4. /\ g \in GoodCapital /\ g.legs[1].amount = new.legs[1].amount
        /\ kind # "RETIRO_CAPITAL" => Fits(g.legs[1], g.legs[1].currency)
    BY <2>1, <2>3, CapitalIsGood, RetiroIsGood
  <2>5. g.legs \in [1..1 -> GoodLegs]
    BY <2>4 DEF GoodCapital
  <2>6. DOMAIN g.legs = {1} /\ kind # "TRANSFERENCIA_ENTRE_CUENTAS"
    BY <1>4, <2>5
  <2>7. kind # "RETIRO_CAPITAL" => LegsFit(g)
    BY <2>4, <2>6 DEF LegsFit
  <2>8. \A i \in DOMAIN g.legs : g.legs[i].amount = new.legs[i].amount
    BY <2>4, <2>6
  <2>9. QED BY <1>3, <2>1, <2>2, <2>4, <2>7, <2>8
<1>5. CASE kind = "PAGO_CC_CRUZADO"
  <2>1. ~Quoted /\ GoodForm(kind) = GoodPago /\ old \in PagoForm /\ new \in GoodPago
    BY <1>1, <1>5, OfPago DEF FormOf
  <2>2. PICK g : g = Rendered(old, new)
    OBVIOUS
  <2>3. g = PagoRendered(old, new)
    BY <1>5, <2>2, OfPago
  <2>4. /\ g \in GoodPago /\ g.legs[1].amount = new.legs[1].amount
        /\ Fits(g.legs[1], g.legs[1].currency)
    BY <2>1, <2>3, PagoIsGood
  <2>5. g.legs \in [1..1 -> GoodLegs]
    BY <2>4 DEF GoodPago
  <2>6. DOMAIN g.legs = {1} /\ kind # "TRANSFERENCIA_ENTRE_CUENTAS"
    BY <1>5, <2>5
  <2>7. LegsFit(g)
    BY <2>4, <2>6 DEF LegsFit
  <2>8. \A i \in DOMAIN g.legs : g.legs[i].amount = new.legs[i].amount
    BY <2>4, <2>6
  <2>9. QED BY <1>3, <2>1, <2>2, <2>4, <2>7, <2>8
<1>6. CASE kind = "TRASPASO_DEUDA_CC"
  <2>1. ~Quoted /\ Rendered(old, new) = new /\ new \in TraspasoForm
    BY <1>1, <1>6, OfTraspaso
  <2>2. DOMAIN new.legs = {}
    BY <2>1 DEF TraspasoForm
  <2>3. LegsFit(new)
    BY <2>2 DEF LegsFit
  <2>4. QED BY <1>1, <1>3, <2>1, <2>2, <2>3
<1>7. CASE kind = "TRANSFERENCIA_ENTRE_CUENTAS"
  <2>1. ~Quoted /\ GoodForm(kind) = GoodCuentas /\ old \in CuentasForm /\ new \in GoodCuentas
    BY <1>1, <1>7, OfCuentas DEF FormOf
  <2>2. PICK g : g = Rendered(old, new)
    OBVIOUS
  <2>3. g = CuentasRendered(old, new)
    BY <1>7, <2>2, OfCuentas
  <2>4. /\ g \in GoodCuentas
        /\ \A i \in 1..2 : Fits(g.legs[i], g.legs[1].currency) /\ g.legs[i].amount = new.legs[i].amount
    BY <2>1, <2>3, CuentasIsGood
  <2>5. g.legs \in [1..2 -> GoodLegs]
    BY <2>4 DEF GoodCuentas
  <2>6. DOMAIN g.legs = 1..2
    BY <2>5
  <2>7. LegsFit(g)
    BY <1>7, <2>4, <2>6 DEF LegsFit
  <2>8. \A i \in DOMAIN g.legs : g.legs[i].amount = new.legs[i].amount
    BY <2>4, <2>6
  <2>9. QED BY <1>3, <2>1, <2>2, <2>4, <2>7, <2>8
<1>8. CASE kind = "ARBITRAJE"
  <2>1. ~Quoted /\ GoodForm(kind) = GoodArbitraje /\ old \in ArbitrajeForm /\ new \in GoodArbitraje
    BY <1>1, <1>8, OfArbitraje DEF FormOf
  <2>2. PICK g : g = Rendered(old, new)
    OBVIOUS
  <2>3. g = ArbitrajeRendered(old, new)
    BY <1>8, <2>2, OfArbitraje
  <2>4. /\ g \in GoodArbitraje
        /\ \A i \in 1..3 : Fits(g.legs[i], g.legs[i].currency) /\ g.legs[i].amount = new.legs[i].amount
    BY <2>1, <2>3, ArbitrajeIsGood
  <2>5. g.legs \in [1..3 -> GoodLegs]
    BY <2>4 DEF GoodArbitraje
  <2>6. DOMAIN g.legs = 1..3
    BY <2>5
  <2>7. LegsFit(g)
    BY <1>8, <2>4, <2>6 DEF LegsFit
  <2>8. \A i \in DOMAIN g.legs : g.legs[i].amount = new.legs[i].amount
    BY <2>4, <2>6
  <2>9. QED BY <1>3, <2>1, <2>2, <2>4, <2>7, <2>8
<1>9. QED BY <1>2, <1>4, <1>5, <1>6, <1>7, <1>8, KindIs

(* A step that leaves the amounts alone, but for its render.               *)
LEMMA RenderKeepsAmounts ==
  ASSUME kind \in Kinds, NEW old, Consistent(old), NEW new, Reaches(old, new),
         Quoted => /\ Len(new.lines) = Len(old.lines) /\ new.first = old.first
                   /\ \A i \in DOMAIN old.lines : new.lines[i].amount = old.lines[i].amount
  PROVE  \/ AmountsOf(Rendered(old, new).lines) = AmountsOf(old.lines)
         \/ Quoted /\ Len(old.lines) = 1 /\ old.first = "AUTO"
<1>1. old \in GoodForm(kind) /\ new \in GoodForm(kind)
  BY DEF Consistent, Reaches
<1>2. CASE Quoted
  <2>1. kind \in {"VENTA", "COMPRA"}
    BY <1>2 DEF Quoted
  <2>2. GoodForm(kind) = GoodQuote /\ Rendered(old, new) = VentaRendered(old, new)
    BY <2>1, OfQuote
  <2>3. old \in GoodQuote /\ new \in GoodQuote /\ EmptyIsAuto(old)
    BY <1>1, <1>2, <2>2 DEF Consistent
  <2>4. QED BY <1>2, <2>2, <2>3, LineAmountsStay
<1>3. CASE ~Quoted
  <2>1. Rendered(old, new) \in GoodForm(kind)
    BY FormsRendered DEF Consistent
  <2>2. Rendered(old, new).lines = <<>> /\ old.lines = <<>>
    BY <1>1, <1>3, <2>1, NoLines
  <2>3. QED BY <2>2
<1>4. QED BY <1>2, <1>3

(* A leg replaced by another with its amount.                              *)
LEMMA LegsMap ==
  ASSUME NEW f, NEW n \in Nat, f.legs \in [1..n -> GoodLegs], NEW i \in DOMAIN f.legs,
         NEW a \in Accounts, NEW ok \in BOOLEAN
  PROVE  /\ f.legs[i] \in GoodLegs
         /\ ListAnswered(f.legs[i], a, ok) \in GoodLegs
         /\ ListAnswered(f.legs[i], a, ok).amount = f.legs[i].amount
         /\ [f.legs EXCEPT ![i] = ListAnswered(f.legs[i], a, ok)] \in [1..n -> GoodLegs]
<1>1. f.legs[i] \in GoodLegs
  OBVIOUS
<1>2. PICK leg : leg = f.legs[i]
  OBVIOUS
<1>3. /\ ListAnswered(leg, a, ok) \in GoodLegs
      /\ ListAnswered(leg, a, ok).amount = leg.amount
  BY <1>1, <1>2, AnswersOfLeg, GoodLeg
<1>4. PICK answered \in GoodLegs : answered = ListAnswered(leg, a, ok)
  BY <1>3
<1>5. [f.legs EXCEPT ![i] = answered] \in [1..n -> GoodLegs]
  OBVIOUS
<1>6. QED BY <1>1, <1>2, <1>3, <1>4, <1>5

(* The legs of a form of each type.                                        *)
LEMMA LegsOfForm ==
  ASSUME kind \in Kinds, NEW f \in GoodForm(kind)
  PROVE  \E n \in Nat : /\ f.legs \in [1..n -> GoodLegs]
                        /\ \A legs \in [1..n -> GoodLegs] :
                             [f EXCEPT !.legs = legs] \in GoodForm(kind)
<1>0. 0 \in Nat /\ 1 \in Nat /\ 2 \in Nat /\ 3 \in Nat
  OBVIOUS
<1>1. CASE kind \in {"VENTA", "COMPRA"}
  <2>1. GoodForm(kind) = GoodQuote
    BY <1>1, OfQuote
  <2>2. f.legs \in [1..1 -> GoodLegs]
        /\ \A legs \in [1..1 -> GoodLegs] : [f EXCEPT !.legs = legs] \in GoodQuote
    BY <2>1 DEF GoodQuote
  <2>3. QED BY <1>0, <2>1, <2>2
<1>2. CASE kind \in {"INGRESO_CAPITAL", "RETIRO_CAPITAL", "GASTO"}
  <2>1. GoodForm(kind) = GoodCapital
    BY <1>2, OfCapital
  <2>2. f.legs \in [1..1 -> GoodLegs]
        /\ \A legs \in [1..1 -> GoodLegs] : [f EXCEPT !.legs = legs] \in GoodCapital
    BY <2>1 DEF GoodCapital
  <2>3. QED BY <1>0, <2>1, <2>2
<1>3. CASE kind = "PAGO_CC_CRUZADO"
  <2>1. GoodForm(kind) = GoodPago
    BY <1>3, OfPago
  <2>2. f.legs \in [1..1 -> GoodLegs]
        /\ \A legs \in [1..1 -> GoodLegs] : [f EXCEPT !.legs = legs] \in GoodPago
    BY <2>1 DEF GoodPago
  <2>3. QED BY <1>0, <2>1, <2>2
<1>4. CASE kind = "TRASPASO_DEUDA_CC"
  <2>1. GoodForm(kind) = TraspasoForm
    BY <1>4, OfTraspaso
  <2>2. <<>> \in [1..0 -> GoodLegs] /\ \A legs \in [1..0 -> GoodLegs] : legs = <<>>
    <3>1. 1..0 = {}
      OBVIOUS
    <3>2. \A legs \in [1..0 -> GoodLegs] : legs \in Seq(GoodLegs) /\ Len(legs) = 0
      OBVIOUS
    <3>3. \A legs \in Seq(GoodLegs) : Len(legs) = 0 => legs = <<>>
      OBVIOUS
    <3>4. QED BY <3>1, <3>2, <3>3
  <2>3. f.legs = <<>>
        /\ \A legs \in {<<>>} : [f EXCEPT !.legs = legs] \in TraspasoForm
    BY <2>1 DEF TraspasoForm
  <2>4. PICK empty : empty = [1..0 -> GoodLegs]
    OBVIOUS
  <2>5. f.legs \in empty /\ \A legs \in empty : [f EXCEPT !.legs = legs] \in GoodForm(kind)
    BY <2>1, <2>2, <2>3, <2>4
  <2>6. QED BY <1>0, <2>4, <2>5, Zenon
<1>5. CASE kind = "TRANSFERENCIA_ENTRE_CUENTAS"
  <2>1. GoodForm(kind) = GoodCuentas
    BY <1>5, OfCuentas
  <2>2. f.legs \in [1..2 -> GoodLegs]
        /\ \A legs \in [1..2 -> GoodLegs] : [f EXCEPT !.legs = legs] \in GoodCuentas
    BY <2>1 DEF GoodCuentas
  <2>3. QED BY <1>0, <2>1, <2>2
<1>6. CASE kind = "ARBITRAJE"
  <2>1. GoodForm(kind) = GoodArbitraje
    BY <1>6, OfArbitraje
  <2>2. f.legs \in [1..3 -> GoodLegs]
        /\ \A legs \in [1..3 -> GoodLegs] : [f EXCEPT !.legs = legs] \in GoodArbitraje
    BY <2>1 DEF GoodArbitraje
  <2>3. QED BY <1>0, <2>1, <2>2
<1>7. QED BY <1>1, <1>2, <1>3, <1>4, <1>5, <1>6, KindIs

(* Other legs leave everything else of a form as it is.                    *)
LEMMA OtherLegs ==
  ASSUME kind \in Kinds, NEW f \in GoodForm(kind), NEW legs
  PROVE  /\ [f EXCEPT !.legs = legs].legs = legs
         /\ [f EXCEPT !.legs = legs].lines = f.lines
         /\ Quoted => [f EXCEPT !.legs = legs].first = f.first
<1>1. CASE Quoted
  <2>1. f \in GoodQuote
    BY <1>1, OfQuote DEF Quoted
  <2>2. QED BY <2>1 DEF GoodQuote
<1>2. CASE ~Quoted
  <2>1. GoodForm(kind) \in {GoodCapital, GoodPago, TraspasoForm, GoodCuentas, GoodArbitraje}
    BY <1>2, KindIs, OfCapital, OfPago, OfTraspaso, OfCuentas, OfArbitraje DEF Quoted
  <2>2. QED BY <1>2, <2>1 DEF GoodCapital, GoodPago, TraspasoForm, GoodCuentas, GoodArbitraje
<1>3. QED BY <1>1, <1>2

(* The list of an account arrives at a leg.                                *)
LEMMA LegListReaches ==
  ASSUME kind \in Kinds, NEW f, Consistent(f), NEW i \in DOMAIN f.legs,
         NEW a \in Accounts, NEW ok \in BOOLEAN
  PROVE  LET g == [f EXCEPT !.legs[i] = ListAnswered(f.legs[i], a, ok)]
         IN /\ Reaches(f, g)
            /\ g.lines = f.lines /\ (Quoted => g.first = f.first)
            /\ \A j \in DOMAIN f.legs : g.legs[j].amount = f.legs[j].amount
<1>1. f \in GoodForm(kind) /\ KeysDiffer(f)
  BY DEF Consistent
<1>2. PICK n \in Nat : /\ f.legs \in [1..n -> GoodLegs]
                       /\ \A legs \in [1..n -> GoodLegs] : [f EXCEPT !.legs = legs] \in GoodForm(kind)
  BY <1>1, LegsOfForm
<1>3. PICK answered : answered = ListAnswered(f.legs[i], a, ok)
  OBVIOUS
<1>4. PICK legs : legs = [f.legs EXCEPT ![i] = answered]
  OBVIOUS
<1>5. legs \in [1..n -> GoodLegs] /\ answered.amount = f.legs[i].amount
  BY <1>2, <1>3, <1>4, LegsMap
<1>6. \A j \in DOMAIN f.legs : legs[j].amount = f.legs[j].amount
  BY <1>2, <1>4, <1>5
<1>7. PICK g : g = [f EXCEPT !.legs = legs]
  OBVIOUS
<1>8. g = [f EXCEPT !.legs[i] = ListAnswered(f.legs[i], a, ok)]
  BY <1>3, <1>4, <1>7
<1>9. /\ g \in GoodForm(kind) /\ g.legs = legs /\ g.lines = f.lines
      /\ Quoted => g.first = f.first
  BY <1>1, <1>2, <1>5, <1>7, OtherLegs
<1>10. KeysDiffer(g) /\ (Quoted => Follows(f, g))
  <2>1. CASE Quoted
    <3>1. f \in GoodQuote
      BY <1>1, <2>1, OfQuote DEF Quoted
    <3>2. QED BY <1>1, <1>9, <3>1, SameLines
  <2>2. CASE ~Quoted
    BY <1>9, <2>2, NoLines
  <2>3. QED BY <2>1, <2>2
<1>11. QED BY <1>6, <1>8, <1>9, <1>10 DEF Reaches

(* ... and at a line.                                                      *)
LEMMA LineListReaches ==
  ASSUME kind \in Kinds, NEW f, Consistent(f), NEW i \in DOMAIN f.lines,
         NEW a \in Accounts, NEW ok \in BOOLEAN
  PROVE  LET g == [f EXCEPT !.lines[i] = LineListAnswered(f.lines[i], a, ok)]
         IN /\ Quoted
            /\ Reaches(f, g)
            /\ g.legs = f.legs /\ g.first = f.first /\ Len(g.lines) = Len(f.lines)
            /\ \A j \in DOMAIN f.lines : g.lines[j].amount = f.lines[j].amount
<1>1. f \in GoodForm(kind) /\ KeysDiffer(f)
  BY DEF Consistent
<1>2. Quoted
  <2>1. f.lines = <<>> => DOMAIN f.lines = {}
    OBVIOUS
  <2>2. QED BY <1>1, <2>1, NoLines
<1>3. f \in GoodQuote /\ GoodForm(kind) = GoodQuote
  BY <1>1, <1>2, OfQuote DEF Quoted
<1>4. f.lines[i] \in GoodLines /\ Len(f.lines) \in 1..MaxLines
  BY <1>3, QuoteFields
<1>5. PICK line : line = LineListAnswered(f.lines[i], a, ok)
  OBVIOUS
<1>6. line \in GoodLines /\ line.amount = f.lines[i].amount /\ line.key = f.lines[i].key
  <2>1. PICK old : old = f.lines[i]
    OBVIOUS
  <2>2. old \in Lines /\ CashTick(old)
    BY <1>4, <2>1, GoodLine
  <2>3. QED BY <1>5, <2>1, <2>2, AnswersOfLine, GoodLine
<1>7. PICK lines : lines = [f.lines EXCEPT ![i] = line]
  OBVIOUS
<1>8. /\ lines \in Seq(GoodLines) /\ Len(lines) = Len(f.lines)
      /\ lines[i] = line /\ \A j \in DOMAIN f.lines : j # i => lines[j] = f.lines[j]
      /\ \A g : g.lines = lines => KeysDiffer(g)
  BY <1>1, <1>3, <1>6, <1>7, LineReplaced
<1>9. PICK g : g = [f EXCEPT !.lines = lines]
  OBVIOUS
<1>10. g = [f EXCEPT !.lines[i] = LineListAnswered(f.lines[i], a, ok)]
  BY <1>5, <1>7, <1>9
<1>11. g \in GoodQuote
  BY <1>3, <1>4, <1>8, <1>9, QuoteChanged
<1>12. g.lines = lines /\ g.legs = f.legs /\ g.first = f.first
  BY <1>3, <1>9 DEF GoodQuote
<1>13. \A j \in DOMAIN f.lines : lines[j].amount = f.lines[j].amount
  BY <1>6, <1>8
<1>14. KeysDiffer(g)
  BY <1>8, <1>12
<1>15. Follows(f, g)
  <2>1. Len(f.lines) = 1 => 1 \in DOMAIN f.lines
    BY <1>3, QuoteFields
  <2>2. QED BY <1>12, <1>13, <2>1 DEF Follows
<1>16. QED BY <1>2, <1>3, <1>8, <1>10, <1>11, <1>12, <1>13, <1>14, <1>15 DEF Reaches

(* The equivalent settles.                                                 *)
LEMMA SettlingReaches ==
  ASSUME kind \in Kinds, Quoted, NEW f, Consistent(f)
  PROVE  /\ Reaches(f, Settling(f))
         /\ Settling(f).lines = f.lines /\ Settling(f).first = f.first
         /\ Settling(f).legs = f.legs
<1>1. f \in GoodQuote /\ GoodForm(kind) = GoodQuote /\ KeysDiffer(f)
  BY OfQuote DEF Quoted, Consistent
<1>2. Worth(f) \in Nat
  BY <1>1, WorthIsNat
<1>3. QED BY <1>1, <1>2, SettlingIsGood DEF Reaches

-----------------------------------------------------------------------------
(* What a form sends                                                       *)

(* The server takes the format of a leg that fits a currency its list has. *)
LEMMA FittingIsTaken ==
  ASSUME NEW leg, leg.list \in Maybe(Accounts), leg.account = leg.list, NEW currency,
         currency \in Shown(leg.list), Fits(leg, currency)
  PROVE  PairTakes(leg.account, currency, leg.format)
<1>1. currency \in Currencies /\ AllowedFormats(leg.list, currency) # {}
  BY DEF Shown
<1>2. currency \in Maybe(Currencies)
  BY <1>1 DEF Maybe
<1>3. AllowedFormats(leg.list, currency) = Offers[leg.list, currency]
  BY <1>1, <1>2, AllowedAreFormats
<1>4. leg.format \in Offers[leg.list, currency]
  BY <1>1, <1>3 DEF Fits
<1>5. QED BY <1>4 DEF PairTakes

(* Legs at rest, in currencies their lists have.                           *)
LEMMA LegsAreTaken ==
  ASSUME NEW f, FormFits(f), kind # "RETIRO_CAPITAL", NEW i \in DOMAIN f.legs,
         f.legs[i] \in GoodLegs,
         f.legs[i].list = f.legs[i].account,
         NEW currency,
         currency = IF kind = "TRANSFERENCIA_ENTRE_CUENTAS" THEN f.legs[1].currency
                    ELSE f.legs[i].currency,
         currency \in Shown(f.legs[i].list)
  PROVE  PairTakes(f.legs[i].account, currency, f.legs[i].format)
<1>1. Fits(f.legs[i], currency)
  BY DEF FormFits, LegsFit
<1>2. f.legs[i].list \in Maybe(Accounts)
  BY GoodLeg, LegFields
<1>3. QED BY <1>1, <1>2, FittingIsTaken

(* Amounts that square for the client square for the service.              *)
LEMMA ClientAndServiceSquare ==
  ASSUME NEW amount, NEW total, NEW rate, NEW mode,
         CuadreOkForClient(amount, total, rate, mode)
  PROVE  CuadreOk(amount, total, rate, mode) \/ HalfCentMissed(amount, total, rate, mode)
BY DEF CuadreOkForClient, CuadreOk, HalfCentMissed

(* A quote sends the leg, the rate and the lines it shows.                 *)
LEMMA QuoteIsAccepted ==
  ASSUME NEW f \in GoodQuote, QuoteSubmits(f),
         ~HalfCentMissed(SentLeg(f.legs[1]).amount, SumOf(SentLines(f)), SentQuote(f).rate,
                         SentQuote(f).mode),
         PairTakes(f.legs[1].account, f.legs[1].currency, f.legs[1].format),
         \A i \in DOMAIN f.lines : PairTakes(f.lines[i].account, f.quote, f.lines[i].format)
  PROVE  QuoteAccepts(SentLeg(f.legs[1]), SentQuote(f), SentLines(f))
<1>1. DOMAIN f.lines = 1..Len(f.lines) /\ Len(f.lines) \in 1..MaxLines
  BY QuoteFields
<1>2. PICK lines : lines = SentLines(f)
  OBVIOUS
<1>3. /\ DOMAIN lines = DOMAIN f.lines
      /\ \A i \in DOMAIN f.lines : /\ lines[i].amount = f.lines[i].amount
                                   /\ lines[i].account = f.lines[i].account
                                   /\ lines[i].format = f.lines[i].format
  BY <1>2 DEF SentLines, SentLine
<1>4. AmountsOf(lines) = AmountsOf(f.lines)
  BY <1>3 DEF AmountsOf
<1>5. SumOf(lines) = SumOf(f.lines)
  BY <1>4 DEF SumOf
<1>6. lines # <<>>
  BY <1>1, <1>3
<1>7. PICK leg : leg = SentLeg(f.legs[1])
  OBVIOUS
<1>8. /\ leg.account = f.legs[1].account /\ leg.currency = f.legs[1].currency
      /\ leg.format = f.legs[1].format /\ leg.amount = f.legs[1].amount
  BY <1>7 DEF SentLeg
<1>9. PICK quote : quote = SentQuote(f)
  OBVIOUS
<1>10. quote.rate = f.rate /\ quote.currency = f.quote /\ quote.mode = f.mode
  BY <1>9 DEF SentQuote
<1>11. /\ f.legs[1].amount > 0 /\ f.rate > 0
       /\ \A i \in DOMAIN f.lines : f.lines[i].amount > 0
       /\ CuadreOkForClient(f.legs[1].amount, SumOf(f.lines), f.rate, f.mode)
  BY DEF QuoteSubmits
<1>12. CuadreOk(leg.amount, SumOf(lines), quote.rate, quote.mode)
  <2>1. CuadreOkForClient(leg.amount, SumOf(lines), quote.rate, quote.mode)
    BY <1>5, <1>8, <1>10, <1>11
  <2>2. ~HalfCentMissed(leg.amount, SumOf(lines), quote.rate, quote.mode)
    BY <1>2, <1>7, <1>9
  <2>3. QED BY <2>1, <2>2, ClientAndServiceSquare
<1>13. QuoteAccepts(leg, quote, lines)
  BY <1>3, <1>6, <1>8, <1>10, <1>11, <1>12 DEF QuoteAccepts
<1>14. QED BY <1>2, <1>7, <1>9, <1>13

(* A valid form at rest, in currencies its accounts offer, is accepted.    *)
LEMMA SentIsTaken ==
  ASSUME kind \in Kinds, Consistent(form), FormFits(form), Submits(form), AtRest, Offered,
         kind # "RETIRO_CAPITAL", ~MissesHalfCent(Request(form))
  PROVE  Accepts(Request(form))
<1>0. form \in GoodForm(kind)
  BY DEF Consistent
<1>1. PICK f : f = form
  OBVIOUS
<1>2. /\ \A i \in DOMAIN f.legs : f.legs[i].list = f.legs[i].account
      /\ \A i \in DOMAIN f.lines : f.lines[i].list = f.lines[i].account
  BY <1>1 DEF AtRest, LegsOf, LinesOf
<1>3. ASSUME NEW i \in DOMAIN f.legs, kind # "TRANSFERENCIA_ENTRE_CUENTAS"
      PROVE  PairTakes(f.legs[i].account, f.legs[i].currency, f.legs[i].format)
  <2>1. f.legs[i].currency \in Shown(f.legs[i].list)
    BY <1>1, <1>3 DEF Offered, LegsOf
  <2>2. f.legs[i] \in GoodLegs
    BY <1>0, <1>1, LegsOfForm
  <2>3. PICK currency : currency = f.legs[i].currency
    OBVIOUS
  <2>4. QED BY <1>1, <1>2, <1>3, <2>1, <2>2, <2>3, LegsAreTaken
<1>4. CASE kind \in {"VENTA", "COMPRA"}
  <2>1. f \in GoodQuote /\ Quoted
    BY <1>0, <1>1, <1>4, OfQuote
  <2>2. QuoteSubmits(f)
    BY <1>1, <1>4 DEF Submits, VentaSubmits, CompraSubmits
  <2>3. 1 \in DOMAIN f.legs
    BY <2>1, QuoteFields
  <2>4. ASSUME NEW i \in DOMAIN f.lines
        PROVE  PairTakes(f.lines[i].account, f.quote, f.lines[i].format)
    <3>1. f.quote \in Shown(f.lines[i].list)
      BY <1>1 DEF Offered, LinesOf
    <3>2. Fits(f.lines[i], f.quote)
      BY <1>1, <2>1 DEF FormFits
    <3>3. f.lines[i].list \in Maybe(Accounts)
      BY <2>1, QuoteFields, GoodLine, LineFields
    <3>4. QED BY <1>2, <3>1, <3>2, <3>3, FittingIsTaken
  <2>5. ~HalfCentMissed(SentLeg(f.legs[1]).amount, SumOf(SentLines(f)), SentQuote(f).rate,
                        SentQuote(f).mode)
          => QuoteAccepts(SentLeg(f.legs[1]), SentQuote(f), SentLines(f))
    BY <1>3, <1>4, <2>1, <2>2, <2>3, <2>4, QuoteIsAccepted
  <2>6. CASE kind = "VENTA"
    <3>1. PICK r : r = VentaRequest(f)
      OBVIOUS
    <3>2. r.out = SentLeg(f.legs[1]) /\ r.quote = SentQuote(f) /\ r.ins = SentLines(f)
      BY <3>1 DEF VentaRequest
    <3>3. VentaAccepts(r)
      <4>1. ~MissesHalfCent(r)
        BY <1>1, <2>6, <3>1 DEF Request
      <4>2. ~HalfCentMissed(r.out.amount, SumOf(r.ins), r.quote.rate, r.quote.mode)
        BY <2>6, <4>1 DEF MissesHalfCent
      <4>3. QED BY <2>5, <3>2, <4>2 DEF VentaAccepts
    <3>4. QED BY <1>1, <2>6, <3>1, <3>3 DEF Accepts, Request
  <2>7. CASE kind = "COMPRA"
    <3>1. PICK r : r = CompraRequest(f)
      OBVIOUS
    <3>2. r.in = SentLeg(f.legs[1]) /\ r.quote = SentQuote(f) /\ r.outs = SentLines(f)
      BY <3>1 DEF CompraRequest
    <3>3. CompraAccepts(r)
      <4>1. ~MissesHalfCent(r)
        BY <1>1, <2>7, <3>1 DEF Request
      <4>2. ~HalfCentMissed(r.in.amount, SumOf(r.outs), r.quote.rate, r.quote.mode)
        BY <2>7, <4>1 DEF MissesHalfCent
      <4>3. QED BY <2>5, <3>2, <4>2 DEF CompraAccepts
    <3>4. QED BY <1>1, <2>7, <3>1, <3>3 DEF Accepts, Request
  <2>8. QED BY <1>4, <2>6, <2>7
<1>5. CASE kind \in {"INGRESO_CAPITAL", "RETIRO_CAPITAL", "GASTO"}
  <2>1. f \in GoodCapital
    BY <1>0, <1>1, <1>5, OfCapital
  <2>2. 1 \in DOMAIN f.legs
    BY <2>1 DEF GoodCapital
  <2>3. PairTakes(f.legs[1].account, f.legs[1].currency, f.legs[1].format)
    BY <1>3, <1>5, <2>2
  <2>4. Filled1(f.legs[1])
    BY <1>1, <1>5 DEF Submits, IngresoSubmits, RetiroSubmits, GastoSubmits
  <2>5. PICK r : r = SentCapital(f)
    OBVIOUS
  <2>6. /\ r.account = f.legs[1].account /\ r.currency = f.legs[1].currency
        /\ r.format = f.legs[1].format /\ r.amount = f.legs[1].amount
    BY <2>5 DEF SentCapital
  <2>7. r.amount > 0 /\ PairTakes(r.account, r.currency, r.format)
    BY <2>3, <2>4, <2>6 DEF Filled1
  <2>8. Request(form) = r
    BY <1>1, <1>5, <2>5 DEF Request, IngresoRequest, RetiroRequest, GastoRequest
  <2>9. Accepts(r)
    BY <1>5, <2>7 DEF Accepts, IngresoAccepts, RetiroAccepts, GastoAccepts
  <2>10. QED BY <2>8, <2>9
<1>6. CASE kind = "PAGO_CC_CRUZADO"
  <2>1. f \in GoodPago
    BY <1>0, <1>1, <1>6, OfPago
  <2>2. 1 \in DOMAIN f.legs /\ f.mode \in {"ENTRA", "SALE"}
    BY <2>1 DEF GoodPago
  <2>3. PairTakes(f.legs[1].account, f.legs[1].currency, f.legs[1].format)
    BY <1>3, <1>6, <2>2
  <2>4. /\ Filled1(f.legs[1]) /\ f.cancel > 0 /\ f.debt \in Owed
        /\ f.legs[1].currency = f.debt => f.legs[1].amount = f.cancel
    BY <1>1, <1>6 DEF Submits, PagoSubmits
  <2>5. PICK payment : payment = SentCapital([legs |-> f.legs, note |-> FALSE])
    OBVIOUS
  <2>6. /\ payment.account = f.legs[1].account /\ payment.currency = f.legs[1].currency
        /\ payment.format = f.legs[1].format /\ payment.amount = f.legs[1].amount
    BY <2>5 DEF SentCapital
  <2>7. PICK r : r = PagoRequest(f)
    OBVIOUS
  <2>8. /\ r.payment = payment /\ r.mode = f.mode
        /\ r.cancel.currency = f.debt /\ r.cancel.amount = f.cancel
    BY <2>5, <2>7 DEF PagoRequest
  <2>9. PagoAccepts(r)
    BY <2>2, <2>3, <2>4, <2>6, <2>8 DEF PagoAccepts, Filled1
  <2>10. QED BY <1>1, <1>6, <2>7, <2>9 DEF Accepts, Request
<1>7. CASE kind = "TRASPASO_DEUDA_CC"
  <2>1. f \in TraspasoForm
    BY <1>0, <1>1, <1>7, OfTraspaso
  <2>2. f.client # "" /\ f.currency # "" /\ f.amount > 0 /\ f.client # Debtor
    BY <1>1, <1>7 DEF Submits, TraspasoSubmits
  <2>3. f.client \in Clients \ {Debtor} /\ f.currency \in Currencies
    BY <2>1, <2>2 DEF TraspasoForm, Maybe
  <2>4. PICK r : r = TraspasoRequest(f)
    OBVIOUS
  <2>5. r.to_client = f.client /\ r.currency = f.currency /\ r.amount = f.amount
    BY <2>4 DEF TraspasoRequest
  <2>6. TraspasoAccepts(r)
    BY <2>2, <2>3, <2>5 DEF TraspasoAccepts
  <2>7. QED BY <1>1, <1>7, <2>4, <2>6 DEF Accepts, Request
<1>8. CASE kind = "TRANSFERENCIA_ENTRE_CUENTAS"
  <2>1. f \in GoodCuentas
    BY <1>0, <1>1, <1>8, OfCuentas
  <2>2. 1 \in DOMAIN f.legs /\ 2 \in DOMAIN f.legs /\ f.legs[1] \in GoodLegs /\ f.legs[2] \in GoodLegs
    BY <2>1 DEF GoodCuentas
  <2>3. /\ Filled1(f.legs[1]) /\ f.legs[2].account # f.legs[1].account
    BY <1>1, <1>8 DEF Submits, CuentasSubmits
  <2>4. PICK currency : currency = f.legs[1].currency
    OBVIOUS
  <2>5. currency \in Shown(f.legs[1].list) /\ currency \in Shown(f.legs[2].list)
    BY <1>1, <1>8, <2>2, <2>4 DEF Offered, LegsOf
  <2>6. /\ PairTakes(f.legs[1].account, currency, f.legs[1].format)
        /\ PairTakes(f.legs[2].account, currency, f.legs[2].format)
    BY <1>1, <1>2, <1>8, <2>2, <2>4, <2>5, LegsAreTaken
  <2>7. PICK from : from = SentCapital([legs |-> f.legs, note |-> FALSE])
    OBVIOUS
  <2>8. /\ from.account = f.legs[1].account /\ from.currency = currency
        /\ from.format = f.legs[1].format /\ from.amount = f.legs[1].amount
    BY <2>4, <2>7 DEF SentCapital
  <2>9. PICK r : r = CuentasRequest(f)
    OBVIOUS
  <2>10. r.from = from /\ r.to.account = f.legs[2].account /\ r.to.format = f.legs[2].format
    BY <2>7, <2>9 DEF CuentasRequest
  <2>11. CuentasAccepts(r)
    BY <2>3, <2>6, <2>8, <2>10 DEF CuentasAccepts, Filled1
  <2>12. QED BY <1>1, <1>8, <2>9, <2>11 DEF Accepts, Request
<1>9. CASE kind = "ARBITRAJE"
  <2>1. f \in GoodArbitraje
    BY <1>0, <1>1, <1>9, OfArbitraje
  <2>2. 1 \in DOMAIN f.legs /\ 2 \in DOMAIN f.legs /\ 3 \in DOMAIN f.legs
    BY <2>1 DEF GoodArbitraje
  <2>3. ASSUME NEW i \in DOMAIN f.legs, NEW part,
               part.account = f.legs[i].account /\ part.currency = f.legs[i].currency
                 /\ part.format = f.legs[i].format,
               f.legs[i].account # "" /\ f.legs[i].currency # ""
        PROVE  /\ part.account # "" /\ part.currency # ""
               /\ PairTakes(part.account, part.currency, part.format)
    BY <1>3, <1>9, <2>3
  <2>4. /\ f.legs[1].account # "" /\ f.legs[1].currency # "" /\ f.legs[1].amount > 0
        /\ f.legs[2].account # "" /\ f.legs[2].currency # "" /\ f.legs[2].amount > 0
        /\ f.legs[3].account # "" /\ f.legs[3].currency # ""
    BY <1>1, <1>9 DEF Submits, ArbitrajeSubmits
  <2>5. \A leg : /\ Part(leg).account = leg.account /\ Part(leg).currency = leg.currency
                 /\ Part(leg).format = leg.format /\ Part(leg).amount = leg.amount
                 /\ \A x : LET p == [Part(leg) EXCEPT !.amount = x]
                           IN p.account = leg.account /\ p.currency = leg.currency
                                /\ p.format = leg.format
    BY DEF Part
  <2>6. PICK profit : profit = [Part(f.legs[3]) EXCEPT !.amount = Profit(f)]
    OBVIOUS
  <2>7. PICK r : r = ArbitrajeRequest(f)
    OBVIOUS
  <2>8. r.costo = Part(f.legs[1]) /\ r.cobrado = Part(f.legs[2]) /\ r.profit = profit
    BY <2>6, <2>7 DEF ArbitrajeRequest
  <2>9. /\ r.costo.account = f.legs[1].account /\ r.costo.currency = f.legs[1].currency
        /\ r.costo.format = f.legs[1].format /\ r.costo.amount = f.legs[1].amount
        /\ r.cobrado.account = f.legs[2].account /\ r.cobrado.currency = f.legs[2].currency
        /\ r.cobrado.format = f.legs[2].format /\ r.cobrado.amount = f.legs[2].amount
        /\ r.profit.account = f.legs[3].account /\ r.profit.currency = f.legs[3].currency
        /\ r.profit.format = f.legs[3].format
    BY <2>5, <2>6, <2>8
  <2>10. \A part \in {r.costo, r.cobrado, r.profit} :
           /\ part.account # "" /\ part.currency # ""
           /\ PairTakes(part.account, part.currency, part.format)
    BY <2>2, <2>3, <2>4, <2>9
  <2>11. ArbitrajeAccepts(r)
    BY <2>4, <2>9, <2>10 DEF ArbitrajeAccepts
  <2>12. QED BY <1>1, <1>9, <2>7, <2>11 DEF Accepts, Request
<1>10. QED BY <1>4, <1>5, <1>6, <1>7, <1>8, <1>9, KindIs

-----------------------------------------------------------------------------
(* The nine forms at work                                                  *)

Drafts == {NoData} \cup {Saved(d, rest) : d \in GoodForm(kind), rest \in BOOLEAN}

\* What the forms keep: the form shown, and every draft, is one the type may have.
FormsInv ==
    ~IsTransfer =>
        /\ kind \in Kinds
        /\ load \in {"none", "first", "retry"}
        /\ acts \in 0..MaxActs[kind]
        /\ Consistent(form)
        /\ FormFits(form)
        /\ saving \in Drafts
        /\ cache \in Drafts
        /\ server \in [status : {"BORRADOR", "CONFIRMADA"}, draft : Drafts]
        /\ SentIsAccepted

LEMMA DraftsAre ==
  /\ NoData \in Drafts
  /\ \A d \in GoodForm(kind), rest \in BOOLEAN : Saved(d, rest) \in Drafts
  /\ \A s \in Drafts : s # NoData => s.data \in GoodForm(kind)
<1>1. \A d, rest : Saved(d, rest).data = d
  BY DEF Saved
<1>2. QED BY <1>1 DEF Drafts

LEMMA NoTransfer == kind \in Kinds => ~IsTransfer
<1>1. Kinds \subseteq {"VENTA", "COMPRA", "INGRESO_CAPITAL", "RETIRO_CAPITAL", "GASTO",
                       "PAGO_CC_CRUZADO", "TRASPASO_DEUDA_CC", "TRANSFERENCIA_ENTRE_CUENTAS",
                       "ARBITRAJE"}
  BY OperationFormsAssumption, Zenon
<1>2. QED BY <1>1 DEF IsTransfer

(* A render leaves a consistent form, and the amounts of its legs.         *)
LEMMA Rendering ==
  ASSUME kind \in Kinds, kind' = kind, Consistent(form), NEW g, Reaches(form, g), Render(g)
  PROVE  /\ Consistent(form)' /\ FormFits(form)'
         /\ form' = Rendered(form, g) /\ form' \in GoodForm(kind)
         /\ \A i \in DOMAIN form'.legs : form'.legs[i].amount = g.legs[i].amount
<1>1. form' = Rendered(form, g)
  BY DEF Render
<1>2. PICK h : h = Rendered(form, g)
  OBVIOUS
<1>3. /\ Consistent(h) /\ FormFits(h)
      /\ \A i \in DOMAIN h.legs : h.legs[i].amount = g.legs[i].amount
  BY <1>2, FormsRendered
<1>4. form' = h
  BY <1>1, <1>2
<1>5. Consistent(form)'
  BY <1>3, <1>4 DEF Consistent, Quoted
<1>6. FormFits(form)'
  BY <1>3, <1>4 DEF FormFits, LegsFit, Quoted
<1>7. h \in GoodForm(kind)
  BY <1>3 DEF Consistent
<1>8. QED BY <1>1, <1>3, <1>4, <1>5, <1>6, <1>7

LEMMA FormsInitInv == FormsInit => FormsInv
<1>1. SUFFICES ASSUME FormsInit, ~IsTransfer PROVE FormsInv
  BY DEF FormsInv
<1>2. OperationInit
  BY <1>1 DEF FormsInit
<1>3. /\ kind \in Kinds /\ form = Blank /\ load = "first" /\ saving = NoData /\ sending = NoData
      /\ cache = NoData /\ acts = 0
      /\ server \in [status : {"BORRADOR"},
                     draft : {NoData} \cup {Saved(d, SavedAtRest(kind, d)) : d \in Stored[kind]}]
  BY <1>2 DEF OperationInit
<1>4. MaxActs[kind] \in Nat /\ \A d \in Stored[kind] : d \in FormOf(kind) /\ Ticked(d)
  <2>1. \A k \in Kinds : MaxActs[k] \in Nat /\ \A d \in Stored[k] : d \in FormOf(k) /\ Ticked(d)
    BY OperationFormsAssumption, Zenon
  <2>2. QED BY <1>3, <2>1, Zenon
<1>5. \A d \in Stored[kind] : d \in GoodForm(kind)
  BY <1>3, <1>4, GoodForms
<1>6. server \in [status : {"BORRADOR", "CONFIRMADA"}, draft : Drafts]
  <2>1. \A d \in Stored[kind] : SavedAtRest(kind, d) \in BOOLEAN
    BY DEF SavedAtRest
  <2>2. {NoData} \cup {Saved(d, SavedAtRest(kind, d)) : d \in Stored[kind]} \subseteq Drafts
    BY <1>5, <2>1, DraftsAre
  <2>3. QED BY <1>3, <2>2
<1>7. Consistent(form) /\ FormFits(form)
  BY <1>3, BlankIsConsistent
<1>8. SentIsAccepted
  BY <1>3 DEF SentIsAccepted
<1>9. QED BY <1>3, <1>4, <1>6, <1>7, <1>8, DraftsAre DEF FormsInv

(* What was sent stays accepted while it is on its way.                    *)
LEMMA StillAccepted ==
  ASSUME SentIsAccepted, kind' = kind, sending' = sending \/ sending' = NoData
  PROVE  SentIsAccepted'
<1>1. CASE sending' = NoData
  BY <1>1 DEF SentIsAccepted
<1>2. CASE sending' = sending
  BY <1>2 DEF SentIsAccepted, Accepts, MissesHalfCent
<1>3. QED BY <1>1, <1>2

LEMMA FormsStepInv == FormsInv /\ [FormsNext]_formsVars => FormsInv'
<1> SUFFICES ASSUME FormsInv, [FormsNext]_formsVars, ~IsTransfer' PROVE FormsInv'
  BY DEF FormsInv
<1>1. /\ kind' = kind
      /\ OperationNext \/ UNCHANGED formsVars
  <2>1. CASE UNCHANGED formsVars
    BY <2>1 DEF formsVars, operationVars
  <2>2. CASE ~IsTransfer /\ OperationNext
    <3>1. kind' = kind
      BY <2>2 DEF OperationNext, Edit, Clear, Settle, Reopen, SaveDraft, Submit, Answers,
                  AnswerLists, AnswerList, AnswerLineList, AnswerLoad, AnswerSave, AnswerSubmit
    <3>2. QED BY <2>2, <3>1
  <2>3. CASE IsTransfer /\ UNCHANGED kind
    BY <2>3 DEF IsTransfer
  <2>4. QED BY <2>1, <2>2, <2>3 DEF FormsNext
<1>2. ~IsTransfer
  BY <1>1 DEF IsTransfer
<1>3. /\ kind \in Kinds
      /\ load \in {"none", "first", "retry"}
      /\ acts \in 0..MaxActs[kind]
      /\ Consistent(form)
      /\ FormFits(form)
      /\ saving \in Drafts
      /\ cache \in Drafts
      /\ server \in [status : {"BORRADOR", "CONFIRMADA"}, draft : Drafts]
      /\ SentIsAccepted
  BY <1>2 DEF FormsInv
<1>4. Drafts' = Drafts
  BY <1>1 DEF Drafts
<1>5. MaxActs[kind] \in Nat
  <2>1. \A k \in Kinds : MaxActs[k] \in Nat
    BY OperationFormsAssumption, Zenon
  <2>2. QED BY <1>3, <2>1
<1>6. Act \/ acts' = acts => acts' \in 0..MaxActs[kind]
  BY <1>3, <1>5 DEF Act
<1>7. form' = form => Consistent(form)' /\ FormFits(form)'
  BY <1>1, <1>3 DEF Consistent, FormFits, LegsFit, Quoted
<1>8. ASSUME load' \in {"none", "first", "retry"},
             Act \/ acts' = acts,
             Consistent(form)' /\ FormFits(form)',
             saving' \in Drafts,
             cache' \in Drafts,
             server' \in [status : {"BORRADOR", "CONFIRMADA"}, draft : Drafts],
             SentIsAccepted'
      PROVE  FormsInv'
  BY <1>1, <1>3, <1>4, <1>6, <1>8 DEF FormsInv
<1>9. sending' = sending \/ sending' = NoData => SentIsAccepted'
  BY <1>1, <1>3, StillAccepted
<1>10. \A ok : Outcome(ok) => Act \/ acts' = acts
  BY DEF Outcome
<1>11. \A g : Reaches(form, g) /\ Render(g) => Consistent(form)' /\ FormFits(form)'
  BY <1>1, <1>3, Rendering
<1>12. CASE UNCHANGED formsVars
  <2>1. /\ load' = load /\ acts' = acts /\ form' = form /\ saving' = saving /\ cache' = cache
        /\ server' = server /\ sending' = sending
    BY <1>12 DEF formsVars, operationVars
  <2>2. QED BY <1>3, <1>7, <1>8, <1>9, <2>1
<1>13. CASE Edit
  <2>1. /\ Act /\ load' = load /\ saving' = saving /\ sending' = sending /\ server' = server
        /\ cache' = cache /\ \E g \in Inputs(form) : Render(g)
    BY <1>13 DEF Edit
  <2>2. PICK g \in Inputs(form) : Render(g)
    BY <2>1
  <2>3. form \in GoodForm(kind)
    BY <1>3 DEF Consistent
  <2>4. Reaches(form, g)
    BY <1>3, <2>2, <2>3, FormsReached
  <2>5. QED BY <1>3, <1>8, <1>9, <1>11, <2>1, <2>2, <2>4
<1>14. CASE Clear
  <2>1. /\ Act /\ load' = load /\ saving' = saving /\ sending' = sending /\ server' = server
        /\ cache' = cache /\ Render(Emptied(form))
    BY <1>14 DEF Clear
  <2>2. form \in GoodForm(kind)
    BY <1>3 DEF Consistent
  <2>3. Reaches(form, Emptied(form))
    BY <1>3, <2>2, FormsReached
  <2>4. QED BY <1>3, <1>8, <1>9, <1>11, <2>1, <2>3
<1>15. CASE Settle
  <2>1. /\ Quoted /\ acts' = acts /\ load' = load /\ saving' = saving /\ sending' = sending
        /\ server' = server /\ cache' = cache /\ Render(Settling(form))
    BY <1>15 DEF Settle
  <2>2. Reaches(form, Settling(form))
    BY <1>3, <2>1, SettlingReaches
  <2>3. QED BY <1>3, <1>8, <1>9, <1>11, <2>1, <2>2
<1>16. CASE Reopen
  <2>1. /\ Act /\ load' = "first" /\ saving' = saving /\ sending' = sending /\ server' = server
        /\ cache' = cache /\ form' = Blank
    BY <1>16 DEF Reopen
  <2>2. Consistent(form)' /\ FormFits(form)'
    <3>1. PICK blank : blank = Blank
      OBVIOUS
    <3>2. Consistent(blank) /\ FormFits(blank)
      BY <1>3, <3>1, BlankIsConsistent
    <3>3. QED BY <1>1, <2>1, <3>1, <3>2 DEF Consistent, FormFits, LegsFit, Quoted
  <2>3. QED BY <1>3, <1>8, <1>9, <2>1, <2>2
<1>17. CASE SaveDraft
  <2>1. /\ Act /\ load' = load /\ form' = form /\ sending' = sending /\ server' = server
        /\ cache' = cache /\ saving' = Saved(Data(form), AtRest)
    BY <1>17 DEF SaveDraft
  <2>2. form \in GoodForm(kind)
    BY <1>3 DEF Consistent
  <2>3. Data(form) \in GoodForm(kind)
    BY <1>3, <2>2, FormsReached
  <2>4. AtRest \in BOOLEAN
    BY DEF AtRest
  <2>5. saving' \in Drafts
    BY <2>1, <2>3, <2>4, DraftsAre
  <2>6. QED BY <1>3, <1>7, <1>8, <1>9, <2>1, <2>5
<1>18. CASE Submit
  <2>1. /\ Act /\ load' = load /\ form' = form /\ saving' = saving /\ server' = server
        /\ cache' = cache /\ Submits(form)
        /\ sending' = [kind |-> "request", body |-> Request(form), fair |-> AtRest /\ Offered]
    BY <1>18 DEF Submit
  <2>2. SentIsAccepted'
    <3>1. SUFFICES ASSUME sending'.fair, kind # "RETIRO_CAPITAL",
                          ~MissesHalfCent(sending.body)'
                   PROVE  Accepts(sending.body)'
      BY <1>1 DEF SentIsAccepted
    <3>2. sending'.fair <=> AtRest /\ Offered
      BY <2>1
    <3>3. AtRest /\ Offered
      BY <3>1, <3>2
    <3>4. PICK r : r = Request(form)
      OBVIOUS
    <3>6. sending'.body = r
      BY <2>1, <3>4
    <3>5. Accepts(r)
      <4>1. ~MissesHalfCent(r)
        BY <1>1, <3>1, <3>6 DEF MissesHalfCent
      <4>2. QED BY <1>3, <2>1, <3>1, <3>3, <3>4, <4>1, SentIsTaken
    <3>7. QED BY <1>1, <3>5, <3>6 DEF Accepts
  <2>3. QED BY <1>3, <1>7, <1>8, <2>1, <2>2
<1>19. CASE AnswerLists
  <2>1. PICK a \in Accounts, ok \in BOOLEAN :
           \/ \E i \in DOMAIN form.legs : AnswerList(i, a, ok)
           \/ \E i \in DOMAIN form.lines : AnswerLineList(i, a, ok)
    BY <1>19 DEF AnswerLists
  <2>2. CASE \E i \in DOMAIN form.legs : AnswerList(i, a, ok)
    <3>1. PICK i \in DOMAIN form.legs : AnswerList(i, a, ok)
      BY <2>2
    <3>2. /\ Outcome(ok) /\ load' = load /\ saving' = saving /\ sending' = sending
          /\ server' = server /\ cache' = cache
          /\ Render([form EXCEPT !.legs[i] = ListAnswered(form.legs[i], a, ok)])
      BY <3>1 DEF AnswerList
    <3>3. Reaches(form, [form EXCEPT !.legs[i] = ListAnswered(form.legs[i], a, ok)])
      BY <1>3, LegListReaches
    <3>4. QED BY <1>3, <1>8, <1>9, <1>10, <1>11, <3>2, <3>3
  <2>3. CASE \E i \in DOMAIN form.lines : AnswerLineList(i, a, ok)
    <3>1. PICK i \in DOMAIN form.lines : AnswerLineList(i, a, ok)
      BY <2>3
    <3>2. /\ Outcome(ok) /\ load' = load /\ saving' = saving /\ sending' = sending
          /\ server' = server /\ cache' = cache
          /\ Render([form EXCEPT !.lines[i] = LineListAnswered(form.lines[i], a, ok)])
      BY <3>1 DEF AnswerLineList
    <3>3. Reaches(form, [form EXCEPT !.lines[i] = LineListAnswered(form.lines[i], a, ok)])
      BY <1>3, LineListReaches
    <3>4. QED BY <1>3, <1>8, <1>9, <1>10, <1>11, <3>2, <3>3
  <2>4. QED BY <2>1, <2>2, <2>3
<1>20. CASE \E ok \in BOOLEAN : AnswerLoad(ok)
  <2>1. PICK ok \in BOOLEAN : AnswerLoad(ok)
    BY <1>20
  <2>2. /\ Outcome(ok) /\ saving' = saving /\ sending' = sending /\ server' = server
    BY <2>1 DEF AnswerLoad
  <2>3. server.draft \in Drafts
    BY <1>3
  <2>4. \A s \in Drafts : s # NoData => Reaches(form, Restored(form, s.data))
    BY <1>3, DraftsAre, FormsReached
  <2>5. CASE ok /\ server.draft # NoData
    <3>1. load' = "none" /\ cache' = server.draft /\ Render(Restored(form, server.draft.data))
      BY <2>1, <2>5 DEF AnswerLoad, LoadDraft
    <3>2. QED BY <1>3, <1>8, <1>9, <1>10, <1>11, <2>2, <2>3, <2>4, <2>5, <3>1
  <2>6. CASE ~(ok /\ server.draft # NoData)
    <3>1. LoadFails
      BY <2>1, <2>6 DEF AnswerLoad
    <3>2. load' \in {"retry", "none"} /\ cache' = cache
      BY <3>1 DEF LoadFails
    <3>3. Consistent(form)' /\ FormFits(form)'
      <4>1. form' = form \/ (cache # NoData /\ Render(Restored(form, cache.data)))
        BY <3>1 DEF LoadFails
      <4>2. QED BY <1>3, <1>7, <1>11, <2>4, <4>1
    <3>4. QED BY <1>3, <1>8, <1>9, <1>10, <2>2, <3>2, <3>3
  <2>7. QED BY <2>5, <2>6
<1>21. CASE \E ok \in BOOLEAN : AnswerSave(ok)
  <2>1. PICK ok \in BOOLEAN : AnswerSave(ok)
    BY <1>21
  <2>2. /\ Outcome(ok) /\ saving' = NoData /\ form' = form /\ load' = load /\ sending' = sending
        /\ server' = server \/ server' = [server EXCEPT !.draft = saving]
        /\ cache' \in {cache, saving}
    BY <2>1 DEF AnswerSave
  <2>3. server' \in [status : {"BORRADOR", "CONFIRMADA"}, draft : Drafts]
    BY <1>3, <2>2
  <2>4. QED BY <1>3, <1>7, <1>8, <1>9, <1>10, <2>2, <2>3, DraftsAre
<1>22. CASE \E ok \in BOOLEAN : AnswerSubmit(ok)
  <2>1. PICK ok \in BOOLEAN : AnswerSubmit(ok)
    BY <1>22
  <2>2. /\ Outcome(ok) /\ sending' = NoData /\ form' = form /\ load' = load /\ saving' = saving
        /\ cache' = cache
        /\ server' = server \/ server' = [server EXCEPT !.status = "CONFIRMADA"]
    BY <2>1 DEF AnswerSubmit
  <2>3. server' \in [status : {"BORRADOR", "CONFIRMADA"}, draft : Drafts]
    BY <1>3, <2>2
  <2>4. QED BY <1>3, <1>7, <1>8, <1>9, <1>10, <2>2, <2>3
<1>23. QED BY <1>1, <1>12, <1>13, <1>14, <1>15, <1>16, <1>17, <1>18, <1>19, <1>20, <1>21, <1>22
           DEF OperationNext, Answers

(* The invariant of the nine forms: the form shown is one of its type, it  *)
(* fits the lists it shows, and so does every draft of it.                 *)
THEOREM FormsKeepTheirInvariant == FormsSpec => []FormsInv
BY FormsInitInv, FormsStepInv, PTL DEF FormsSpec

(* What one of the nine forms sends, valid and at rest, the service        *)
(* accepts unless the client missed a half cent (money.ts:21), whatever    *)
(* the order in which lists and drafts arrived                             *)
(* (components/operations, and the services' checks of a draft).           *)
THEOREM SentFormsAreAccepted == FormsSpec => []FormsSendWhatIsAccepted
<1>1. FormsInv => FormsSendWhatIsAccepted
  BY DEF FormsInv, FormsSendWhatIsAccepted
<1>2. QED BY <1>1, FormsKeepTheirInvariant, PTL

(* The screen of each of the nine forms is consistent: one line per key,   *)
(* ticks with their formats, the automatic line with the quote.            *)
THEOREM NineScreensAreConsistent == FormsSpec => [](~IsTransfer => ScreenIsConsistent)
<1>1. FormsInv => (~IsTransfer => ScreenIsConsistent)
  <2>1. SUFFICES ASSUME FormsInv, ~IsTransfer PROVE ScreenIsConsistent
    OBVIOUS
  <2>2. /\ kind \in Kinds
        /\ load \in {"none", "first", "retry"}
        /\ acts \in 0..MaxActs[kind]
        /\ Consistent(form)
        /\ server \in [status : {"BORRADOR", "CONFIRMADA"}, draft : Drafts]
    BY <2>1 DEF FormsInv
  <2>3. form \in FormOf(kind) /\ Ticked(form)
    BY <2>2, GoodForms DEF Consistent
  <2>4. OperationTypes
    BY <2>2, <2>3 DEF OperationTypes, Consistent, KeysDiffer
  <2>5. AutoLineIsTheEquivalent
    BY <2>2 DEF AutoLineIsTheEquivalent, Consistent, AutoLine
  <2>6. QED BY <2>3, <2>4, <2>5 DEF ScreenIsConsistent, PendingIsCash
<1>2. QED BY <1>1, FormsKeepTheirInvariant, PTL

(* Two forms of a type have as many legs.                                  *)
LEMMA SameLegs ==
  ASSUME kind \in Kinds, NEW f \in GoodForm(kind), NEW g \in GoodForm(kind)
  PROVE  DOMAIN f.legs = DOMAIN g.legs
<1>1. /\ \A h \in GoodQuote : DOMAIN h.legs = 1..1
      /\ \A h \in GoodCapital : DOMAIN h.legs = 1..1
      /\ \A h \in GoodPago : DOMAIN h.legs = 1..1
      /\ \A h \in GoodCuentas : DOMAIN h.legs = 1..2
      /\ \A h \in GoodArbitraje : DOMAIN h.legs = 1..3
  BY DEF GoodQuote, GoodCapital, GoodPago, GoodCuentas, GoodArbitraje
<1>2. \A h \in TraspasoForm : h.legs = <<>>
  BY DEF TraspasoForm
<1>3. GoodForm(kind) \in {GoodQuote, GoodCapital, GoodPago, TraspasoForm, GoodCuentas, GoodArbitraje}
  BY KindIs, OfQuote, OfCapital, OfPago, OfTraspaso, OfCuentas, OfArbitraje
<1>4. PICK S : S = GoodForm(kind)
  OBVIOUS
<1>5. /\ S \in {GoodQuote, GoodCapital, GoodPago, TraspasoForm, GoodCuentas, GoodArbitraje}
      /\ f \in S /\ g \in S
  BY <1>3, <1>4
<1>6. CASE S = TraspasoForm
  <2>1. f.legs = g.legs
    BY <1>2, <1>5, <1>6
  <2>2. QED BY <2>1, Zenon
<1>7. CASE S # TraspasoForm
  BY <1>1, <1>5, <1>7
<1>8. QED BY <1>6, <1>7

(* A step that is no input and loads nothing keeps what the user typed.    *)
LEMMA FormsStepKeepsTyped ==
  ASSUME FormsInv, [FormsNext]_formsVars, ~IsTransfer
  PROVE  KeepsTyped
<1>1. kind \in Kinds /\ acts \in 0..MaxActs[kind] /\ Consistent(form)
      /\ form \in GoodForm(kind)
  BY DEF FormsInv, Consistent
<1>2. MaxActs[kind] \in Nat
  <2>1. \A k \in Kinds : MaxActs[k] \in Nat
    BY OperationFormsAssumption, Zenon
  <2>2. QED BY <1>1, <2>1
<1>3. SUFFICES ASSUME acts' = acts, load' = load
               PROVE  /\ \A i \in DOMAIN form.legs : form'.legs[i].amount = form.legs[i].amount
                      /\ \/ AmountsOf(form'.lines) = AmountsOf(form.lines)
                         \/ Len(form.lines) = 1 /\ form.first = "AUTO"
  BY DEF KeepsTyped
<1>4. ~Act
  BY <1>1, <1>2, <1>3 DEF Act
<1>5. ASSUME form' = form
      PROVE  /\ \A i \in DOMAIN form.legs : form'.legs[i].amount = form.legs[i].amount
             /\ AmountsOf(form'.lines) = AmountsOf(form.lines)
  BY <1>5
<1>6. ASSUME NEW g, kind' = kind, Reaches(form, g), Render(g),
             \A i \in DOMAIN form.legs : g.legs[i].amount = form.legs[i].amount,
             Quoted => /\ Len(g.lines) = Len(form.lines) /\ g.first = form.first
                       /\ \A i \in DOMAIN form.lines : g.lines[i].amount = form.lines[i].amount
      PROVE  /\ \A i \in DOMAIN form.legs : form'.legs[i].amount = form.legs[i].amount
             /\ \/ AmountsOf(form'.lines) = AmountsOf(form.lines)
                \/ Len(form.lines) = 1 /\ form.first = "AUTO"
  <2>1. /\ form' = Rendered(form, g) /\ form' \in GoodForm(kind)
        /\ \A i \in DOMAIN form'.legs : form'.legs[i].amount = g.legs[i].amount
    BY <1>1, <1>6, Rendering
  <2>2. PICK h \in GoodForm(kind) : h = form'
    BY <2>1
  <2>3. DOMAIN h.legs = DOMAIN form.legs
    BY <1>1, SameLegs
  <2>4. \A i \in DOMAIN form.legs : h.legs[i].amount = form.legs[i].amount
    BY <1>6, <2>1, <2>2, <2>3
  <2>5. PICK f : f = form
    OBVIOUS
  <2>6. \/ AmountsOf(Rendered(f, g).lines) = AmountsOf(f.lines)
        \/ Quoted /\ Len(f.lines) = 1 /\ f.first = "AUTO"
    BY <1>1, <1>6, <2>5, RenderKeepsAmounts
  <2>7. QED BY <2>1, <2>2, <2>4, <2>5, <2>6
<1>7. CASE UNCHANGED formsVars
  BY <1>5, <1>7 DEF formsVars, operationVars
<1>8. CASE Edit \/ Clear \/ Reopen \/ SaveDraft \/ Submit
  BY <1>4, <1>8 DEF Edit, Clear, Reopen, SaveDraft, Submit
<1>9. CASE Settle
  <2>1. Quoted /\ kind' = kind /\ Render(Settling(form))
    BY <1>9 DEF Settle
  <2>2. PICK g : g = Settling(form)
    OBVIOUS
  <2>3. Reaches(form, g) /\ g.lines = form.lines /\ g.first = form.first /\ g.legs = form.legs
    BY <1>1, <2>1, <2>2, SettlingReaches
  <2>4. QED BY <1>6, <2>1, <2>2, <2>3
<1>10. CASE AnswerLists
  <2>1. PICK a \in Accounts, ok \in BOOLEAN :
           \/ \E i \in DOMAIN form.legs : AnswerList(i, a, ok)
           \/ \E i \in DOMAIN form.lines : AnswerLineList(i, a, ok)
    BY <1>10 DEF AnswerLists
  <2>2. CASE \E i \in DOMAIN form.legs : AnswerList(i, a, ok)
    <3>1. PICK i \in DOMAIN form.legs : AnswerList(i, a, ok)
      BY <2>2
    <3>2. PICK g : g = [form EXCEPT !.legs[i] = ListAnswered(form.legs[i], a, ok)]
      OBVIOUS
    <3>3. kind' = kind /\ Render(g)
      BY <3>1, <3>2 DEF AnswerList
    <3>4. /\ Reaches(form, g) /\ g.lines = form.lines /\ (Quoted => g.first = form.first)
          /\ \A j \in DOMAIN form.legs : g.legs[j].amount = form.legs[j].amount
      BY <1>1, <3>2, LegListReaches
    <3>5. QED BY <1>6, <3>3, <3>4
  <2>3. CASE \E i \in DOMAIN form.lines : AnswerLineList(i, a, ok)
    <3>1. PICK i \in DOMAIN form.lines : AnswerLineList(i, a, ok)
      BY <2>3
    <3>2. PICK g : g = [form EXCEPT !.lines[i] = LineListAnswered(form.lines[i], a, ok)]
      OBVIOUS
    <3>3. kind' = kind /\ Render(g)
      BY <3>1, <3>2 DEF AnswerLineList
    <3>4. /\ Reaches(form, g) /\ g.legs = form.legs /\ g.first = form.first
          /\ Len(g.lines) = Len(form.lines)
          /\ \A j \in DOMAIN form.lines : g.lines[j].amount = form.lines[j].amount
      BY <1>1, <3>2, LineListReaches
    <3>5. QED BY <1>6, <3>3, <3>4
  <2>4. QED BY <2>1, <2>2, <2>3
<1>11. CASE \E ok \in BOOLEAN : AnswerLoad(ok)
  <2>1. PICK ok \in BOOLEAN : AnswerLoad(ok)
    BY <1>11
  <2>2. load # "none" /\ (LoadDraft \/ LoadFails)
    BY <2>1 DEF AnswerLoad
  <2>3. load' # load
    BY <2>2 DEF LoadDraft, LoadFails
  <2>4. QED BY <1>3, <2>3
<1>12. CASE \E ok \in BOOLEAN : AnswerSave(ok) \/ AnswerSubmit(ok)
  BY <1>5, <1>12 DEF AnswerSave, AnswerSubmit
<1>13. FormsNext => OperationNext
  BY DEF FormsNext
<1>14. QED BY <1>7, <1>8, <1>9, <1>10, <1>11, <1>12, <1>13 DEF OperationNext, Answers

(* No answer and no timer changes an amount the user typed into one of the *)
(* nine forms, but a single automatic line, that follows the quote.        *)
THEOREM NineFormsKeepAmounts == FormsSpec => [][~IsTransfer => KeepsTyped]_formsVars
<1>1. FormsInv /\ [FormsNext]_formsVars => (~IsTransfer => KeepsTyped)
  BY FormsStepKeepsTyped
<1>2. QED BY <1>1, FormsKeepTheirInvariant, PTL DEF FormsSpec

-----------------------------------------------------------------------------
(* Drafts of the nine forms come back                                      *)

\* What an untouched form shows of a leg of a draft, on its way to rest.
LegIsBack(leg, kept) ==
    /\ leg.account = kept.account /\ leg.currency = kept.currency /\ leg.format = kept.format
    /\ leg.amount = kept.amount /\ (leg.pending <=> kept.pending)
    /\ leg.list \in {"", kept.account} /\ leg.asked \subseteq {kept.account}

\* ... and of a line, but for its amount.
LineIsBack(line, kept) ==
    /\ line.account = kept.account /\ line.format = kept.format
    /\ (line.pending <=> kept.pending)
    /\ line.list \in {"", kept.account} /\ line.asked \subseteq {kept.account}

\* Everything but the amounts of the lines.
FormIsBack(f, d) ==
    /\ \A i \in DOMAIN d.legs : LegIsBack(f.legs[i], d.legs[i])
    /\ ~Quoted => [f EXCEPT !.legs = d.legs] = d
    /\ Quoted => /\ f.rate = d.rate /\ f.quote = d.quote /\ f.mode = d.mode
                 /\ f.first = d.first /\ Len(f.lines) = Len(d.lines)
                 /\ \A i \in DOMAIN d.lines : LineIsBack(f.lines[i], d.lines[i])

\* A single automatic line follows the quote.
FillsIn(d) == Len(d.lines) = 1 /\ d.first = "AUTO"

AmountsAreBack(f, d) ==
    /\ FillsIn(d) => f.lines[1].amount = f.settled
    /\ ~FillsIn(d) => \A i \in DOMAIN d.lines : f.lines[i].amount = d.lines[i].amount

IsBack(f, d) == FormIsBack(f, d) /\ (Quoted => AmountsAreBack(f, d))

\* A draft, or none; one saved at rest has nothing pending.
RestedForms == {s \in Drafts : s # NoData /\ s.rest => SavedAtRest(kind, s.data)}

\* The drafts under way, and what the form shows of the one it loaded.
ReturnInv ==
    ~IsTransfer =>
        /\ saving \in RestedForms /\ server.draft \in RestedForms /\ loaded \in RestedForms
        /\ ~touched /\ load # "none" => form = Blank
        /\ loaded # NoData => load = "none"
        /\ loaded # NoData /\ loaded.rest /\ ~touched /\ kind # "ARBITRAJE" =>
              IsBack(form, loaded.data)

\* Effects that align formats leave what a leg has of a draft saved at rest.
FormatStays(leg, kept, new) ==
    \/ new = leg
    \/ \E a \in BOOLEAN : (a <=> kept.pending) /\ new = [leg EXCEPT !.format = kept.format, !.pending = a]

LEMMA AlignedIsBack ==
  ASSUME NEW leg, leg.format \in Formats, NEW kept, CashTick(kept), NEW currency,
         leg.account = kept.account, leg.format = kept.format,
         leg.pending \in BOOLEAN, kept.pending \in BOOLEAN, leg.pending <=> kept.pending,
         leg.list \in {"", kept.account}, Takes(kept, currency)
  PROVE  FormatStays(leg, kept, AlignedTo(leg, currency))
<1> DEFINE allowed == AllowedFormats(leg.list, currency)
           next == ResolveFormat(allowed, leg.format)
<1>1. AlignedTo(leg, currency) =
        IF allowed = {} THEN leg
        ELSE [leg EXCEPT !.format = next, !.pending = leg.pending /\ next = "CASH"]
  BY DEF AlignedTo
<1>2. allowed # {} => leg.format \in allowed
  <2>1. CASE leg.list = ""
    BY <2>1 DEF AllowedFormats
  <2>2. CASE leg.list = kept.account
    BY <2>2 DEF Takes
  <2>3. QED BY <2>1, <2>2
<1>3. allowed # {} => next = kept.format
  BY <1>2 DEF ResolveFormat
<1>4. PICK a \in BOOLEAN : a <=> leg.pending /\ kept.format = "CASH"
  OBVIOUS
<1>5. a <=> kept.pending
  BY <1>4 DEF CashTick
<1> HIDE DEF allowed, next
<1>6. CASE allowed = {}
  BY <1>1, <1>6 DEF FormatStays
<1>7. CASE allowed # {}
  <2>1. (leg.pending /\ next = "CASH") = a
    BY <1>3, <1>4, <1>7
  <2>2. AlignedTo(leg, currency) = [leg EXCEPT !.format = next, !.pending = leg.pending /\ next = "CASH"]
    BY <1>1, <1>7
  <2>3. AlignedTo(leg, currency) = [leg EXCEPT !.format = kept.format, !.pending = a]
    BY <1>3, <1>7, <2>1, <2>2
  <2>4. QED BY <1>5, <2>3 DEF FormatStays
<1>8. QED BY <1>6, <1>7

LEMMA AlignedLegIsBack ==
  ASSUME NEW leg \in Legs, NEW kept \in GoodLegs, LegIsBack(leg, kept), NEW currency,
         Takes(kept, currency)
  PROVE  LegIsBack(AlignedTo(leg, currency), kept)
<1>1. kept \in Legs /\ CashTick(kept)
  BY GoodLeg
<1>2. leg.format \in Formats /\ leg.pending \in BOOLEAN /\ kept.pending \in BOOLEAN
  BY <1>1, LegFields
<1>3. /\ leg.account = kept.account /\ leg.format = kept.format /\ (leg.pending <=> kept.pending)
      /\ leg.list \in {"", kept.account}
  BY DEF LegIsBack
<1>4. PICK g : g = AlignedTo(leg, currency)
  OBVIOUS
<1>5. FormatStays(leg, kept, g)
  BY <1>1, <1>2, <1>3, <1>4, AlignedIsBack
<1>6. CASE g = leg
  BY <1>4, <1>6
<1>7. ASSUME NEW a \in BOOLEAN, a <=> kept.pending,
             g = [leg EXCEPT !.format = kept.format, !.pending = a]
      PROVE  LegIsBack(g, kept)
  <2>1. /\ g.account = leg.account /\ g.currency = leg.currency /\ g.format = kept.format
        /\ g.amount = leg.amount /\ g.pending = a /\ g.list = leg.list /\ g.asked = leg.asked
    BY <1>7 DEF Legs
  <2>2. QED BY <1>7, <2>1 DEF LegIsBack
<1>8. QED BY <1>4, <1>5, <1>6, <1>7 DEF FormatStays

LEMMA AskedLegIsBack ==
  ASSUME NEW old, NEW leg \in Legs, NEW kept, LegIsBack(leg, kept)
  PROVE  LegIsBack(ListAsked(old, leg), kept)
<1>1. CASE leg.account = old.account
  BY <1>1 DEF ListAsked
<1>2. CASE leg.account # old.account /\ leg.account = ""
  <2>1. PICK g : g = [leg EXCEPT !.list = ""]
    OBVIOUS
  <2>2. /\ g.account = leg.account /\ g.currency = leg.currency /\ g.format = leg.format
        /\ g.amount = leg.amount /\ g.pending = leg.pending /\ g.list = "" /\ g.asked = leg.asked
    BY <2>1 DEF Legs
  <2>3. ListAsked(old, leg) = g
    BY <1>2, <2>1 DEF ListAsked
  <2>4. QED BY <2>2, <2>3 DEF LegIsBack
<1>3. CASE leg.account # old.account /\ leg.account # ""
  <2>1. PICK s : s = leg.asked \cup {leg.account}
    OBVIOUS
  <2>2. PICK g : g = [leg EXCEPT !.asked = s]
    OBVIOUS
  <2>3. /\ g.account = leg.account /\ g.currency = leg.currency /\ g.format = leg.format
        /\ g.amount = leg.amount /\ g.pending = leg.pending /\ g.list = leg.list /\ g.asked = s
    BY <2>2 DEF Legs
  <2>4. ListAsked(old, leg) = g
    BY <1>3, <2>1, <2>2 DEF ListAsked
  <2>5. s \subseteq {kept.account}
    BY <2>1 DEF LegIsBack
  <2>6. QED BY <2>3, <2>4, <2>5 DEF LegIsBack
<1>4. QED BY <1>1, <1>2, <1>3

(* The list that a leg asked for arrives, or does not.                     *)
LEMMA AnsweredLegIsBack ==
  ASSUME NEW leg \in Legs, NEW kept, LegIsBack(leg, kept), NEW a \in leg.asked, NEW ok \in BOOLEAN
  PROVE  LegIsBack(ListAnswered(leg, a, ok), kept)
<1>1. PICK l, s : l = (IF ok THEN a ELSE "") /\ s = leg.asked \ {a}
  OBVIOUS
<1>2. PICK g : g = [leg EXCEPT !.list = l, !.asked = s]
  OBVIOUS
<1>3. /\ g.account = leg.account /\ g.currency = leg.currency /\ g.format = leg.format
      /\ g.amount = leg.amount /\ g.pending = leg.pending /\ g.list = l /\ g.asked = s
  BY <1>2 DEF Legs
<1>4. l \in {"", kept.account} /\ s \subseteq {kept.account}
  BY <1>1 DEF LegIsBack
<1>5. ListAnswered(leg, a, ok) = g
  BY <1>1, <1>2 DEF ListAnswered
<1>6. QED BY <1>3, <1>4, <1>5 DEF LegIsBack

(* A leg comes back into an empty one.                                     *)
LEMMA RefilledLegIsBack ==
  ASSUME NEW kept \in Legs
  PROVE  LegIsBack(Refilled(EmptyLeg, kept), kept)
<1>1. EmptyLeg.list = "" /\ EmptyLeg.asked = {}
  BY DEF EmptyLeg
<1>2. PICK g : g = [kept EXCEPT !.list = "", !.asked = {}]
  OBVIOUS
<1>3. /\ g.account = kept.account /\ g.currency = kept.currency /\ g.format = kept.format
      /\ g.amount = kept.amount /\ g.pending = kept.pending /\ g.list = "" /\ g.asked = {}
  BY <1>2 DEF Legs
<1>4. Refilled(EmptyLeg, kept) = g
  BY <1>1, <1>2 DEF Refilled
<1>5. QED BY <1>3, <1>4 DEF LegIsBack

LEMMA SameLegIs ==
  ASSUME NEW leg \in Legs, NEW kept \in Legs,
         leg.account = kept.account, leg.currency = kept.currency, leg.format = kept.format,
         leg.amount = kept.amount, leg.pending = kept.pending, leg.list = kept.list,
         leg.asked = kept.asked
  PROVE  leg = kept
BY DEF Legs

(* A leg that is back is kept as it was.                                   *)
LEMMA BackLegIsKept ==
  ASSUME NEW leg \in Legs, NEW kept \in Legs, LegIsBack(leg, kept), kept = Kept(kept)
  PROVE  Kept(leg) = kept
<1>1. PICK g : g = Kept(leg)
  OBVIOUS
<1>2. PICK h : h = Kept(kept)
  OBVIOUS
<1>3. /\ g.account = leg.account /\ g.currency = leg.currency /\ g.format = leg.format
      /\ g.amount = leg.amount /\ g.pending = leg.pending /\ g.list = "" /\ g.asked = {}
      /\ g \in Legs
  BY <1>1 DEF Kept, Legs, Maybe
<1>4. h.list = "" /\ h.asked = {}
  BY <1>2 DEF Kept, Legs
<1>5. h = kept
  BY <1>2
<1>6. /\ g.account = kept.account /\ g.currency = kept.currency /\ g.format = kept.format
      /\ g.amount = kept.amount /\ g.pending = kept.pending /\ g.list = kept.list
      /\ g.asked = kept.asked
  BY <1>3, <1>4, <1>5, LegFields DEF LegIsBack
<1>7. g = kept
  BY <1>3, <1>6, SameLegIs, Zenon
<1>8. QED BY <1>1, <1>7

LEMMA KeptTwice ==
  ASSUME NEW leg \in Legs
  PROVE  Kept(Kept(leg)) = Kept(leg) /\ Kept(leg).account = leg.account
         /\ Kept(leg).currency = leg.currency /\ Kept(leg).format = leg.format
BY DEF Kept, Legs

(* The same of a line.                                                     *)
LEMMA AskedLineIsBack ==
  ASSUME NEW old, NEW new, NEW i, new[i] \in Lines, NEW kept, LineIsBack(new[i], kept)
  PROVE  LineIsBack(LineAsked(old, new, i), kept) /\ LineAsked(old, new, i) \in Lines
<1>1. PICK line : line = new[i]
  OBVIOUS
<1>2. line \in Lines /\ LineIsBack(line, kept)
  BY <1>1
<1>3. PICK s : s = line.asked \cup {line.account}
  OBVIOUS
<1>4. PICK g : g = [line EXCEPT !.asked = s]
  OBVIOUS
<1>5. /\ g.account = line.account /\ g.format = line.format /\ g.pending = line.pending
      /\ g.list = line.list /\ g.asked = s
  BY <1>2, <1>4 DEF Lines
<1>6. s \subseteq {kept.account}
  BY <1>2, <1>3 DEF LineIsBack
<1>7. LineIsBack(g, kept)
  BY <1>2, <1>5, <1>6 DEF LineIsBack
<1>8. line.account # "" => g \in Lines
  BY <1>2, <1>3, <1>4 DEF Lines, Maybe
<1>9. LineAsked(old, new, i) = line \/ (line.account # "" /\ LineAsked(old, new, i) = g)
  BY <1>1, <1>3, <1>4 DEF LineAsked
<1>10. QED BY <1>2, <1>7, <1>8, <1>9

LEMMA AlignedLineIsBack ==
  ASSUME NEW line \in Lines, NEW kept \in GoodLines, LineIsBack(line, kept), NEW currency,
         Takes(kept, currency)
  PROVE  /\ LineIsBack(AlignedTo(line, currency), kept)
         /\ AlignedTo(line, currency) \in Lines
<1>1. kept \in Lines /\ CashTick(kept)
  BY GoodLine
<1>2. line.format \in Formats /\ line.pending \in BOOLEAN /\ kept.pending \in BOOLEAN
      /\ kept.format \in Formats
  BY <1>1, LineFields
<1>3. /\ line.account = kept.account /\ line.format = kept.format /\ (line.pending <=> kept.pending)
      /\ line.list \in {"", kept.account}
  BY DEF LineIsBack
<1>4. PICK g : g = AlignedTo(line, currency)
  OBVIOUS
<1>5. FormatStays(line, kept, g)
  BY <1>1, <1>2, <1>3, <1>4, AlignedIsBack
<1>6. CASE g = line
  BY <1>4, <1>6
<1>7. ASSUME NEW a \in BOOLEAN, a <=> kept.pending,
             g = [line EXCEPT !.format = kept.format, !.pending = a]
      PROVE  LineIsBack(g, kept) /\ g \in Lines
  <2>1. /\ g.account = line.account /\ g.format = kept.format
        /\ g.pending = a /\ g.list = line.list /\ g.asked = line.asked /\ g \in Lines
    BY <1>2, <1>7 DEF Lines
  <2>2. QED BY <1>7, <2>1 DEF LineIsBack
<1>8. QED BY <1>4, <1>5, <1>6, <1>7 DEF FormatStays

LEMMA RenderedLineIsBack ==
  ASSUME NEW old, NEW new \in GoodQuote, NEW i \in DOMAIN new.lines, NEW kept \in GoodLines,
         LineIsBack(new.lines[i], kept), Takes(kept, new.quote)
  PROVE  LineIsBack(LineRendered(old, new, i), kept)
<1>1. new.lines[i] \in Lines
  BY QuoteFields, GoodLine
<1>2. PICK asked : asked = LineAsked(old.lines, new.lines, i)
  OBVIOUS
<1>3. asked \in Lines /\ LineIsBack(asked, kept)
  BY <1>1, <1>2, AskedLineIsBack
<1>4. PICK line : line = AlignedTo(asked, new.quote)
  OBVIOUS
<1>5. LineIsBack(line, kept) /\ line \in Lines
  BY <1>3, <1>4, AlignedLineIsBack
<1>6. PICK l : l = [line EXCEPT !.amount = new.settled]
  OBVIOUS
<1>7. /\ l.account = line.account /\ l.format = line.format
      /\ l.pending = line.pending /\ l.list = line.list /\ l.asked = line.asked
  BY <1>5, <1>6 DEF Lines
<1>8. LineIsBack(l, kept)
  BY <1>5, <1>7 DEF LineIsBack
<1>9. LineRendered(old, new, i) \in {line, l}
  BY <1>2, <1>4, <1>6 DEF LineRendered
<1>10. QED BY <1>5, <1>8, <1>9

LEMMA AnsweredLineIsBack ==
  ASSUME NEW line \in Lines, NEW kept, LineIsBack(line, kept), NEW a \in line.asked, NEW ok \in BOOLEAN
  PROVE  LineIsBack(LineListAnswered(line, a, ok), kept)
<1>1. PICK l, s : l = (IF ok THEN a ELSE line.list) /\ s = line.asked \ {a}
  OBVIOUS
<1>2. PICK g : g = [line EXCEPT !.list = l, !.asked = s]
  OBVIOUS
<1>3. /\ g.account = line.account /\ g.format = line.format
      /\ g.pending = line.pending /\ g.list = l /\ g.asked = s
  BY <1>2 DEF Lines
<1>4. l \in {"", kept.account} /\ s \subseteq {kept.account}
  BY <1>1 DEF LineIsBack
<1>5. LineListAnswered(line, a, ok) = g
  BY <1>1, <1>2 DEF LineListAnswered
<1>6. QED BY <1>3, <1>4, <1>5 DEF LineIsBack

(* A line of a draft has no list and no key.                               *)
KeptLine(line) == [Kept(line) EXCEPT !.key = 0]

LEMMA KeptLineFields ==
  ASSUME NEW line \in Lines
  PROVE  LET g == KeptLine(line)
         IN /\ g \in Lines /\ g.key = 0 /\ g.list = "" /\ g.asked = {}
            /\ g.account = line.account /\ g.format = line.format
            /\ g.amount = line.amount /\ g.pending = line.pending
<1>1. PICK g : g = [line EXCEPT !.list = "", !.asked = {}, !.key = 0]
  OBVIOUS
<1>2. KeptLine(line) = g
  BY <1>1 DEF KeptLine, Kept
<1>3. /\ g \in Lines /\ g.key = 0 /\ g.list = "" /\ g.asked = {}
      /\ g.account = line.account /\ g.format = line.format
      /\ g.amount = line.amount /\ g.pending = line.pending
  BY <1>1 DEF Lines, Maybe
<1>4. QED BY <1>2, <1>3

LEMMA SameLineIs ==
  ASSUME NEW line \in Lines, NEW kept \in Lines,
         line.account = kept.account, line.format = kept.format, line.key = kept.key,
         line.amount = kept.amount, line.pending = kept.pending, line.list = kept.list,
         line.asked = kept.asked
  PROVE  line = kept
BY DEF Lines

LEMMA KeptLineTwice ==
  ASSUME NEW line \in Lines
  PROVE  KeptLine(KeptLine(line)) = KeptLine(line)
<1>1. PICK g : g = KeptLine(line)
  OBVIOUS
<1>2. g \in Lines /\ g.key = 0 /\ g.list = "" /\ g.asked = {}
  BY <1>1, KeptLineFields
<1>3. PICK h : h = KeptLine(g)
  OBVIOUS
<1>4. /\ h \in Lines /\ h.key = 0 /\ h.list = "" /\ h.asked = {}
      /\ h.account = g.account /\ h.format = g.format /\ h.amount = g.amount
      /\ h.pending = g.pending
  BY <1>2, <1>3, KeptLineFields
<1>5. h = g
  BY <1>2, <1>4, SameLineIs
<1>6. QED BY <1>1, <1>3, <1>5

(* A line that is back is kept as it was, but for its amount.              *)
LEMMA BackLineIsKept ==
  ASSUME NEW line \in Lines, NEW kept \in Lines, LineIsBack(line, kept), kept = KeptLine(kept)
  PROVE  KeptLine(line) = [kept EXCEPT !.amount = line.amount]
<1>1. PICK g, h : g = KeptLine(line) /\ h = KeptLine(kept)
  OBVIOUS
<1>2. /\ g \in Lines /\ g.key = 0 /\ g.list = "" /\ g.asked = {}
      /\ g.account = line.account /\ g.format = line.format
      /\ g.amount = line.amount /\ g.pending = line.pending
  BY <1>1, KeptLineFields
<1>3. h.key = 0 /\ h.list = "" /\ h.asked = {} /\ h = kept
  BY <1>1, KeptLineFields
<1>4. PICK k : k = [kept EXCEPT !.amount = line.amount]
  OBVIOUS
<1>5. /\ k \in Lines /\ k.key = kept.key /\ k.list = kept.list /\ k.asked = kept.asked
      /\ k.account = kept.account /\ k.format = kept.format
      /\ k.amount = line.amount /\ k.pending = kept.pending
  BY <1>4, LineFields DEF Lines
<1>6. line.account = kept.account /\ line.format = kept.format /\ line.pending = kept.pending
  BY LineFields DEF LineIsBack
<1>7. g = k
  <2>1. /\ g.account = k.account /\ g.format = k.format /\ g.key = k.key /\ g.amount = k.amount
        /\ g.pending = k.pending /\ g.list = k.list /\ g.asked = k.asked
    BY <1>2, <1>3, <1>5, <1>6
  <2>2. QED BY <1>2, <1>5, <2>1, SameLineIs
<1>8. QED BY <1>1, <1>4, <1>7

(* Other legs in a form without a quote.                                   *)
LEMMA ReplacedTwice ==
  ASSUME NEW f, NEW a, NEW b
  PROVE  [[f EXCEPT !.legs = a] EXCEPT !.legs = b] = [f EXCEPT !.legs = b]
OBVIOUS

LEMMA OtherLegsAreBack ==
  ASSUME kind \in Kinds, ~Quoted, NEW f \in GoodForm(kind), NEW d, FormIsBack(f, d), NEW legs,
         \A i \in DOMAIN d.legs : LegIsBack(legs[i], d.legs[i])
  PROVE  FormIsBack([f EXCEPT !.legs = legs], d)
<1>1. PICK g : g = [f EXCEPT !.legs = legs]
  OBVIOUS
<1>2. g.legs = legs
  BY <1>1, OtherLegs
<1>3. [g EXCEPT !.legs = d.legs] = [f EXCEPT !.legs = d.legs]
  BY <1>1, ReplacedTwice
<1>4. FormIsBack(g, d)
  BY <1>2, <1>3 DEF FormIsBack
<1>5. QED BY <1>1, <1>4

\* What an effect makes of a leg: its list is asked for, and its format aligned or not.
LegMoves(old, new, leg, currency) ==
    \/ kind # "RETIRO_CAPITAL" /\ leg = AlignedTo(ListAsked(old, new), currency)
    \/ kind = "RETIRO_CAPITAL" /\ leg = ListAsked(old, new)

LEMMA MovedLegIsBack ==
  ASSUME NEW old, NEW new \in Legs, NEW kept \in GoodLegs, LegIsBack(new, kept), NEW leg, NEW currency,
         LegMoves(old, new, leg, currency), kind # "RETIRO_CAPITAL" => Takes(kept, currency),
         old \in Legs
  PROVE  LegIsBack(leg, kept)
<1>1. PICK asked : asked = ListAsked(old, new)
  OBVIOUS
<1>2. asked \in Legs /\ LegIsBack(asked, kept)
  BY <1>1, ListsOfLeg, AskedLegIsBack
<1>3. CASE kind = "RETIRO_CAPITAL" /\ leg = asked
  BY <1>2, <1>3
<1>4. CASE kind # "RETIRO_CAPITAL" /\ leg = AlignedTo(asked, currency)
  BY <1>2, <1>4, AlignedLegIsBack
<1>5. QED BY <1>1, <1>3, <1>4 DEF LegMoves

(* What the effects of each form make of its legs.                         *)
LegsMove(old, new, g) ==
    \E legs : /\ g = [new EXCEPT !.legs = legs]
              /\ \A i \in DOMAIN new.legs :
                    LegMoves(old.legs[i], new.legs[i], legs[i], InCurrency(kind, new, i))

LEMMA FormsMoveLegs ==
  ASSUME kind \in Kinds, ~Quoted, kind # "ARBITRAJE",
         NEW old \in GoodForm(kind), NEW new \in GoodForm(kind)
  PROVE  LegsMove(old, new, Rendered(old, new))
<1>1. ASSUME NEW n \in Nat, new.legs \in [1..n -> Legs], old.legs \in [1..n -> Legs],
             kind \notin {"RETIRO_CAPITAL", "TRANSFERENCIA_ENTRE_CUENTAS"}
      PROVE  LegsMove(old, new, [new EXCEPT !.legs = LegsRendered(old.legs, new.legs)])
  <2>1. PICK legs : legs = LegsRendered(old.legs, new.legs)
    OBVIOUS
  <2>2. ASSUME NEW i \in DOMAIN new.legs
        PROVE  LegMoves(old.legs[i], new.legs[i], legs[i], InCurrency(kind, new, i))
    <3>1. old.legs[i] \in Legs /\ new.legs[i] \in Legs
      BY <1>1
    <3>2. PICK asked : asked = ListAsked(old.legs[i], new.legs[i])
      OBVIOUS
    <3>3. asked.currency = new.legs[i].currency
      BY <3>1, <3>2, ListsOfLeg
    <3>4. legs[i] = AlignedTo(asked, asked.currency)
      BY <2>1, <3>2 DEF LegsRendered, Aligned
    <3>5. InCurrency(kind, new, i) = new.legs[i].currency
      BY <1>1 DEF InCurrency
    <3>6. QED BY <1>1, <3>2, <3>3, <3>4, <3>5 DEF LegMoves
  <2>3. QED BY <2>1, <2>2 DEF LegsMove
<1>2. CASE kind \in {"INGRESO_CAPITAL", "RETIRO_CAPITAL", "GASTO"}
  <2>1. old \in GoodCapital /\ new \in GoodCapital
    BY <1>2, OfCapital
  <2>2. new.legs \in [1..1 -> Legs] /\ old.legs \in [1..1 -> Legs] /\ 1 \in Nat
    BY <2>1 DEF GoodCapital, GoodLegs
  <2>3. CASE kind # "RETIRO_CAPITAL"
    <3>1. Rendered(old, new) = [new EXCEPT !.legs = LegsRendered(old.legs, new.legs)]
      BY <1>2, <2>3, OfCapital DEF IngresoRendered
    <3>2. QED BY <1>1, <1>2, <2>2, <2>3, <3>1
  <2>4. CASE kind = "RETIRO_CAPITAL"
    <3>1. PICK leg : leg = ListAsked(old.legs[1], new.legs[1])
      OBVIOUS
    <3>2. PICK legs : legs = <<leg>>
      OBVIOUS
    <3>3. Rendered(old, new) = [new EXCEPT !.legs = legs]
      BY <1>2, <2>4, <3>1, <3>2, OfCapital DEF RetiroRendered
    <3>4. \A i \in DOMAIN new.legs :
             LegMoves(old.legs[i], new.legs[i], legs[i], InCurrency(kind, new, i))
      BY <2>2, <2>4, <3>1, <3>2 DEF LegMoves
    <3>5. QED BY <3>3, <3>4 DEF LegsMove
  <2>5. QED BY <2>3, <2>4
<1>3. CASE kind = "PAGO_CC_CRUZADO"
  <2>1. old \in GoodPago /\ new \in GoodPago
    BY <1>3, OfPago
  <2>2. new.legs \in [1..1 -> Legs] /\ old.legs \in [1..1 -> Legs] /\ 1 \in Nat
    BY <2>1 DEF GoodPago, GoodLegs
  <2>3. Rendered(old, new) = [new EXCEPT !.legs = LegsRendered(old.legs, new.legs)]
    BY <1>3, OfPago DEF PagoRendered
  <2>4. QED BY <1>1, <1>3, <2>2, <2>3
<1>4. CASE kind = "TRASPASO_DEUDA_CC"
  <2>1. new \in TraspasoForm /\ Rendered(old, new) = new
    BY <1>4, OfTraspaso
  <2>2. new = [new EXCEPT !.legs = <<>>] /\ new.legs = <<>>
    BY <2>1 DEF TraspasoForm
  <2>3. DOMAIN new.legs = {}
    BY <2>2
  <2>4. QED BY <2>1, <2>2, <2>3 DEF LegsMove
<1>5. CASE kind = "TRANSFERENCIA_ENTRE_CUENTAS"
  <2>1. old \in GoodCuentas /\ new \in GoodCuentas
    BY <1>5, OfCuentas
  <2>2. /\ new.legs \in [1..2 -> Legs] /\ old.legs \in [1..2 -> Legs]
        /\ new.legs[1] \in Legs /\ old.legs[1] \in Legs
    BY <2>1 DEF GoodCuentas, GoodLegs
  <2>3. PICK from, to : /\ from = ListAsked(old.legs[1], new.legs[1])
                        /\ to = ListAsked(old.legs[2], new.legs[2])
    OBVIOUS
  <2>4. from.currency = new.legs[1].currency
    BY <2>2, <2>3, ListsOfLeg
  <2>5. PICK a, b : /\ a = AlignedTo(from, new.legs[1].currency)
                    /\ b = AlignedTo(to, new.legs[1].currency)
    OBVIOUS
  <2>6. PICK legs : legs = <<a, b>>
    OBVIOUS
  <2>7. Rendered(old, new) = [new EXCEPT !.legs = legs]
    BY <1>5, <2>3, <2>4, <2>5, <2>6, OfCuentas DEF CuentasRendered, Aligned
  <2>8. \A i \in DOMAIN new.legs : InCurrency(kind, new, i) = new.legs[1].currency
    BY <1>5 DEF InCurrency
  <2>9. \A i \in 1..2 :
           LegMoves(old.legs[i], new.legs[i], legs[i], new.legs[1].currency)
    <3>1. LegMoves(old.legs[1], new.legs[1], a, new.legs[1].currency)
      BY <1>5, <2>3, <2>5 DEF LegMoves
    <3>2. LegMoves(old.legs[2], new.legs[2], b, new.legs[1].currency)
      BY <1>5, <2>3, <2>5 DEF LegMoves
    <3>3. legs[1] = a /\ legs[2] = b
      BY <2>6
    <3>4. QED BY <3>1, <3>2, <3>3
  <2>10. DOMAIN new.legs = 1..2
    BY <2>2
  <2>11. \A i \in DOMAIN new.legs :
            LegMoves(old.legs[i], new.legs[i], legs[i], InCurrency(kind, new, i))
    BY <2>8, <2>9, <2>10
  <2>12. QED BY <2>7, <2>11 DEF LegsMove
<1>6. QED BY <1>2, <1>3, <1>4, <1>5, KindIs DEF Quoted

LEMMA CurrencyIsBack ==
  ASSUME kind \in Kinds, NEW f \in GoodForm(kind), NEW d \in GoodForm(kind),
         FormIsBack(f, d), NEW i \in DOMAIN d.legs
  PROVE  InCurrency(kind, f, i) = InCurrency(kind, d, i)
<1>1. CASE kind = "TRANSFERENCIA_ENTRE_CUENTAS"
  <2>1. d \in GoodCuentas
    BY <1>1, OfCuentas
  <2>2. 1 \in DOMAIN d.legs
    BY <2>1 DEF GoodCuentas
  <2>3. LegIsBack(f.legs[1], d.legs[1])
    BY <2>2 DEF FormIsBack
  <2>4. QED BY <1>1, <2>3 DEF InCurrency, LegIsBack
<1>2. CASE kind # "TRANSFERENCIA_ENTRE_CUENTAS"
  <2>1. LegIsBack(f.legs[i], d.legs[i])
    BY DEF FormIsBack
  <2>2. QED BY <1>2, <2>1 DEF InCurrency, LegIsBack
<1>3. QED BY <1>1, <1>2

LEMMA LegsAreIn ==
  ASSUME kind \in Kinds, NEW f \in GoodForm(kind), NEW i \in DOMAIN f.legs
  PROVE  f.legs[i] \in GoodLegs /\ f.legs[i] \in Legs
<1>1. PICK n \in Nat : f.legs \in [1..n -> GoodLegs]
  BY LegsOfForm
<1>2. QED BY <1>1, GoodLeg

(* A render leaves what a form without a quote has of a draft.             *)
LEMMA LegsAreRendered ==
  ASSUME kind \in Kinds, ~Quoted, kind # "ARBITRAJE",
         NEW old \in GoodForm(kind), NEW new \in GoodForm(kind), NEW d \in GoodForm(kind),
         SavedAtRest(kind, d), FormIsBack(new, d)
  PROVE  FormIsBack(Rendered(old, new), d)
<1>1. LegsMove(old, new, Rendered(old, new))
  BY FormsMoveLegs
<1>2. PICK legs : /\ Rendered(old, new) = [new EXCEPT !.legs = legs]
                  /\ \A i \in DOMAIN new.legs :
                       LegMoves(old.legs[i], new.legs[i], legs[i], InCurrency(kind, new, i))
  BY <1>1 DEF LegsMove
<1>3. DOMAIN old.legs = DOMAIN d.legs /\ DOMAIN new.legs = DOMAIN d.legs
  BY SameLegs
<1>4. ASSUME NEW i \in DOMAIN d.legs
      PROVE  LegIsBack(legs[i], d.legs[i])
  <2>1. PICK o, n, k, c : /\ o = old.legs[i] /\ n = new.legs[i] /\ k = d.legs[i]
                          /\ c = InCurrency(kind, new, i)
    OBVIOUS
  <2>2. o \in Legs /\ n \in Legs /\ k \in GoodLegs
    BY <1>3, <1>4, <2>1, LegsAreIn
  <2>3. LegIsBack(n, k)
    BY <2>1 DEF FormIsBack
  <2>4. LegMoves(o, n, legs[i], c)
    BY <1>2, <1>3, <2>1
  <2>5. kind # "RETIRO_CAPITAL" => Takes(k, c)
    BY <1>4, <2>1, CurrencyIsBack DEF SavedAtRest
  <2>6. LegIsBack(legs[i], k)
    BY <2>2, <2>3, <2>4, <2>5, MovedLegIsBack
  <2>7. QED BY <2>1, <2>6
<1>5. QED BY <1>2, <1>4, OtherLegsAreBack

(* What a render makes of a quote, field by field.                         *)
LEMMA QuoteParts ==
  ASSUME NEW old \in GoodQuote, NEW new \in GoodQuote
  PROVE  LET g == VentaRendered(old, new)
         IN /\ g.legs[1] = Aligned(ListAsked(old.legs[1], new.legs[1]))
            /\ g.rate = new.rate /\ g.mode = new.mode
            /\ \A i \in DOMAIN new.lines : g.lines[i] = LineRendered(old, new, i)
<1>1. PICK leg : leg = Aligned(ListAsked(old.legs[1], new.legs[1]))
  OBVIOUS
<1>2. PICK lines : lines = [i \in DOMAIN new.lines |-> LineRendered(old, new, i)]
  OBVIOUS
<1>3. PICK first : first = Mode(new)
  OBVIOUS
<1>4. PICK g : g = [new EXCEPT !.legs = <<leg>>, !.lines = lines, !.first = first]
  OBVIOUS
<1>5. VentaRendered(old, new) = g
  BY <1>1, <1>2, <1>3, <1>4 DEF VentaRendered
<1>6. /\ g.legs = <<leg>> /\ g.lines = lines /\ g.rate = new.rate /\ g.mode = new.mode
  BY <1>4 DEF GoodQuote
<1>7. \A i \in DOMAIN new.lines : lines[i] = LineRendered(old, new, i)
  BY <1>2
<1>8. g.legs[1] = leg
  BY <1>6
<1>9. QED BY <1>1, <1>5, <1>6, <1>7, <1>8

(* ... and it leaves what the form has of a draft saved at rest.           *)
LEMMA QuoteIsRendered ==
  ASSUME kind \in {"VENTA", "COMPRA"},
         NEW old \in GoodQuote, NEW new \in GoodQuote, NEW d \in GoodQuote,
         SavedAtRest(kind, d), FormIsBack(new, d),
         FillsIn(d) => Fills(old, new) \/ new.lines[1].amount = new.settled,
         ~FillsIn(d) => \A i \in DOMAIN d.lines : new.lines[i].amount = d.lines[i].amount
  PROVE  IsBack(VentaRendered(old, new), d)
<1>1. Quoted
  BY DEF Quoted
<1>2. /\ new.rate = d.rate /\ new.quote = d.quote /\ new.mode = d.mode
      /\ new.first = d.first /\ Len(new.lines) = Len(d.lines)
      /\ \A i \in DOMAIN d.lines : LineIsBack(new.lines[i], d.lines[i])
      /\ \A i \in DOMAIN d.legs : LegIsBack(new.legs[i], d.legs[i])
  BY <1>1 DEF FormIsBack
<1>3. /\ DOMAIN d.lines = 1..Len(d.lines) /\ DOMAIN new.lines = DOMAIN d.lines
      /\ Len(d.lines) \in Nat \ {0} /\ 1 \in DOMAIN d.lines
      /\ \A i \in DOMAIN d.lines : d.lines[i] \in GoodLines
      /\ DOMAIN d.legs = {1} /\ d.legs[1] \in GoodLegs /\ new.legs[1] \in Legs /\ old.legs[1] \in Legs
  <2>1. DOMAIN d.legs = {1}
    BY DEF GoodQuote
  <2>2. QED BY <1>2, <2>1, QuoteFields, GoodLeg
<1>4. /\ \A i \in DOMAIN d.legs : Takes(d.legs[i], InCurrency(kind, d, i))
      /\ \A i \in DOMAIN d.lines : Takes(d.lines[i], d.quote)
      /\ Len(d.lines) = 1 /\ d.lines[1].amount = 0 => d.first = "AUTO"
  BY DEF SavedAtRest
<1>5. PICK g : g = VentaRendered(old, new)
  OBVIOUS
<1>6. /\ g.quote = new.quote /\ g.settled = new.settled /\ g.first = Mode(new)
      /\ Len(g.lines) = Len(new.lines)
      /\ \A i \in DOMAIN new.lines :
           g.lines[i].amount = IF Fills(old, new) THEN new.settled ELSE new.lines[i].amount
  BY <1>5, VentaIsRendered
<1>7. /\ g.legs[1] = Aligned(ListAsked(old.legs[1], new.legs[1]))
      /\ g.rate = new.rate /\ g.mode = new.mode
      /\ \A i \in DOMAIN new.lines : g.lines[i] = LineRendered(old, new, i)
  BY <1>5, QuoteParts
<1>8. LegIsBack(g.legs[1], d.legs[1])
  <2>1. PICK o, n, k : o = old.legs[1] /\ n = new.legs[1] /\ k = d.legs[1]
    OBVIOUS
  <2>2. o \in Legs /\ n \in Legs /\ k \in GoodLegs /\ LegIsBack(n, k)
    BY <1>2, <1>3, <2>1
  <2>3. PICK asked : asked = ListAsked(o, n)
    OBVIOUS
  <2>4. asked \in Legs /\ LegIsBack(asked, k)
    BY <2>2, <2>3, ListsOfLeg, AskedLegIsBack
  <2>5. asked.currency = k.currency
    BY <2>4 DEF LegIsBack
  <2>6. Takes(k, k.currency)
    <3>1. InCurrency(kind, d, 1) = k.currency
      BY <2>1 DEF InCurrency
    <3>2. QED BY <1>3, <1>4, <2>1, <3>1
  <2>7. LegIsBack(AlignedTo(asked, k.currency), k)
    BY <2>2, <2>4, <2>6, AlignedLegIsBack
  <2>8. QED BY <1>7, <2>1, <2>3, <2>5, <2>7 DEF Aligned
<1>9. ASSUME NEW i \in DOMAIN d.lines
      PROVE  LineIsBack(g.lines[i], d.lines[i])
  <2>1. d.lines[i] \in GoodLines /\ LineIsBack(new.lines[i], d.lines[i])
        /\ Takes(d.lines[i], new.quote) /\ i \in DOMAIN new.lines
    BY <1>2, <1>3, <1>4, <1>9
  <2>2. LineIsBack(LineRendered(old, new, i), d.lines[i])
    BY <2>1, RenderedLineIsBack
  <2>3. QED BY <1>7, <2>1, <2>2
<1>10. Mode(new) = d.first
  <2>1. CASE FillsIn(d)
    BY <1>2, <2>1 DEF FillsIn, Mode
  <2>2. CASE ~FillsIn(d)
    <3>1. Len(new.lines) = 1 /\ new.lines[1].amount = 0 => d.first = "AUTO"
      BY <1>2, <1>3, <1>4, <2>2
    <3>2. QED BY <1>2, <3>1 DEF Mode
  <2>3. QED BY <2>1, <2>2
<1>11. AmountsAreBack(g, d)
  <2>1. FillsIn(d) => g.lines[1].amount = g.settled
    BY <1>3, <1>6
  <2>2. ~FillsIn(d) => ~Fills(old, new)
    BY <1>2, <1>10 DEF Fills, FillsIn
  <2>3. ~FillsIn(d) => \A i \in DOMAIN d.lines : g.lines[i].amount = d.lines[i].amount
    BY <1>3, <1>6, <2>2
  <2>4. QED BY <2>1, <2>3 DEF AmountsAreBack
<1>12. FormIsBack(g, d)
  <2>1. \A i \in DOMAIN d.legs : LegIsBack(g.legs[i], d.legs[i])
    BY <1>3, <1>8
  <2>2. QED BY <1>1, <1>2, <1>6, <1>7, <1>9, <1>10, <2>1 DEF FormIsBack
<1>13. QED BY <1>5, <1>11, <1>12 DEF IsBack

(* A blank form has asked for nothing.                                     *)
LEMMA BlankIsEmpty ==
  ASSUME kind \in Kinds
  PROVE  /\ \A i \in DOMAIN Blank.legs : Blank.legs[i] = EmptyLeg
         /\ \A i \in DOMAIN Blank.lines : Blank.lines[i].asked = {}
         /\ Quoted => Worth(Blank) = Blank.settled
<1>1. PICK leg : leg = EmptyLeg
  OBVIOUS
<1>2. ASSUME NEW legs, \/ legs = <<>> \/ legs = <<EmptyLeg>> \/ legs = <<EmptyLeg, EmptyLeg>>
                       \/ legs = <<EmptyLeg, EmptyLeg, EmptyLeg>>
      PROVE  \A i \in DOMAIN legs : legs[i] = EmptyLeg
  <2>1. \/ legs = <<>> \/ legs = <<leg>> \/ legs = <<leg, leg>> \/ legs = <<leg, leg, leg>>
    BY <1>1, <1>2
  <2>2. \A i \in DOMAIN legs : legs[i] = leg
    BY <2>1
  <2>3. QED BY <1>1, <2>2
<1>3. CASE kind \in {"VENTA", "COMPRA"}
  <2>1. Blank = VentaBlank
    BY <1>3, OfQuote
  <2>2. /\ VentaBlank.legs = <<EmptyLeg>> /\ VentaBlank.lines = <<BlankLine(1)>>
        /\ VentaBlank.settled = 0 /\ VentaBlank.rate = 0
    BY DEF VentaBlank
  <2>3. PICK line : line = BlankLine(1)
    OBVIOUS
  <2>4. line.asked = {}
    BY <2>3 DEF BlankLine
  <2>5. \A i \in DOMAIN <<line>> : <<line>>[i] = line
    OBVIOUS
  <2>6. \A i \in DOMAIN VentaBlank.lines : VentaBlank.lines[i].asked = {}
    BY <2>2, <2>3, <2>4, <2>5
  <2>7. Worth(VentaBlank) = 0
    BY <2>2 DEF Worth, calculateEquivalent
  <2>8. QED BY <1>2, <2>1, <2>2, <2>6, <2>7
<1>4. CASE ~Quoted
  <2>1. \/ Blank.legs = <<>> \/ Blank.legs = <<EmptyLeg>> \/ Blank.legs = <<EmptyLeg, EmptyLeg>>
        \/ Blank.legs = <<EmptyLeg, EmptyLeg, EmptyLeg>>
    <3>1. /\ CapitalBlank.legs = <<EmptyLeg>> /\ PagoBlank.legs = <<EmptyLeg>>
          /\ TraspasoBlank.legs = <<>> /\ CuentasBlank.legs = <<EmptyLeg, EmptyLeg>>
          /\ ArbitrajeBlank.legs = <<EmptyLeg, EmptyLeg, EmptyLeg>>
      BY DEF CapitalBlank, PagoBlank, TraspasoBlank, CuentasBlank, ArbitrajeBlank
    <3>2. Blank \in {CapitalBlank, PagoBlank, TraspasoBlank, CuentasBlank, ArbitrajeBlank}
      BY <1>4, KindIs, OfCapital, OfPago, OfTraspaso, OfCuentas, OfArbitraje DEF Quoted
    <3>3. QED BY <3>1, <3>2
  <2>2. Blank.lines = <<>>
    BY <1>4, BlankIsConsistent, NoLines DEF Consistent
  <2>3. DOMAIN Blank.lines = {}
    BY <2>2
  <2>4. QED BY <1>2, <1>4, <2>1, <2>3
<1>5. QED BY <1>3, <1>4 DEF Quoted

LEMMA OwnLegs ==
  ASSUME kind \in Kinds, ~Quoted, NEW f \in GoodForm(kind)
  PROVE  [f EXCEPT !.legs = f.legs] = f
<1>1. /\ \A g \in GoodCapital : [g EXCEPT !.legs = g.legs] = g
      /\ \A g \in GoodPago : [g EXCEPT !.legs = g.legs] = g
      /\ \A g \in TraspasoForm : [g EXCEPT !.legs = g.legs] = g
      /\ \A g \in GoodCuentas : [g EXCEPT !.legs = g.legs] = g
      /\ \A g \in GoodArbitraje : [g EXCEPT !.legs = g.legs] = g
  BY DEF GoodCapital, GoodPago, TraspasoForm, GoodCuentas, GoodArbitraje
<1>2. GoodForm(kind) \in {GoodCapital, GoodPago, TraspasoForm, GoodCuentas, GoodArbitraje}
  BY KindIs, OfCapital, OfPago, OfTraspaso, OfCuentas, OfArbitraje DEF Quoted
<1>3. QED BY <1>1, <1>2

(* A draft in a blank form without a quote.                                *)
LEMMA RestoredLegsAreBack ==
  ASSUME kind \in Kinds, ~Quoted, kind # "ARBITRAJE", NEW d \in GoodForm(kind)
  PROVE  FormIsBack(Restored(Blank, d), d)
<1>1. DOMAIN Blank.legs = DOMAIN d.legs
  BY BlankIsConsistent, SameLegs DEF Consistent
<1>2. PICK legs : legs = LegsRefilled(Blank.legs, d.legs)
  OBVIOUS
<1>3. ASSUME NEW i \in DOMAIN d.legs
      PROVE  LegIsBack(legs[i], d.legs[i])
  <2>1. Blank.legs[i] = EmptyLeg /\ d.legs[i] \in Legs
    BY <1>1, <1>3, BlankIsEmpty, LegsAreIn
  <2>2. legs[i] = Refilled(EmptyLeg, d.legs[i])
    BY <1>2, <2>1 DEF LegsRefilled
  <2>3. QED BY <2>1, <2>2, RefilledLegIsBack
<1>4. PICK g : g = [d EXCEPT !.legs = legs]
  OBVIOUS
<1>5. FormIsBack(g, d)
  <2>1. g.legs = legs
    BY <1>4, OtherLegs
  <2>2. [g EXCEPT !.legs = d.legs] = d
    BY <1>4, ReplacedTwice, OwnLegs
  <2>3. QED BY <1>3, <2>1, <2>2 DEF FormIsBack
<1>6. CASE kind = "TRASPASO_DEUDA_CC"
  <2>1. Restored(Blank, d) = d /\ d \in TraspasoForm
    BY <1>6, OfTraspaso
  <2>2. d.legs = <<>>
    BY <2>1 DEF TraspasoForm
  <2>3. DOMAIN d.legs = {}
    BY <2>2
  <2>4. QED BY <2>1, <2>3, OwnLegs DEF FormIsBack
<1>7. CASE kind # "TRASPASO_DEUDA_CC"
  <2>1. Restored(Blank, d) = g
    <3>1. CASE kind \in {"INGRESO_CAPITAL", "RETIRO_CAPITAL", "GASTO"}
      BY <1>2, <1>4, <3>1, OfCapital DEF IngresoRestored
    <3>2. CASE kind = "PAGO_CC_CRUZADO"
      BY <1>2, <1>4, <3>2, OfPago DEF PagoRestored
    <3>3. CASE kind = "TRANSFERENCIA_ENTRE_CUENTAS"
      BY <1>2, <1>4, <3>3, OfCuentas DEF CuentasRestored
    <3>4. QED BY <1>7, <3>1, <3>2, <3>3, KindIs DEF Quoted
  <2>2. QED BY <1>5, <2>1
<1>8. QED BY <1>6, <1>7

(* A draft in a blank quote: its line is filled in, as its key is new.     *)
LEMMA RestoredQuoteIsBack ==
  ASSUME kind \in {"VENTA", "COMPRA"}, NEW d \in GoodQuote, SavedAtRest(kind, d)
  PROVE  LET g == VentaRestored(VentaBlank, d)
         IN /\ FormIsBack(g, d)
            /\ FillsIn(d) => Fills(VentaBlank, g)
            /\ ~FillsIn(d) => \A i \in DOMAIN d.lines : g.lines[i].amount = d.lines[i].amount
<1>1. Quoted
  BY DEF Quoted
<1>2. /\ DOMAIN d.lines = 1..Len(d.lines) /\ Len(d.lines) \in Nat \ {0}
      /\ \A i \in DOMAIN d.lines : d.lines[i] \in Lines
      /\ DOMAIN d.legs = {1} /\ d.legs[1] \in Legs
  <2>1. DOMAIN d.legs = {1}
    BY DEF GoodQuote
  <2>2. QED BY <2>1, QuoteFields, GoodLeg, GoodLine
<1>3. \A i \in DOMAIN d.lines : d.lines[i] = KeptLine(d.lines[i])
  BY DEF SavedAtRest, KeptLine
<1>4. PICK key : key = NewKey(VentaBlank)
  OBVIOUS
<1>5. VentaBlank.lines[1].key = 1 /\ key # 1
  <2>1. VentaBlank.lines = <<BlankLine(1)>>
    BY DEF VentaBlank
  <2>2. BlankLine(1).key = 1
    BY BlankLineIsGood
  <2>3. VentaBlank.lines[1] = BlankLine(1) /\ 1 \in DOMAIN VentaBlank.lines
    BY <2>1
  <2>4. \A i \in DOMAIN VentaBlank.lines : VentaBlank.lines[i].key # key
    BY <1>4, VentaBlankIsGood, GoodLinesAreLines
  <2>5. QED BY <2>2, <2>3, <2>4
<1>6. PICK leg : leg = Refilled(VentaBlank.legs[1], d.legs[1])
  OBVIOUS
<1>7. LegIsBack(leg, d.legs[1])
  <2>1. VentaBlank.legs = <<EmptyLeg>>
    BY DEF VentaBlank
  <2>2. VentaBlank.legs[1] = EmptyLeg
    BY <2>1
  <2>3. QED BY <1>2, <1>6, <2>2, RefilledLegIsBack
<1>8. PICK lines : lines = [i \in DOMAIN d.lines |->
                             [d.lines[i] EXCEPT !.key = IF i = 1 THEN key ELSE 2 * MaxLines + i]]
  OBVIOUS
<1>9. ASSUME NEW i \in DOMAIN d.lines
      PROVE  /\ LineIsBack(lines[i], d.lines[i])
             /\ lines[i].amount = d.lines[i].amount
             /\ i = 1 => lines[i].key = key
  <2>1. PICK line, k : line = d.lines[i] /\ k = IF i = 1 THEN key ELSE 2 * MaxLines + i
    OBVIOUS
  <2>2. line \in Lines /\ line = KeptLine(line)
    BY <1>2, <1>3, <1>9, <2>1
  <2>3. line.list = "" /\ line.asked = {}
    BY <2>2, KeptLineFields
  <2>4. PICK l : l = [line EXCEPT !.key = k]
    OBVIOUS
  <2>5. /\ l.key = k /\ l.account = line.account /\ l.format = line.format /\ l.amount = line.amount
        /\ l.pending = line.pending /\ l.list = line.list /\ l.asked = line.asked
    BY <2>2, <2>4 DEF Lines
  <2>6. LineIsBack(l, line)
    BY <2>3, <2>5 DEF LineIsBack
  <2>7. lines[i] = l
    BY <1>8, <1>9, <2>1, <2>4
  <2>8. QED BY <2>1, <2>5, <2>6, <2>7
<1>10. PICK g : g = [d EXCEPT !.legs = <<leg>>, !.settled = VentaBlank.settled, !.lines = lines]
  OBVIOUS
<1>11. VentaRestored(VentaBlank, d) = g
  BY <1>4, <1>6, <1>8, <1>10 DEF VentaRestored
<1>12. /\ g.legs = <<leg>> /\ g.rate = d.rate /\ g.quote = d.quote /\ g.mode = d.mode
       /\ g.first = d.first /\ g.lines = lines
  BY <1>10 DEF GoodQuote
<1>13. g.legs[1] = leg
  BY <1>12
<1>14. Len(g.lines) = Len(d.lines)
  <2>1. g \in GoodQuote
    BY <1>11, VentaBlankIsGood, VentaRestoredIsGood
  <2>2. DOMAIN g.lines = DOMAIN d.lines
    BY <1>8, <1>12
  <2>3. DOMAIN g.lines = 1..Len(g.lines) /\ Len(g.lines) \in Nat
    BY <2>1, QuoteFields
  <2>4. QED BY <1>2, <2>2, <2>3
<1>15. FormIsBack(g, d)
  <2>1. \A i \in DOMAIN d.legs : LegIsBack(g.legs[i], d.legs[i])
    BY <1>2, <1>7, <1>13
  <2>2. QED BY <1>1, <1>9, <1>12, <1>14, <2>1 DEF FormIsBack
<1>16. ASSUME FillsIn(d)
       PROVE  Fills(VentaBlank, g)
  <2>1. Len(g.lines) = 1 /\ g.first = "AUTO" /\ 1 \in DOMAIN d.lines
    BY <1>2, <1>12, <1>14, <1>16 DEF FillsIn
  <2>2. Mode(g) = "AUTO"
    BY <2>1 DEF Mode
  <2>3. g.lines[1].key = key
    BY <1>9, <1>12, <2>1
  <2>4. QED BY <1>5, <2>1, <2>2, <2>3 DEF Fills, FillsFrom
<1>17. QED BY <1>9, <1>11, <1>12, <1>15, <1>16

(* A render leaves what a form has of a draft saved at rest.               *)
LineIsReady(old, new, d) ==
    /\ FillsIn(d) => Fills(old, new) \/ new.lines[1].amount = new.settled
    /\ ~FillsIn(d) => \A i \in DOMAIN d.lines : new.lines[i].amount = d.lines[i].amount

LEMMA FormStaysBack ==
  ASSUME kind \in Kinds, kind # "ARBITRAJE",
         NEW old \in GoodForm(kind), NEW new \in GoodForm(kind), NEW d \in GoodForm(kind),
         SavedAtRest(kind, d), FormIsBack(new, d), Quoted => LineIsReady(old, new, d)
  PROVE  IsBack(Rendered(old, new), d)
<1>1. CASE Quoted
  <2>1. kind \in {"VENTA", "COMPRA"}
    BY <1>1 DEF Quoted
  <2>2. GoodForm(kind) = GoodQuote /\ Rendered(old, new) = VentaRendered(old, new)
    BY <2>1, OfQuote
  <2>3. /\ FillsIn(d) => Fills(old, new) \/ new.lines[1].amount = new.settled
        /\ ~FillsIn(d) => \A i \in DOMAIN d.lines : new.lines[i].amount = d.lines[i].amount
    BY <1>1 DEF LineIsReady
  <2>4. IsBack(VentaRendered(old, new), d)
    BY <2>1, <2>2, <2>3, QuoteIsRendered
  <2>5. QED BY <2>2, <2>4
<1>2. CASE ~Quoted
  BY <1>2, LegsAreRendered DEF IsBack
<1>3. QED BY <1>1, <1>2

LEMMA LoadedIsBack ==
  ASSUME kind \in Kinds, kind # "ARBITRAJE", NEW d \in GoodForm(kind), SavedAtRest(kind, d)
  PROVE  IsBack(Rendered(Blank, Restored(Blank, d)), d)
<1>1. Consistent(Blank) /\ Blank \in GoodForm(kind)
  BY BlankIsConsistent DEF Consistent
<1>2. PICK g : g = Restored(Blank, d)
  OBVIOUS
<1>3. g \in GoodForm(kind)
  BY <1>1, <1>2, FormsReached DEF Reaches
<1>4. CASE Quoted
  <2>1. kind \in {"VENTA", "COMPRA"}
    BY <1>4 DEF Quoted
  <2>2. d \in GoodQuote /\ Blank = VentaBlank /\ g = VentaRestored(VentaBlank, d)
    BY <1>2, <2>1, OfQuote
  <2>3. FormIsBack(g, d) /\ LineIsReady(Blank, g, d)
    BY <2>1, <2>2, RestoredQuoteIsBack DEF LineIsReady
  <2>4. QED BY <1>1, <1>2, <1>3, <2>3, FormStaysBack
<1>5. CASE ~Quoted
  BY <1>1, <1>2, <1>3, <1>5, RestoredLegsAreBack, FormStaysBack
<1>6. QED BY <1>4, <1>5

(* The list of an account arrives at a leg of it.                          *)
LEMMA LegListIsBack ==
  ASSUME kind \in Kinds, kind # "ARBITRAJE", NEW f, Consistent(f), NEW d \in GoodForm(kind),
         SavedAtRest(kind, d), IsBack(f, d),
         NEW i \in DOMAIN f.legs, NEW a \in Accounts, a \in f.legs[i].asked, NEW ok \in BOOLEAN
  PROVE  IsBack(Rendered(f, [f EXCEPT !.legs[i] = ListAnswered(f.legs[i], a, ok)]), d)
<1>1. f \in GoodForm(kind)
  BY DEF Consistent
<1>2. PICK answered : answered = ListAnswered(f.legs[i], a, ok)
  OBVIOUS
<1>3. PICK legs : legs = [f.legs EXCEPT ![i] = answered]
  OBVIOUS
<1>4. PICK g : g = [f EXCEPT !.legs = legs]
  OBVIOUS
<1>5. g = [f EXCEPT !.legs[i] = ListAnswered(f.legs[i], a, ok)]
  BY <1>2, <1>3, <1>4
<1>6. /\ g \in GoodForm(kind) /\ g.lines = f.lines /\ (Quoted => g.first = f.first)
  BY <1>5, LegListReaches DEF Reaches
<1>7. \A j \in DOMAIN d.legs : LegIsBack(f.legs[j], d.legs[j])
  BY DEF IsBack, FormIsBack
<1>8. DOMAIN f.legs = DOMAIN d.legs
  BY <1>1, SameLegs
<1>9. LegIsBack(answered, d.legs[i])
  <2>1. PICK leg : leg = f.legs[i]
    OBVIOUS
  <2>2. leg \in Legs /\ LegIsBack(leg, d.legs[i]) /\ a \in leg.asked
    BY <1>1, <1>7, <1>8, <2>1, LegsAreIn
  <2>3. QED BY <1>2, <2>1, <2>2, AnsweredLegIsBack
<1>10. \A j \in DOMAIN d.legs : LegIsBack(legs[j], d.legs[j])
  BY <1>3, <1>7, <1>8, <1>9
<1>11. CASE ~Quoted
  <2>1. FormIsBack(g, d)
    BY <1>1, <1>4, <1>10, <1>11, OtherLegsAreBack DEF IsBack
  <2>2. QED BY <1>1, <1>5, <1>6, <1>11, <2>1, FormStaysBack
<1>12. CASE Quoted
  <2>1. f \in GoodQuote
    BY <1>1, <1>12, OfQuote DEF Quoted
  <2>2. /\ g.legs = legs /\ g.rate = f.rate /\ g.quote = f.quote /\ g.mode = f.mode
        /\ g.settled = f.settled
    BY <1>4, <2>1 DEF GoodQuote
  <2>3. FormIsBack(g, d)
    BY <1>6, <1>10, <1>12, <2>2 DEF IsBack, FormIsBack
  <2>4. LineIsReady(f, g, d)
    BY <1>6, <1>12, <2>2 DEF IsBack, AmountsAreBack, LineIsReady
  <2>5. QED BY <1>1, <1>5, <1>6, <2>3, <2>4, FormStaysBack
<1>13. QED BY <1>11, <1>12

(* ... or at a line of it.                                                 *)
LEMMA LineListIsBack ==
  ASSUME kind \in Kinds, kind # "ARBITRAJE", NEW f, Consistent(f), NEW d \in GoodForm(kind),
         SavedAtRest(kind, d), IsBack(f, d),
         NEW i \in DOMAIN f.lines, NEW a \in Accounts, a \in f.lines[i].asked, NEW ok \in BOOLEAN
  PROVE  IsBack(Rendered(f, [f EXCEPT !.lines[i] = LineListAnswered(f.lines[i], a, ok)]), d)
<1>1. f \in GoodForm(kind)
  BY DEF Consistent
<1>2. PICK answered : answered = LineListAnswered(f.lines[i], a, ok)
  OBVIOUS
<1>3. PICK lines : lines = [f.lines EXCEPT ![i] = answered]
  OBVIOUS
<1>4. PICK g : g = [f EXCEPT !.lines = lines]
  OBVIOUS
<1>5. g = [f EXCEPT !.lines[i] = LineListAnswered(f.lines[i], a, ok)]
  BY <1>2, <1>3, <1>4
<1>6. /\ Quoted /\ g \in GoodForm(kind)
      /\ g.legs = f.legs /\ g.first = f.first /\ Len(g.lines) = Len(f.lines)
      /\ \A j \in DOMAIN f.lines : g.lines[j].amount = f.lines[j].amount
  BY <1>5, LineListReaches DEF Reaches
<1>7. f \in GoodQuote /\ d \in GoodQuote
  BY <1>1, <1>6, OfQuote DEF Quoted
<1>8. /\ g.lines = lines /\ g.rate = f.rate /\ g.quote = f.quote /\ g.mode = f.mode
      /\ g.settled = f.settled
  BY <1>4, <1>7 DEF GoodQuote
<1>9. /\ \A j \in DOMAIN d.lines : LineIsBack(f.lines[j], d.lines[j])
      /\ Len(f.lines) = Len(d.lines)
  BY <1>6 DEF IsBack, FormIsBack
<1>10. DOMAIN f.lines = DOMAIN d.lines /\ (FillsIn(d) => 1 \in DOMAIN d.lines)
  BY <1>7, <1>9, QuoteFields DEF FillsIn
<1>11. LineIsBack(answered, d.lines[i])
  <2>1. PICK line : line = f.lines[i]
    OBVIOUS
  <2>2. line \in Lines /\ LineIsBack(line, d.lines[i]) /\ a \in line.asked
    BY <1>7, <1>9, <1>10, <2>1, QuoteFields, GoodLine
  <2>3. QED BY <1>2, <2>1, <2>2, AnsweredLineIsBack
<1>12. \A j \in DOMAIN d.lines : LineIsBack(lines[j], d.lines[j])
  BY <1>3, <1>9, <1>10, <1>11
<1>13. FormIsBack(g, d)
  BY <1>6, <1>8, <1>12 DEF IsBack, FormIsBack
<1>14. LineIsReady(f, g, d)
  BY <1>6, <1>8, <1>10 DEF IsBack, AmountsAreBack, LineIsReady
<1>15. QED BY <1>1, <1>5, <1>6, <1>13, <1>14, FormStaysBack

(* The equivalent settles: a single automatic line follows.                *)
LEMMA SettledIsBack ==
  ASSUME kind \in Kinds, Quoted, NEW f, Consistent(f), NEW d \in GoodForm(kind),
         SavedAtRest(kind, d), IsBack(f, d), f.settled # Worth(f)
  PROVE  IsBack(Rendered(f, Settling(f)), d)
<1>1. f \in GoodForm(kind) /\ f \in GoodQuote
  BY OfQuote DEF Quoted, Consistent
<1>2. PICK g : g = Settling(f)
  OBVIOUS
<1>3. g \in GoodForm(kind) /\ g.lines = f.lines /\ g.first = f.first /\ g.legs = f.legs
  BY <1>2, SettlingReaches DEF Reaches
<1>4. g.rate = f.rate /\ g.quote = f.quote /\ g.mode = f.mode /\ g.settled = Worth(f)
  BY <1>1, <1>2 DEF Settling, GoodQuote
<1>5. FormIsBack(g, d)
  BY <1>3, <1>4 DEF IsBack, FormIsBack
<1>6. f.first = d.first /\ Len(f.lines) = Len(d.lines)
  BY DEF IsBack, FormIsBack
<1>7. FillsIn(d) => Fills(f, g)
  BY <1>3, <1>4, <1>6 DEF FillsIn, Fills, FillsFrom, Mode
<1>8. LineIsReady(f, g, d)
  BY <1>3, <1>7 DEF IsBack, AmountsAreBack, LineIsReady
<1>9. QED BY <1>1, <1>2, <1>3, <1>5, <1>8, FormStaysBack DEF Quoted

(* What a draft keeps of a quote, field by field.                          *)
LEMMA QuoteDataParts ==
  ASSUME NEW f \in GoodQuote
  PROVE  LET g == QuoteData(f)
         IN /\ g \in GoodQuote
            /\ g.legs[1] = Kept(f.legs[1]) /\ g.rate = f.rate /\ g.quote = f.quote
            /\ g.mode = f.mode /\ g.first = f.first /\ g.settled = 0
            /\ Len(g.lines) = Len(f.lines) /\ DOMAIN g.lines = DOMAIN f.lines
            /\ \A i \in DOMAIN f.lines : g.lines[i] = KeptLine(f.lines[i])
            /\ Worth(g) = Worth(f)
<1>1. PICK leg : leg = Kept(f.legs[1])
  OBVIOUS
<1>2. PICK lines : lines = [i \in DOMAIN f.lines |-> [Kept(f.lines[i]) EXCEPT !.key = 0]]
  OBVIOUS
<1>3. PICK g : g = [f EXCEPT !.legs = <<leg>>, !.settled = 0, !.lines = lines]
  OBVIOUS
<1>4. QuoteData(f) = g
  BY <1>1, <1>2, <1>3 DEF QuoteData
<1>5. /\ g.legs = <<leg>> /\ g.rate = f.rate /\ g.quote = f.quote /\ g.mode = f.mode
      /\ g.first = f.first /\ g.settled = 0 /\ g.lines = lines
  BY <1>3 DEF GoodQuote
<1>6. g \in GoodQuote
  BY <1>4, QuoteDataIsGood
<1>7. g.legs[1] = leg
  BY <1>5
<1>8. DOMAIN lines = DOMAIN f.lines
  BY <1>2
<1>9. Len(g.lines) = Len(f.lines)
  <2>1. /\ DOMAIN g.lines = 1..Len(g.lines) /\ Len(g.lines) \in Nat
        /\ DOMAIN f.lines = 1..Len(f.lines) /\ Len(f.lines) \in Nat
    BY <1>6, QuoteFields
  <2>2. QED BY <1>5, <1>8, <2>1
<1>10. \A i \in DOMAIN f.lines : lines[i] = KeptLine(f.lines[i])
  BY <1>2 DEF KeptLine
<1>11. leg.amount = f.legs[1].amount
  <2>1. PICK l : l = f.legs[1]
    OBVIOUS
  <2>2. l \in Legs
    BY <2>1, QuoteFields, GoodLeg
  <2>3. Kept(l).amount = l.amount
    BY <2>2 DEF Kept, Legs
  <2>4. QED BY <1>1, <2>1, <2>3
<1>12. Worth(g) = Worth(f)
  BY <1>5, <1>7, <1>11 DEF Worth
<1>13. QED BY <1>1, <1>4, <1>5, <1>6, <1>7, <1>8, <1>9, <1>10, <1>12

(* ... and of a form without one: its legs without their lists.            *)
LegsAreKept(f, g) ==
    \E legs : /\ g = [f EXCEPT !.legs = legs]
              /\ \A i \in DOMAIN f.legs : legs[i] = Kept(f.legs[i])

LEMMA LegsDataParts ==
  ASSUME kind \in Kinds, ~Quoted, NEW f \in GoodForm(kind)
  PROVE  LegsAreKept(f, Data(f))
<1>1. PICK legs : legs = [i \in DOMAIN f.legs |-> Kept(f.legs[i])]
  OBVIOUS
<1>2. \A i \in DOMAIN f.legs : legs[i] = Kept(f.legs[i])
  BY <1>1
<1>3. legs = LegsKept(f.legs)
  BY <1>1 DEF LegsKept
<1>4. PICK g : g = [f EXCEPT !.legs = legs]
  OBVIOUS
<1>5. LegsAreKept(f, g)
  BY <1>2, <1>4 DEF LegsAreKept
<1>6. CASE kind = "TRASPASO_DEUDA_CC"
  <2>1. Data(f) = f /\ f \in TraspasoForm
    BY <1>6, OfTraspaso
  <2>2. f.legs = <<>>
    BY <2>1 DEF TraspasoForm
  <2>3. DOMAIN f.legs = {}
    BY <2>2
  <2>4. f = [f EXCEPT !.legs = f.legs]
    BY OwnLegs
  <2>5. QED BY <2>1, <2>3, <2>4 DEF LegsAreKept
<1>7. CASE kind # "TRASPASO_DEUDA_CC"
  <2>1. Data(f) = g
    <3>1. CASE kind \in {"INGRESO_CAPITAL", "RETIRO_CAPITAL", "GASTO"}
      BY <1>3, <1>4, <3>1, OfCapital DEF IngresoData
    <3>2. CASE kind = "PAGO_CC_CRUZADO"
      BY <1>3, <1>4, <3>2, OfPago DEF PagoData
    <3>3. CASE kind = "TRANSFERENCIA_ENTRE_CUENTAS"
      BY <1>3, <1>4, <3>3, OfCuentas DEF CuentasData
    <3>4. CASE kind = "ARBITRAJE"
      BY <1>1, <1>4, <3>4, OfArbitraje DEF ArbitrajeData
    <3>5. QED BY <1>7, <3>1, <3>2, <3>3, <3>4, KindIs DEF Quoted
  <2>2. QED BY <1>5, <2>1
<1>8. QED BY <1>6, <1>7

(* The legs of a draft, whatever its form.                                 *)
LEMMA DataKeepsLegs ==
  ASSUME kind \in Kinds, NEW f \in GoodForm(kind)
  PROVE  \A i \in DOMAIN f.legs : Data(f).legs[i] = Kept(f.legs[i])
<1>1. CASE Quoted
  <2>1. f \in GoodQuote /\ Data(f) = QuoteData(f)
    BY <1>1, OfQuote DEF Quoted
  <2>2. DOMAIN f.legs = {1}
    BY <2>1 DEF GoodQuote
  <2>3. QED BY <2>1, <2>2, QuoteDataParts
<1>2. CASE ~Quoted
  <2>1. PICK legs : /\ Data(f) = [f EXCEPT !.legs = legs]
                    /\ \A i \in DOMAIN f.legs : legs[i] = Kept(f.legs[i])
    BY <1>2, LegsDataParts DEF LegsAreKept
  <2>2. Data(f).legs = legs
    BY <2>1, OtherLegs
  <2>3. QED BY <2>1, <2>2
<1>3. QED BY <1>1, <1>2

(* A leg at rest is kept with a format its account has.                    *)
LEMMA FittingTakes ==
  ASSUME NEW leg \in Legs, NEW currency, Fits(leg, currency), leg.list = leg.account
  PROVE  Takes(Kept(leg), currency)
<1>1. Kept(leg).account = leg.account /\ Kept(leg).format = leg.format
  BY KeptTwice
<1>2. QED BY <1>1 DEF Fits, Takes

LEMMA FittingLineTakes ==
  ASSUME NEW line \in Lines, NEW currency, Fits(line, currency), line.list = line.account
  PROVE  Takes(KeptLine(line), currency)
<1>1. PICK g : g = KeptLine(line)
  OBVIOUS
<1>2. g.account = line.account /\ g.format = line.format
  BY <1>1, KeptLineFields
<1>3. QED BY <1>1, <1>2 DEF Fits, Takes

\* No list to wait for, every account with its own, and no timer running.
Rests(f) ==
    /\ \A i \in DOMAIN f.legs : f.legs[i].list = f.legs[i].account
    /\ \A i \in DOMAIN f.lines : f.lines[i].list = f.lines[i].account
    /\ Quoted => f.settled = Worth(f)

LEMMA AtRestRests == AtRest => Rests(form)
BY DEF AtRest, Rests, LegsOf, LinesOf

(* A draft of a form at rest is one saved at rest.                         *)
LEMMA SavedIsAtRest ==
  ASSUME kind \in Kinds, NEW f, Consistent(f), FormFits(f), Rests(f)
  PROVE  SavedAtRest(kind, Data(f))
<1>1. f \in GoodForm(kind)
  BY DEF Consistent
<1>2. PICK d : d = Data(f)
  OBVIOUS
<1>3. d \in GoodForm(kind)
  BY <1>1, <1>2, FormsReached
<1>4. DOMAIN d.legs = DOMAIN f.legs
  BY <1>1, <1>3, SameLegs
<1>5. ASSUME NEW i \in DOMAIN f.legs
      PROVE  /\ d.legs[i] = Kept(d.legs[i])
             /\ d.legs[i].currency = f.legs[i].currency
             /\ kind # "RETIRO_CAPITAL" => Takes(d.legs[i], InCurrency(kind, f, i))
  <2>1. PICK leg, c : leg = f.legs[i] /\ c = InCurrency(kind, f, i)
    OBVIOUS
  <2>2. leg \in Legs /\ leg.list = leg.account
    BY <1>1, <1>5, <2>1, LegsAreIn DEF Rests
  <2>3. d.legs[i] = Kept(leg)
    BY <1>1, <1>2, <1>5, <2>1, DataKeepsLegs
  <2>4. kind # "RETIRO_CAPITAL" => Fits(leg, c)
    BY <1>5, <2>1 DEF FormFits, LegsFit, InCurrency
  <2>5. kind # "RETIRO_CAPITAL" => Takes(Kept(leg), c)
    BY <2>2, <2>4, FittingTakes
  <2>6. Kept(leg) = Kept(Kept(leg)) /\ Kept(leg).currency = leg.currency
    BY <2>2, KeptTwice
  <2>7. QED BY <2>1, <2>3, <2>5, <2>6
<1>6. ASSUME NEW i \in DOMAIN f.legs
      PROVE  InCurrency(kind, d, i) = InCurrency(kind, f, i)
  <2>1. CASE kind = "TRANSFERENCIA_ENTRE_CUENTAS"
    <3>1. f \in GoodCuentas
      BY <1>1, <2>1, OfCuentas
    <3>2. 1 \in DOMAIN f.legs
      BY <3>1 DEF GoodCuentas
    <3>3. d.legs[1].currency = f.legs[1].currency
      BY <1>5, <3>2
    <3>4. QED BY <2>1, <3>3 DEF InCurrency
  <2>2. CASE kind # "TRANSFERENCIA_ENTRE_CUENTAS"
    BY <1>5, <1>6, <2>2 DEF InCurrency
  <2>3. QED BY <2>1, <2>2
<1>7. ASSUME kind \in {"VENTA", "COMPRA"}
      PROVE  /\ \A i \in DOMAIN d.lines :
                   d.lines[i] = KeptLine(d.lines[i]) /\ Takes(d.lines[i], d.quote)
             /\ d.settled = 0
             /\ Len(d.lines) = 1 => /\ d.first = "AUTO" => d.lines[1].amount \in {0, Worth(d)}
                                    /\ d.lines[1].amount = 0 => d.first = "AUTO"
  <2>1. f \in GoodQuote /\ d = QuoteData(f) /\ Quoted
    BY <1>1, <1>2, <1>7, OfQuote
  <2>2. /\ d.quote = f.quote /\ d.first = f.first /\ d.settled = 0
        /\ Len(d.lines) = Len(f.lines) /\ DOMAIN d.lines = DOMAIN f.lines
        /\ \A i \in DOMAIN f.lines : d.lines[i] = KeptLine(f.lines[i])
        /\ Worth(d) = Worth(f)
    BY <2>1, QuoteDataParts
  <2>3. /\ \A i \in DOMAIN f.lines : f.lines[i] \in Lines
        /\ Len(f.lines) = 1 => 1 \in DOMAIN f.lines
    BY <2>1, QuoteFields, GoodLine
  <2>4. ASSUME NEW i \in DOMAIN f.lines
        PROVE  /\ d.lines[i] = KeptLine(d.lines[i]) /\ Takes(d.lines[i], d.quote)
               /\ d.lines[i].amount = f.lines[i].amount
    <3>1. PICK line, c : line = f.lines[i] /\ c = f.quote
      OBVIOUS
    <3>2. line \in Lines /\ line.list = line.account
      BY <2>3, <2>4, <3>1 DEF Rests
    <3>3. kind # "RETIRO_CAPITAL"
      BY <1>7
    <3>4. Fits(line, c)
      BY <2>1, <2>4, <3>1, <3>3 DEF FormFits
    <3>5. Takes(KeptLine(line), c) /\ KeptLine(KeptLine(line)) = KeptLine(line)
          /\ KeptLine(line).amount = line.amount
      BY <3>2, <3>4, FittingLineTakes, KeptLineTwice, KeptLineFields
    <3>6. d.lines[i] = KeptLine(line) /\ d.quote = c
      BY <2>2, <2>4, <3>1
    <3>7. QED BY <3>1, <3>5, <3>6
  <2>5. AutoLine(f) /\ EmptyIsAuto(f) /\ f.settled = Worth(f)
    BY <2>1 DEF Consistent, Rests
  <2>6. ASSUME Len(d.lines) = 1
        PROVE  /\ d.first = "AUTO" => d.lines[1].amount \in {0, Worth(d)}
               /\ d.lines[1].amount = 0 => d.first = "AUTO"
    <3>1. d.lines[1].amount = f.lines[1].amount
      BY <2>2, <2>3, <2>4, <2>6
    <3>2. QED BY <2>2, <2>5, <2>6, <3>1 DEF AutoLine, EmptyIsAuto
  <2>7. QED BY <2>2, <2>4, <2>6
<1>8. \A i \in DOMAIN d.legs : /\ d.legs[i] = Kept(d.legs[i])
                               /\ kind # "RETIRO_CAPITAL" => Takes(d.legs[i], InCurrency(kind, d, i))
  BY <1>4, <1>5, <1>6
<1>9. SavedAtRest(kind, d)
  BY <1>7, <1>8 DEF SavedAtRest, KeptLine
<1>10. QED BY <1>2, <1>9

(* Functions with the same values are one.                                 *)
LEMMA SameFunction ==
  ASSUME NEW S, NEW n \in Nat, NEW m \in Nat, NEW a \in [1..n -> S], NEW b \in [1..m -> S],
         DOMAIN a = DOMAIN b, \A i \in DOMAIN a : a[i] = b[i]
  PROVE  a = b
OBVIOUS

(* The legs of a form are back in its draft.                               *)
LEMMA LegsAreBack ==
  ASSUME kind \in Kinds, NEW f, Consistent(f), NEW d \in GoodForm(kind),
         SavedAtRest(kind, d), FormIsBack(f, d)
  PROVE  Data(f).legs = d.legs
<1>1. f \in GoodForm(kind)
  BY DEF Consistent
<1>2. PICK e : e = Data(f)
  OBVIOUS
<1>3. e \in GoodForm(kind)
  BY <1>1, <1>2, FormsReached
<1>4. DOMAIN e.legs = DOMAIN d.legs /\ DOMAIN f.legs = DOMAIN d.legs
  BY <1>1, <1>3, SameLegs
<1>5. PICK m \in Nat : e.legs \in [1..m -> GoodLegs]
  BY <1>3, LegsOfForm
<1>6. PICK n \in Nat : d.legs \in [1..n -> GoodLegs]
  BY LegsOfForm
<1>7. ASSUME NEW i \in DOMAIN e.legs
      PROVE  e.legs[i] = d.legs[i]
  <2>1. PICK leg, kept : leg = f.legs[i] /\ kept = d.legs[i]
    OBVIOUS
  <2>2. leg \in Legs /\ kept \in Legs
    BY <1>1, <1>4, <1>7, <2>1, LegsAreIn
  <2>3. LegIsBack(leg, kept)
    BY <1>4, <1>7, <2>1 DEF FormIsBack
  <2>4. kept = Kept(kept)
    BY <1>4, <1>7, <2>1 DEF SavedAtRest
  <2>5. e.legs[i] = Kept(leg)
    BY <1>1, <1>2, <1>4, <1>7, <2>1, DataKeepsLegs
  <2>6. Kept(leg) = kept
    BY <2>2, <2>3, <2>4, BackLegIsKept
  <2>7. QED BY <2>1, <2>5, <2>6
<1>8. e.legs = d.legs
  BY <1>4, <1>5, <1>6, <1>7, SameFunction
<1>9. QED BY <1>2, <1>8

LEMMA SameQuote ==
  ASSUME NEW f \in GoodQuote, NEW g \in GoodQuote,
         f.legs = g.legs, f.rate = g.rate, f.quote = g.quote, f.mode = g.mode,
         f.lines = g.lines, f.first = g.first, f.settled = g.settled
  PROVE  f = g
BY DEF GoodQuote

LEMMA SameSequence ==
  ASSUME NEW S, NEW a \in Seq(S), NEW b \in Seq(S), Len(a) = Len(b), \A i \in 1..Len(a) : a[i] = b[i]
  PROVE  a = b
OBVIOUS

LEMMA OwnAmount ==
  ASSUME NEW line \in Lines
  PROVE  [line EXCEPT !.amount = line.amount] = line
BY DEF Lines

(* What a form at rest shows of a draft saved at rest is that draft.       *)
LEMMA QuoteComesBack ==
  ASSUME kind \in {"VENTA", "COMPRA"}, kind \in Kinds, NEW f, Consistent(f), Rests(f),
         NEW d \in GoodForm(kind), SavedAtRest(kind, d), IsBack(f, d)
  PROVE  SameDraft(d, Data(f))
<1>1. /\ Quoted /\ f \in GoodForm(kind) /\ f \in GoodQuote /\ d \in GoodQuote
      /\ Data(f) = QuoteData(f)
  BY OfQuote DEF Consistent
<1>2. PICK e : e = QuoteData(f)
  OBVIOUS
<1>3. /\ e \in GoodQuote /\ e.rate = f.rate /\ e.quote = f.quote /\ e.mode = f.mode
      /\ e.first = f.first /\ e.settled = 0
      /\ Len(e.lines) = Len(f.lines) /\ DOMAIN e.lines = DOMAIN f.lines
      /\ \A i \in DOMAIN f.lines : e.lines[i] = KeptLine(f.lines[i])
      /\ Worth(e) = Worth(f)
  BY <1>1, <1>2, QuoteDataParts
<1>4. /\ f.rate = d.rate /\ f.quote = d.quote /\ f.mode = d.mode
      /\ f.first = d.first /\ Len(f.lines) = Len(d.lines)
      /\ \A i \in DOMAIN d.lines : LineIsBack(f.lines[i], d.lines[i])
      /\ FormIsBack(f, d) /\ AmountsAreBack(f, d)
  BY <1>1 DEF IsBack, FormIsBack
<1>5. e.legs = d.legs
  BY <1>1, <1>2, <1>4, LegsAreBack
<1>6. Worth(d) = Worth(f)
  BY <1>3, <1>4, <1>5 DEF Worth
<1>7. /\ DOMAIN d.lines = 1..Len(d.lines) /\ DOMAIN f.lines = DOMAIN d.lines
      /\ Len(d.lines) \in Nat \ {0} /\ 1 \in DOMAIN d.lines
      /\ \A i \in DOMAIN d.lines : f.lines[i] \in Lines /\ d.lines[i] \in Lines
      /\ e.lines \in Seq(GoodLines) /\ d.lines \in Seq(GoodLines)
      /\ Len(d.lines) \in 1..MaxLines
  BY <1>1, <1>3, <1>4, QuoteFields, GoodLine
<1>8. d.settled = 0 /\ \A i \in DOMAIN d.lines : d.lines[i] = KeptLine(d.lines[i])
  BY DEF SavedAtRest, KeptLine
<1>9. ASSUME NEW i \in DOMAIN d.lines
      PROVE  /\ e.lines[i] = [d.lines[i] EXCEPT !.amount = f.lines[i].amount]
             /\ f.lines[i].amount = d.lines[i].amount => e.lines[i] = d.lines[i]
  <2>1. PICK line, kept : line = f.lines[i] /\ kept = d.lines[i]
    OBVIOUS
  <2>2. line \in Lines /\ kept \in Lines /\ LineIsBack(line, kept) /\ kept = KeptLine(kept)
    BY <1>4, <1>7, <1>8, <1>9, <2>1
  <2>3. e.lines[i] = KeptLine(line)
    BY <1>3, <1>7, <1>9, <2>1
  <2>4. KeptLine(line) = [kept EXCEPT !.amount = line.amount]
    BY <2>2, BackLineIsKept
  <2>5. [kept EXCEPT !.amount = kept.amount] = kept
    BY <2>2, OwnAmount
  <2>6. QED BY <2>1, <2>3, <2>4, <2>5
<1>10. ASSUME \A i \in DOMAIN d.lines : f.lines[i].amount = d.lines[i].amount
       PROVE  d = e
  <2>1. \A i \in DOMAIN d.lines : e.lines[i] = d.lines[i]
    BY <1>9, <1>10
  <2>2. Len(e.lines) = Len(d.lines) /\ 1..Len(e.lines) = DOMAIN d.lines
    BY <1>3, <1>4, <1>7
  <2>3. e.lines = d.lines
    BY <1>7, <2>1, <2>2, SameSequence
  <2>4. QED BY <1>1, <1>3, <1>4, <1>5, <1>8, <2>3, SameQuote
<1>11. CASE ~FillsIn(d)
  BY <1>1, <1>2, <1>4, <1>10, <1>11 DEF AmountsAreBack, SameDraft
<1>12. CASE FillsIn(d)
  <2>1. Len(d.lines) = 1 /\ d.first = "AUTO" /\ DOMAIN d.lines = {1}
    BY <1>7, <1>12 DEF FillsIn
  <2>2. d.lines[1].amount \in {0, Worth(d)}
    BY <2>1 DEF SavedAtRest
  <2>3. f.lines[1].amount = Worth(d)
    BY <1>1, <1>4, <1>6, <1>12 DEF AmountsAreBack, Rests
  <2>4. CASE d.lines[1].amount = Worth(d)
    <3>1. d = e
      BY <1>10, <2>1, <2>3, <2>4
    <3>2. QED BY <1>1, <1>2, <3>1 DEF SameDraft
  <2>5. CASE d.lines[1].amount = 0
    <3>1. PICK line : line = e.lines[1]
      OBVIOUS
    <3>2. line \in GoodLines /\ line.amount = f.lines[1].amount
      <4>1. line \in GoodLines
        BY <1>3, <1>7, <3>1, QuoteFields
      <4>2. KeptLine(f.lines[1]).amount = f.lines[1].amount
        BY <1>7, KeptLineFields
      <4>3. QED BY <1>3, <1>7, <3>1, <4>1, <4>2
    <3>3. line = [d.lines[1] EXCEPT !.amount = line.amount]
      BY <1>7, <1>9, <3>1, <3>2
    <3>4. PICK lines : lines = [d.lines EXCEPT ![1] = line]
      OBVIOUS
    <3>5. lines \in Seq(GoodLines) /\ Len(lines) = 1 /\ lines[1] = line
      BY <1>7, <2>1, <3>2, <3>4
    <3>6. e.lines = lines
      <4>1. Len(e.lines) = Len(lines) /\ \A i \in 1..Len(e.lines) : e.lines[i] = lines[i]
        BY <1>3, <1>4, <2>1, <3>1, <3>5
      <4>2. QED BY <1>7, <3>5, <4>1, SameSequence
    <3>7. PICK h : h = [d EXCEPT !.lines = lines]
      OBVIOUS
    <3>8. h \in GoodQuote
      BY <1>1, <1>7, <2>1, <3>5, <3>7, QuoteChanged
    <3>9. /\ h.legs = d.legs /\ h.rate = d.rate /\ h.quote = d.quote /\ h.mode = d.mode
          /\ h.lines = lines /\ h.first = d.first /\ h.settled = d.settled
      BY <1>1, <3>7 DEF GoodQuote
    <3>10. e = h
      BY <1>3, <1>4, <1>5, <1>8, <3>6, <3>8, <3>9, SameQuote
    <3>11. h = [d EXCEPT !.lines[1].amount = line.amount]
      <4>1. lines = [d.lines EXCEPT ![1] = [d.lines[1] EXCEPT !.amount = line.amount]]
        BY <3>3, <3>4
      <4>2. QED BY <3>7, <4>1
    <3>12. e = [d EXCEPT !.lines[1].amount = e.lines[1].amount]
      BY <3>1, <3>10, <3>11
    <3>13. QED BY <1>1, <1>2, <2>1, <2>5, <3>12 DEF SameDraft
  <2>6. QED BY <2>2, <2>4, <2>5
<1>13. QED BY <1>11, <1>12

LEMMA FormComesBack ==
  ASSUME kind \in Kinds, kind # "ARBITRAJE", NEW f, Consistent(f), Rests(f),
         NEW d \in GoodForm(kind), SavedAtRest(kind, d), IsBack(f, d)
  PROVE  SameDraft(d, Data(f))
<1>1. CASE Quoted
  BY <1>1, QuoteComesBack DEF Quoted
<1>2. CASE ~Quoted
  <2>1. f \in GoodForm(kind) /\ FormIsBack(f, d)
    BY DEF Consistent, IsBack
  <2>2. PICK legs : Data(f) = [f EXCEPT !.legs = legs]
    BY <1>2, <2>1, LegsDataParts DEF LegsAreKept
  <2>3. Data(f).legs = legs
    BY <2>1, <2>2, OtherLegs
  <2>4. legs = d.legs
    BY <2>1, <2>3, LegsAreBack
  <2>5. Data(f) = d
    BY <1>2, <2>1, <2>2, <2>4 DEF FormIsBack
  <2>6. QED BY <2>5 DEF SameDraft
<1>3. QED BY <1>1, <1>2

(* The drafts of the nine forms, and what they show of the one loaded.     *)
LEMMA NoDataIsRested == NoData \in RestedForms
BY DraftsAre DEF RestedForms

LEMMA ReturnInitInv == FormsInit => ReturnInv
<1>1. SUFFICES ASSUME FormsInit, ~IsTransfer PROVE ReturnInv
  BY DEF ReturnInv
<1>2. OperationInit
  BY <1>1 DEF FormsInit
<1>3. /\ kind \in Kinds /\ form = Blank /\ saving = NoData /\ loaded = NoData
      /\ server.draft \in {NoData} \cup {Saved(d, SavedAtRest(kind, d)) : d \in Stored[kind]}
  BY <1>2 DEF OperationInit
<1>4. ASSUME NEW d \in Stored[kind]
      PROVE  Saved(d, SavedAtRest(kind, d)) \in RestedForms
  <2>1. \A k \in Kinds : \A e \in Stored[k] : e \in FormOf(k) /\ Ticked(e)
    BY OperationFormsAssumption, Zenon
  <2>2. d \in FormOf(kind) /\ Ticked(d)
    BY <1>3, <1>4, <2>1, Zenon
  <2>3. d \in GoodForm(kind)
    BY <1>3, <2>2, GoodForms
  <2>4. PICK rest \in BOOLEAN : rest = SavedAtRest(kind, d)
    <3>1. SavedAtRest(kind, d) \in BOOLEAN
      BY DEF SavedAtRest
    <3>2. QED BY <3>1
  <2>5. PICK s : s = Saved(d, rest)
    OBVIOUS
  <2>6. s.data = d /\ s.rest = rest /\ s \in Drafts
    BY <2>3, <2>4, <2>5, DraftsAre DEF Saved
  <2>7. s \in RestedForms
    BY <2>4, <2>6 DEF RestedForms
  <2>8. QED BY <2>4, <2>5, <2>7
<1>5. server.draft \in RestedForms
  BY <1>3, <1>4, NoDataIsRested
<1>6. QED BY <1>3, <1>5, NoDataIsRested DEF ReturnInv

LEMMA ReturnStepInv == FormsInv /\ ReturnInv /\ [FormsNext]_formsVars => ReturnInv'
<1> SUFFICES ASSUME FormsInv, ReturnInv, [FormsNext]_formsVars, ~IsTransfer' PROVE ReturnInv'
  BY DEF ReturnInv
<1>1. /\ kind' = kind
      /\ OperationNext \/ UNCHANGED formsVars
  <2>1. CASE UNCHANGED formsVars
    BY <2>1 DEF formsVars, operationVars
  <2>2. CASE ~IsTransfer /\ OperationNext
    <3>1. kind' = kind
      BY <2>2 DEF OperationNext, Edit, Clear, Settle, Reopen, SaveDraft, Submit, Answers,
                  AnswerLists, AnswerList, AnswerLineList, AnswerLoad, AnswerSave, AnswerSubmit
    <3>2. QED BY <2>2, <3>1
  <2>3. CASE IsTransfer /\ UNCHANGED kind
    BY <2>3 DEF IsTransfer
  <2>4. QED BY <2>1, <2>2, <2>3 DEF FormsNext
<1>2. ~IsTransfer
  BY <1>1 DEF IsTransfer
<1>3. /\ kind \in Kinds /\ Consistent(form) /\ FormFits(form)
      /\ server \in [status : {"BORRADOR", "CONFIRMADA"}, draft : Drafts]
  BY <1>2 DEF FormsInv
<1>4. /\ saving \in RestedForms /\ server.draft \in RestedForms /\ loaded \in RestedForms
      /\ ~touched /\ load # "none" => form = Blank
      /\ loaded # NoData => load = "none"
      /\ loaded # NoData /\ loaded.rest /\ ~touched /\ kind # "ARBITRAJE" =>
            IsBack(form, loaded.data)
  BY <1>2 DEF ReturnInv
<1>5. RestedForms' = RestedForms /\ Blank' = Blank
  BY <1>1 DEF RestedForms, Drafts, Blank
<1>6. IsBack(form, loaded.data)' <=> IsBack(form', loaded'.data)
  BY <1>1 DEF IsBack, FormIsBack, AmountsAreBack, Quoted
<1>7. ASSUME saving' \in RestedForms, server'.draft \in RestedForms, loaded' \in RestedForms,
             ~touched' /\ load' # "none" => form' = Blank,
             loaded' # NoData => load' = "none",
             loaded' # NoData /\ loaded'.rest /\ ~touched' /\ kind # "ARBITRAJE" =>
                IsBack(form', loaded'.data)
      PROVE  ReturnInv'
  BY <1>1, <1>5, <1>6, <1>7 DEF ReturnInv
<1>8. ASSUME loaded' = NoData, saving' = saving, server' = server, ~touched' => form' = Blank
      PROVE  ReturnInv'
  BY <1>4, <1>7, <1>8, NoDataIsRested
<1>9. ASSUME loaded' = loaded, load' = load, form' = form, touched' = touched,
             saving' \in RestedForms, server'.draft \in RestedForms
      PROVE  ReturnInv'
  BY <1>4, <1>7, <1>9
<1>10. /\ form \in GoodForm(kind)
       /\ \A s \in RestedForms : /\ s # NoData => s.data \in GoodForm(kind)
                                 /\ s # NoData /\ s.rest => SavedAtRest(kind, s.data)
  BY <1>3, DraftsAre DEF Consistent, RestedForms
<1>11. ASSUME loaded' = loaded, load' = load, touched' = touched, saving' = saving,
              server' = server, ~touched => load = "none", NEW g, Render(g),
              ASSUME NEW d \in GoodForm(kind), kind # "ARBITRAJE", SavedAtRest(kind, d), IsBack(form, d)
              PROVE  IsBack(Rendered(form, g), d)
       PROVE  ReturnInv'
  <2>1. form' = Rendered(form, g)
    BY <1>11 DEF Render
  <2>2. ASSUME loaded # NoData, loaded.rest, ~touched, kind # "ARBITRAJE"
        PROVE  IsBack(form', loaded.data)
    <3>1. PICK d : d = loaded.data
      OBVIOUS
    <3>2. d \in GoodForm(kind) /\ SavedAtRest(kind, d) /\ IsBack(form, d)
      BY <1>4, <1>10, <2>2, <3>1
    <3>3. IsBack(Rendered(form, g), d)
      BY <1>11, <2>2, <3>2
    <3>4. QED BY <2>1, <3>1, <3>3
  <2>3. QED BY <1>4, <1>7, <1>11, <2>2
<1>12. /\ \A i \in DOMAIN Blank.legs : Blank.legs[i].asked = {}
       /\ \A i \in DOMAIN Blank.lines : Blank.lines[i].asked = {}
       /\ Quoted => Worth(Blank) = Blank.settled
  <2>1. EmptyLeg.asked = {}
    BY DEF EmptyLeg
  <2>2. QED BY <1>3, <2>1, BlankIsEmpty
<1>13. CASE UNCHANGED formsVars
  <2>1. /\ load' = load /\ form' = form /\ saving' = saving /\ server' = server
        /\ loaded' = loaded /\ touched' = touched
    BY <1>13 DEF formsVars, operationVars
  <2>2. QED BY <1>4, <1>9, <2>1
<1>14. CASE Edit \/ Clear
  <2>1. loaded' = NoData /\ touched' = TRUE /\ saving' = saving /\ server' = server
    BY <1>14 DEF Edit, Clear
  <2>2. QED BY <1>8, <2>1
<1>15. CASE Reopen
  <2>1. loaded' = NoData /\ form' = Blank /\ saving' = saving /\ server' = server
    BY <1>15 DEF Reopen
  <2>2. QED BY <1>8, <2>1
<1>16. CASE Settle
  <2>1. /\ Quoted /\ form.settled # Worth(form) /\ loaded' = loaded /\ load' = load
        /\ touched' = touched /\ saving' = saving /\ server' = server /\ Render(Settling(form))
    BY <1>16 DEF Settle
  <2>2. ~touched => load = "none"
    BY <1>4, <1>12, <2>1
  <2>3. ASSUME NEW d \in GoodForm(kind), kind # "ARBITRAJE", SavedAtRest(kind, d), IsBack(form, d)
        PROVE  IsBack(Rendered(form, Settling(form)), d)
    BY <1>3, <2>1, <2>3, SettledIsBack
  <2>4. QED BY <1>11, <2>1, <2>2, <2>3
<1>17. CASE SaveDraft
  <2>1. /\ load' = load /\ form' = form /\ server' = server /\ loaded' = loaded
        /\ touched' = touched /\ saving' = Saved(Data(form), AtRest)
    BY <1>17 DEF SaveDraft
  <2>2. PICK f, d, rest : f = form /\ d = Data(form) /\ rest = AtRest
    OBVIOUS
  <2>3. rest \in BOOLEAN /\ (rest => Rests(f))
    <3>1. AtRest \in BOOLEAN
      BY DEF AtRest
    <3>2. QED BY <2>2, <3>1, AtRestRests
  <2>4. d \in GoodForm(kind) /\ (rest => SavedAtRest(kind, d))
    BY <1>3, <1>10, <2>2, <2>3, SavedIsAtRest, FormsReached
  <2>5. PICK s : s = Saved(d, rest)
    OBVIOUS
  <2>6. s.data = d /\ (s.rest <=> rest)
    BY <2>5 DEF Saved
  <2>7. s \in RestedForms
    BY <2>3, <2>4, <2>5, <2>6, DraftsAre DEF RestedForms
  <2>8. QED BY <1>4, <1>9, <2>1, <2>2, <2>5, <2>7
<1>18. CASE Submit
  <2>1. /\ load' = load /\ form' = form /\ saving' = saving /\ server' = server
        /\ loaded' = loaded /\ touched' = touched
    BY <1>18 DEF Submit
  <2>2. QED BY <1>4, <1>9, <2>1
<1>19. CASE AnswerLists
  <2>1. PICK a \in Accounts, ok \in BOOLEAN :
           \/ \E i \in DOMAIN form.legs : AnswerList(i, a, ok)
           \/ \E i \in DOMAIN form.lines : AnswerLineList(i, a, ok)
    BY <1>19 DEF AnswerLists
  <2>2. CASE \E i \in DOMAIN form.legs : AnswerList(i, a, ok)
    <3>1. PICK i \in DOMAIN form.legs : AnswerList(i, a, ok)
      BY <2>2
    <3>2. PICK g : g = [form EXCEPT !.legs[i] = ListAnswered(form.legs[i], a, ok)]
      OBVIOUS
    <3>3. /\ a \in form.legs[i].asked /\ loaded' = loaded /\ load' = load /\ touched' = touched
          /\ saving' = saving /\ server' = server /\ Render(g)
      BY <3>1, <3>2 DEF AnswerList
    <3>4. ~touched => load = "none"
      BY <1>4, <1>12, <3>3
    <3>5. ASSUME NEW d \in GoodForm(kind), kind # "ARBITRAJE", SavedAtRest(kind, d), IsBack(form, d)
          PROVE  IsBack(Rendered(form, g), d)
      BY <1>3, <3>2, <3>3, <3>5, LegListIsBack
    <3>6. QED BY <1>11, <3>3, <3>4, <3>5
  <2>3. CASE \E i \in DOMAIN form.lines : AnswerLineList(i, a, ok)
    <3>1. PICK i \in DOMAIN form.lines : AnswerLineList(i, a, ok)
      BY <2>3
    <3>2. PICK g : g = [form EXCEPT !.lines[i] = LineListAnswered(form.lines[i], a, ok)]
      OBVIOUS
    <3>3. /\ a \in form.lines[i].asked /\ loaded' = loaded /\ load' = load /\ touched' = touched
          /\ saving' = saving /\ server' = server /\ Render(g)
      BY <3>1, <3>2 DEF AnswerLineList
    <3>4. ~touched => load = "none"
      BY <1>4, <1>12, <3>3
    <3>5. ASSUME NEW d \in GoodForm(kind), kind # "ARBITRAJE", SavedAtRest(kind, d), IsBack(form, d)
          PROVE  IsBack(Rendered(form, g), d)
      BY <1>3, <3>2, <3>3, <3>5, LineListIsBack
    <3>6. QED BY <1>11, <3>3, <3>4, <3>5
  <2>4. QED BY <2>1, <2>2, <2>3
<1>20. CASE \E ok \in BOOLEAN : AnswerLoad(ok)
  <2>1. PICK ok \in BOOLEAN : AnswerLoad(ok)
    BY <1>20
  <2>2. /\ load # "none" /\ saving' = saving /\ server' = server /\ touched' = touched
        /\ (LoadDraft /\ server.draft # NoData) \/ LoadFails
    BY <2>1 DEF AnswerLoad
  <2>3. CASE LoadDraft /\ server.draft # NoData
    <3>1. PICK s, d : s = server.draft /\ d = s.data
      OBVIOUS
    <3>2. load' = "none" /\ loaded' = s /\ form' = Rendered(form, Restored(form, d))
      BY <2>3, <3>1 DEF LoadDraft, Render
    <3>3. d \in GoodForm(kind) /\ (s.rest => SavedAtRest(kind, d)) /\ s \in RestedForms
      BY <1>4, <1>10, <2>3, <3>1
    <3>4. ASSUME s.rest, ~touched, kind # "ARBITRAJE"
          PROVE  IsBack(form', d)
      <4>1. PICK blank : blank = Blank
        OBVIOUS
      <4>2. form = blank
        BY <1>4, <2>2, <3>4, <4>1
      <4>3. IsBack(Rendered(blank, Restored(blank, d)), d)
        BY <1>3, <3>3, <3>4, <4>1, LoadedIsBack
      <4>4. QED BY <3>2, <4>2, <4>3
    <3>5. QED BY <1>4, <1>7, <2>2, <3>1, <3>2, <3>3, <3>4
  <2>4. CASE LoadFails
    <3>1. loaded' = loaded /\ loaded = NoData
      BY <1>4, <2>2, <2>4 DEF LoadFails
    <3>2. load' = "none" \/ form' = form
      BY <2>4 DEF LoadFails
    <3>3. ~touched' /\ load' # "none" => form' = Blank
      BY <1>4, <2>2, <3>2
    <3>4. QED BY <1>4, <1>7, <2>2, <3>1, <3>3
  <2>5. QED BY <2>2, <2>3, <2>4
<1>21. CASE \E ok \in BOOLEAN : AnswerSave(ok)
  <2>1. PICK ok \in BOOLEAN : AnswerSave(ok)
    BY <1>21
  <2>2. /\ saving' = NoData /\ form' = form /\ load' = load /\ loaded' = loaded
        /\ touched' = touched
        /\ server' = server \/ server' = [server EXCEPT !.draft = saving]
    BY <2>1 DEF AnswerSave
  <2>3. server'.draft \in RestedForms
    BY <1>3, <1>4, <2>2
  <2>4. QED BY <1>9, <2>2, <2>3, NoDataIsRested
<1>22. CASE \E ok \in BOOLEAN : AnswerSubmit(ok)
  <2>1. PICK ok \in BOOLEAN : AnswerSubmit(ok)
    BY <1>22
  <2>2. /\ form' = form /\ load' = load /\ saving' = saving /\ loaded' = loaded
        /\ touched' = touched
        /\ server' = server \/ server' = [server EXCEPT !.status = "CONFIRMADA"]
    BY <2>1 DEF AnswerSubmit
  <2>3. server'.draft \in RestedForms
    BY <1>3, <1>4, <2>2
  <2>4. QED BY <1>4, <1>9, <2>2, <2>3
<1>23. QED BY <1>1, <1>13, <1>14, <1>15, <1>16, <1>17, <1>18, <1>19, <1>20, <1>21, <1>22
           DEF OperationNext, Answers

LEMMA NineDraftsComeBack == FormsSpec => [](~IsTransfer => DraftComesBack)
<1>1. FormsInv /\ ReturnInv => (~IsTransfer => DraftComesBack)
  <2>1. SUFFICES ASSUME FormsInv, ReturnInv, ~IsTransfer, loaded # NoData, loaded.rest,
                        ~touched, AtRest, kind # "ARBITRAJE"
                 PROVE  SameDraft(loaded.data, Data(form))
    BY DEF DraftComesBack
  <2>2. PICK f, d : f = form /\ d = loaded.data
    OBVIOUS
  <2>3. kind \in Kinds /\ Consistent(f)
    BY <2>1, <2>2 DEF FormsInv
  <2>4. /\ loaded \in Drafts /\ SavedAtRest(kind, d) /\ IsBack(f, d)
    BY <2>1, <2>2 DEF ReturnInv, RestedForms
  <2>5. d \in GoodForm(kind)
    BY <2>1, <2>2, <2>4, DraftsAre
  <2>6. Rests(f)
    BY <2>1, <2>2, AtRestRests
  <2>7. SameDraft(d, Data(f))
    BY <2>1, <2>3, <2>4, <2>5, <2>6, FormComesBack
  <2>8. QED BY <2>2, <2>7
<1>2. FormsSpec => []ReturnInv
  BY ReturnInitInv, ReturnStepInv, FormsKeepTheirInvariant, PTL DEF FormsSpec
<1>3. QED BY <1>1, <1>2, FormsKeepTheirInvariant, PTL
=============================================================================
