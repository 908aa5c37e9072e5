------------------------------- MODULE Access -------------------------------
(***************************************************************************)
(* The row of a user and the settings about access: AuthService,           *)
(* UserService, UserRepo and SettingsService.                              *)
(*                                                                         *)
(* No handler here uses a transaction: each reads the row, and then writes *)
(* with one or two statements that name the user alone.  Other requests    *)
(* may write in between.  What a handler only checks before it writes, and *)
(* no column depends on, is read in the same step.                         *)
(*                                                                         *)
(* A password is right or wrong, a PIN is there or not.  The count of      *)
(* failed attempts stops at MaxFailed, since it is only compared with it.  *)
(* Time is what is left of a lock.                                         *)
(***************************************************************************)
EXTENDS Integers, Functions

CONSTANTS
    Users,        \* identities of users
    Requests,     \* requests the server handles at the same time
    MaxFailed,    \* maxFailedAttempts
    LockDuration, \* lockDuration
    PinLimits,    \* numbers a PIN may be limited to, in halves of a digit
    KeysChanged   \* bound: the settings an instance changes, by key

\* What auth_service.go fixes, the attempts and the time of a lock, is positive, and
\* only these settings matter.
ASSUME ParametersFit ==
    /\ MaxFailed \in Nat \ {0}
    /\ LockDuration \in Nat \ {0}
    /\ PinLimits \subseteq Nat
    /\ KeysChanged \subseteq {"pin", "min", "max"}

VARIABLES
    role,     \* users.role, "NONE" before the row exists
    pin,      \* users.pin_hash is not null
    active,   \* users.active
    attempts, \* users.failed_login_attempts
    locked,   \* users.locked_until: time left, 0 when it is past, or NoLock
    settings, \* system_settings about access
    request,  \* what each request in flight has read
    apart     \* history: no two requests overlapped and no statement failed

vars == <<role, pin, active, attempts, locked, settings, request, apart>>

Roles == {"SUPERADMIN", "SUBADMIN", "COURIER"}
Editors == {"SUPERADMIN", "SUBADMIN"}

\* A limit is stored as it was sent: a length, a fraction of one (an odd number of
\* halves), or no number at all.  The least and the most are SettingsDefaults.
NotANumber == -1
Least == 2 * 4
Most  == 2 * 8
Limits == PinLimits \cup {Least, Most, NotANumber}

\* pin_enabled_for_courier, pin_min_length and pin_max_length; the settings of
\* the lock-out are stored and read by nothing.
Settings == [pin : BOOLEAN, min : Limits, max : Limits]
\* What one request sends.
Changes == {Restrict(s, keys) : s \in Settings, keys \in SUBSET KeysChanged}

NoLock == -1
Idle == [op |-> "IDLE"]

TypeOK ==
    /\ role \in [Users -> Roles \cup {"NONE"}]
    /\ pin \in [Users -> BOOLEAN]
    /\ active \in [Users -> BOOLEAN]
    /\ attempts \in [Users -> 0 .. MaxFailed]
    /\ locked \in [Users -> NoLock .. LockDuration]
    /\ settings \in Settings
    /\ \A r \in Requests : request[r] \in
          {Idle}
          \cup [op : {"COMPARE"}, user : Users, seen : 0 .. MaxFailed]
          \cup [op : {"LOCK", "PASSWORD", "CHANGE_PIN"}, user : Users]
          \cup [op : {"UPDATE"}, user : Users, role : Roles, pin : {"SET", "CLEAR", "KEEP"}]
          \cup [op : {"TOGGLE"}, user : Users, active : BOOLEAN]
          \cup [op : {"SETTINGS"}, new : Changes]
    /\ apart \in BOOLEAN

Init ==
    /\ role = [u \in Users |-> "NONE"]
    /\ pin = [u \in Users |-> FALSE]
    /\ active = [u \in Users |-> TRUE]
    /\ attempts = [u \in Users |-> 0]
    /\ locked = [u \in Users |-> NoLock]
    /\ settings \in [pin : BOOLEAN, min : {Least}, max : {Most}]
    /\ request = [r \in Requests |-> Idle]
    /\ apart = TRUE

Exists(u) == role[u] # "NONE"

Becomes(r, q) == request' = [request EXCEPT ![r] = q]

Quiet == \A r \in Requests : request[r] = Idle

Read(r, q) ==
    /\ request[r] = Idle
    /\ Becomes(r, q)
    /\ apart' = (apart /\ Quiet)
    /\ UNCHANGED <<role, pin, active, attempts, locked, settings>>

\* A statement whose error is ignored: its writes, or nothing.
Attempted(writes, nothing) ==
    \/ writes /\ apart' = apart
    \/ nothing /\ apart' = FALSE

-----------------------------------------------------------------------------
(* Login                                                                   *)

\* Mutant of MayTry: the lock is not looked at.
MayTryLocked(u) == active[u]

MayTry(u) == active[u] /\ locked[u] <= 0

\* LoginWithPassword, and LoginWithPIN for a courier with a PIN, up to the
\* comparison of the secret.
Login(r, u, byPin) ==
    /\ Exists(u)
    /\ byPin => role[u] = "COURIER" /\ pin[u]
    /\ MayTry(u)
    /\ Read(r, [op |-> "COMPARE", user |-> u, seen |-> attempts[u]])

Counted(n) == IF n = MaxFailed THEN n ELSE n + 1

\* Mutant of Locks: the attempt itself is not counted.
LocksOneLate(seen) == seen >= MaxFailed

Locks(seen) == seen + 1 >= MaxFailed

\* handleFailedAttempt: the count is raised in the row, and the lock follows
\* from the count the handler had read.
WrongSecret(r) ==
    LET q == request[r]
    IN /\ q.op = "COMPARE"
       /\ Attempted(attempts' = [attempts EXCEPT ![q.user] = Counted(@)], UNCHANGED attempts)
       /\ Becomes(r, IF Locks(q.seen) THEN [op |-> "LOCK", user |-> q.user] ELSE Idle)
       /\ UNCHANGED <<role, pin, active, locked, settings>>

LockUser(r) ==
    LET q == request[r]
    IN /\ q.op = "LOCK"
       /\ Attempted(locked' = [locked EXCEPT ![q.user] = LockDuration], UNCHANGED locked)
       /\ Becomes(r, Idle)
       /\ UNCHANGED <<role, pin, active, attempts, settings>>

Cleared(u) ==
    /\ attempts' = [attempts EXCEPT ![u] = 0]
    /\ locked' = [locked EXCEPT ![u] = NoLock]

RightSecret(r) ==
    LET q == request[r]
    IN /\ q.op = "COMPARE"
       /\ Attempted(Cleared(q.user), UNCHANGED <<attempts, locked>>)
       /\ Becomes(r, Idle)
       /\ UNCHANGED <<role, pin, active, settings>>

-----------------------------------------------------------------------------
(* Administration of users                                                 *)

\* Only a SUPERADMIN edits a SUPERADMIN or makes one.
MayEdit(caller, old, new) == caller = "SUBADMIN" => "SUPERADMIN" \notin {old, new}

IsNumber(limit) == limit # NotANumber

\* What is read of a limit that is no length: nothing, and the default stands.
LengthOr(default, limit) == IF IsNumber(limit) /\ limit % 2 = 0 THEN limit ELSE default

\* A PIN that is given has a length between the limits (validatePin).
SomePinFits == LengthOr(Least, settings.min) <= LengthOr(Most, settings.max)

\* Create stores a hash for every courier, of the PIN it was given or of none
\* while PINs are disabled.
Create(u, caller, newRole, hasPin) ==
    /\ role[u] = "NONE"
    /\ MayEdit(caller, "NONE", newRole)
    /\ newRole = "COURIER" /\ settings.pin => hasPin
    /\ newRole = "COURIER" /\ hasPin => SomePinFits
    /\ role' = [role EXCEPT ![u] = newRole]
    /\ pin' = [pin EXCEPT ![u] = newRole = "COURIER"]
    /\ UNCHANGED <<active, attempts, locked, settings, request, apart>>

\* Mutant of PinColumn: the PIN of a courier outlives the role.
PinColumnKept(old, new, hasPin) == IF new = "COURIER" /\ hasPin THEN "SET" ELSE "KEEP"

\* Which of the updates of UserRepo is chosen, as to the PIN.
PinColumn(old, new, hasPin) ==
    CASE new = "COURIER" /\ hasPin -> "SET"
      [] old = "COURIER" /\ new # "COURIER" -> "CLEAR"
      [] OTHER -> "KEEP"

ReadForUpdate(r, u, caller, newRole, hasPin) ==
    /\ Exists(u)
    /\ MayEdit(caller, role[u], newRole)
    /\ newRole = "COURIER" /\ hasPin => SomePinFits
    /\ Read(r, [op |-> "UPDATE", user |-> u, role |-> newRole,
                pin |-> PinColumn(role[u], newRole, hasPin)])

\* A password given with the update is stored too, but clears no attempt.
Update(r) ==
    LET q == request[r]
    IN /\ q.op = "UPDATE"
       /\ role' = [role EXCEPT ![q.user] = q.role]
       /\ pin' = [pin EXCEPT ![q.user] = CASE q.pin = "SET" -> TRUE
                                           [] q.pin = "CLEAR" -> FALSE
                                           [] q.pin = "KEEP" -> @]
       /\ Becomes(r, Idle)
       /\ UNCHANGED <<active, attempts, locked, settings, apart>>

\* ResetPassword, of another user, and ChangeOwnPassword end in one statement.
ReadForPassword(r, u, caller) ==
    /\ Exists(u)
    /\ MayEdit(caller, role[u], role[u])
    /\ Read(r, [op |-> "PASSWORD", user |-> u])

UpdatePassword(r) ==
    LET q == request[r]
    IN /\ q.op = "PASSWORD"
       /\ Cleared(q.user)
       /\ Becomes(r, Idle)
       /\ UNCHANGED <<role, pin, active, settings, apart>>

ReadForPin(r, u) ==
    /\ role[u] = "COURIER"
    /\ settings.pin
    /\ SomePinFits
    /\ pin[u]
    /\ Read(r, [op |-> "CHANGE_PIN", user |-> u])

ChangeOwnPin(r) ==
    LET q == request[r]
    IN /\ q.op = "CHANGE_PIN"
       /\ pin' = [pin EXCEPT ![q.user] = TRUE]
       /\ Becomes(r, Idle)
       /\ UNCHANGED <<role, active, attempts, locked, settings, apart>>

ReadForToggle(r, u, on) ==
    /\ Exists(u)
    /\ ~on => role[u] # "SUPERADMIN"
    /\ Read(r, [op |-> "TOGGLE", user |-> u, active |-> on])

ToggleUserActive(r) ==
    LET q == request[r]
    IN /\ q.op = "TOGGLE"
       /\ active' = [active EXCEPT ![q.user] = q.active]
       /\ Becomes(r, Idle)
       /\ UNCHANGED <<role, pin, attempts, locked, settings, apart>>

-----------------------------------------------------------------------------
(* Settings                                                                *)

\* The stored settings with the new ones over them.
Merged(new) == [key \in DOMAIN settings |-> IF key \in DOMAIN new THEN new[key] ELSE settings[key]]

\* What validateSettings asks of them: nothing of one that is no number.
Valid(merged) ==
    /\ IsNumber(merged.min) => merged.min >= Least
    /\ IsNumber(merged.max) => merged.max <= Most
    /\ IsNumber(merged.min) /\ IsNumber(merged.max) => merged.min <= merged.max

ReadForSettings(r, new) ==
    /\ Valid(Merged(new))
    /\ Read(r, [op |-> "SETTINGS", new |-> new])

\* UpsertMany writes the keys that were sent, in one transaction.
UpsertMany(r) ==
    LET q == request[r]
    IN /\ q.op = "SETTINGS"
       /\ settings' = Merged(q.new)
       /\ Becomes(r, Idle)
       /\ UNCHANGED <<role, pin, active, attempts, locked, apart>>

-----------------------------------------------------------------------------
\* Any request that has written nothing may end in an error; one that was
\* about to lock may lose its connection.
GiveUp(r) ==
    /\ request[r] # Idle
    /\ Becomes(r, Idle)
    /\ apart' = (apart /\ request[r].op # "LOCK")
    /\ UNCHANGED <<role, pin, active, attempts, locked, settings>>

Tick ==
    /\ \E u \in Users : locked[u] > 0
    /\ locked' = [u \in Users |-> IF locked[u] > 0 THEN locked[u] - 1 ELSE locked[u]]
    /\ UNCHANGED <<role, pin, active, attempts, settings, request, apart>>

Next ==
    \/ \E u \in Users, caller \in Editors, newRole \in Roles, hasPin \in BOOLEAN :
          \/ Create(u, caller, newRole, hasPin)
          \/ \E r \in Requests : ReadForUpdate(r, u, caller, newRole, hasPin)
    \/ \E r \in Requests, u \in Users :
          \/ \E byPin \in BOOLEAN : Login(r, u, byPin)
          \/ \E caller \in Editors : ReadForPassword(r, u, caller)
          \/ ReadForPin(r, u)
          \/ \E on \in BOOLEAN : ReadForToggle(r, u, on)
    \/ \E r \in Requests :
          \/ WrongSecret(r)
          \/ LockUser(r)
          \/ RightSecret(r)
          \/ Update(r)
          \/ UpdatePassword(r)
          \/ ChangeOwnPin(r)
          \/ ToggleUserActive(r)
          \/ UpsertMany(r)
          \/ GiveUp(r)
    \/ \E r \in Requests, new \in Changes : ReadForSettings(r, new)
    \/ Tick

\* Time does not stop; nothing else is owed, since no user has to log in.
Spec == Init /\ [][Next]_vars /\ WF_vars(Tick)

-----------------------------------------------------------------------------
\* A user is locked, or was since the count was last cleared, exactly when the
\* attempts that failed in a row are as many as AuthService allows: neither a
\* login, a change of password nor an update leaves one without the other.
LockFollowsAttempts ==
    apart /\ Quiet => \A u \in Users : attempts[u] = MaxFailed <=> locked[u] # NoLock

\* Only a courier has a PIN, whatever roles a user goes through (UserService.Update,
\* clearPin).
PinOnlyForCouriers == apart => \A u \in Users : pin[u] => role[u] = "COURIER"

\* A PIN of some length is admitted, however the limits are changed one by one,
\* as long as both are numbers (validateSettings).  One that is no number is
\* stored and compared with nothing: the other alone may then admit no PIN.
SomePinIsValid ==
    apart /\ IsNumber(settings.min) /\ IsNumber(settings.max) => SomePinFits

\* Types, whose PINs there are, and which.
AccessInv == TypeOK /\ PinOnlyForCouriers /\ SomePinIsValid

\* A lock ends: only attempts that began before it can set it again, however
\* many follow, overlap or fail halfway.
LocksEnd == \A u \in Users : []<>(locked[u] <= 0)
=============================================================================
