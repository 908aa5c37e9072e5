---------------------------- MODULE RateLimiter ----------------------------
(***************************************************************************)
(* The limit on the login endpoints (http/ratelimit_middleware.go): a      *)
(* fixed window per address, and a clean-up that drops idle entries.       *)
(*                                                                         *)
(* Both run under one mutex, so each is one step.  Time is a number; the   *)
(* ticker of the clean-up fires every CleanEvery, and requests handled at  *)
(* that instant come before it or after it.                                *)
(*                                                                         *)
(* The names say Limiter where Access has one of its own: MCAccess extends *)
(* both.                                                                   *)
(***************************************************************************)
EXTENDS Integers

CONSTANTS
    Addresses,   \* addresses that ask for a login
    Limit,       \* requests let through per window
    Window,      \* length of a window
    CleanEvery,  \* period of the clean-up, and the idleness it tolerates
    MaxTime,     \* bound on the time of a behaviour
    NoEntry      \* no entry in the map

ASSUME LimitIsPositive == Limit \in Nat \ {0}
ASSUME WindowFitsPeriod ==
    /\ Window \in Nat
    /\ CleanEvery \in Nat \ {0}
    /\ Window <= CleanEvery
ASSUME TimeIsNatural == MaxTime \in Nat

Times == 0 .. MaxTime
Entries == [count : 1 .. Limit, windowStart : Times, lastSeen : Times]
ASSUME NoEntryIsNone == NoEntry \notin Entries

VARIABLES
    now,      \* time.Now()
    entries,  \* the map: count, windowStart and lastSeen by address
    cleanAt,  \* when the ticker fires next
    answer    \* what the last request of an address was told

limiterVars == <<now, entries, cleanAt, answer>>

LimiterTypes ==
    /\ now \in Times
    /\ entries \in [Addresses -> Entries \cup {NoEntry}]
    /\ cleanAt \in Nat
    /\ answer \in [Addresses -> {"NONE", "OK", "TOO_MANY_REQUESTS"}]

LimiterInit ==
    /\ now = 0
    /\ entries = [a \in Addresses |-> NoEntry]
    /\ cleanAt = CleanEvery
    /\ answer = [a \in Addresses |-> "NONE"]

-----------------------------------------------------------------------------
NewWindow == [count |-> 1, windowStart |-> now, lastSeen |-> now]

\* Mutant of Expired: a window is over when its length has passed.
ExpiredEarly(e) == now - e.windowStart >= Window

Expired(e) == now - e.windowStart > Window

LetThrough(a, e) ==
    /\ entries' = [entries EXCEPT ![a] = e]
    /\ answer' = [answer EXCEPT ![a] = "OK"]

\* allow, for an address without an entry, with an expired window, with room
\* in its window and without.  A refused request counts as seen.
AllowFirst(a) ==
    /\ entries[a] = NoEntry
    /\ LetThrough(a, NewWindow)
    /\ UNCHANGED <<now, cleanAt>>

AllowExpired(a) ==
    /\ entries[a] # NoEntry
    /\ Expired(entries[a])
    /\ LetThrough(a, NewWindow)
    /\ UNCHANGED <<now, cleanAt>>

AllowCounted(a) ==
    /\ entries[a] # NoEntry
    /\ ~Expired(entries[a])
    /\ entries[a].count < Limit
    /\ LetThrough(a, [entries[a] EXCEPT !.count = @ + 1, !.lastSeen = now])
    /\ UNCHANGED <<now, cleanAt>>

Refuse(a) ==
    /\ entries[a] # NoEntry
    /\ ~Expired(entries[a])
    /\ entries[a].count >= Limit
    /\ entries' = [entries EXCEPT ![a].lastSeen = now]
    /\ answer' = [answer EXCEPT ![a] = "TOO_MANY_REQUESTS"]
    /\ UNCHANGED <<now, cleanAt>>

IsIdle(e) == e.lastSeen < now - CleanEvery

\* One turn of cleanupLoop.
Cleanup ==
    /\ now = cleanAt
    /\ entries' = [a \in Addresses |->
                      IF entries[a] # NoEntry /\ IsIdle(entries[a]) THEN NoEntry ELSE entries[a]]
    /\ cleanAt' = cleanAt + CleanEvery
    /\ UNCHANGED <<now, answer>>

\* The clean-up that is due runs before time goes on.
ClockTick ==
    /\ now < MaxTime
    /\ now < cleanAt
    /\ now' = now + 1
    /\ UNCHANGED <<entries, cleanAt, answer>>

LimiterNext ==
    \/ \E a \in Addresses :
          AllowFirst(a) \/ AllowExpired(a) \/ AllowCounted(a) \/ Refuse(a)
    \/ Cleanup
    \/ ClockTick

LimiterSpec == LimiterInit /\ [][LimiterNext]_limiterVars

-----------------------------------------------------------------------------
\* An entry is dropped at the latest with the second clean-up after its last
\* request, so the map holds the addresses of two periods and no more
\* (ratelimit_middleware.go, "para evitar memory leaks").
IdleEntriesGo ==
    \A a \in Addresses : entries[a] # NoEntry => now - entries[a].lastSeen <= 2 * CleanEvery

\* Types, and how long an entry is kept.
LimiterInv == LimiterTypes /\ IdleEntriesGo

InWindow(a) == entries[a] # NoEntry /\ ~Expired(entries[a])

Promise == INSTANCE LoginWindow WITH
    Closed <- -1,
    age    <- [a \in Addresses |-> IF InWindow(a) THEN now - entries[a].windowStart ELSE -1],
    used   <- [a \in Addresses |-> IF InWindow(a) THEN entries[a].count ELSE 0]

\* The limiter keeps the promise: a request is refused only when the window of
\* its address is spent, and the clean-up changes no answer.
ImplementsLoginWindow == Promise!Spec
=============================================================================
