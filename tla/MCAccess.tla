------------------------------ MODULE MCAccess ------------------------------
(***************************************************************************)
(* An instance for TLC of what lets a request in on the server: the users  *)
(* and the permissions of AccessControl, and the limit on logins.          *)
(*                                                                         *)
(* The three share no variable, and each property is about one of them.    *)
(* So a behaviour is one of a single part while the others rest, which     *)
(* adds their states instead of multiplying them.  The limits of a PIN go  *)
(* through all their values in a part of their own; the accounts meet four *)
(* of them, which admit a PIN or none.                                     *)
(***************************************************************************)
EXTENDS AccessControl, RateLimiter, TLC

VARIABLE part  \* which part moves

allVars == <<part, vars, rightVars, limiterVars>>

\* Two roles that are valid, one of which has the key that the program knows.
MCFallback == ("OPERATOR" :> {"cc.view"}) @@ ("COURIER" :> {})

-----------------------------------------------------------------------------
\* Only the part that moves starts in more than one way.
MCInit ==
    /\ part \in {"ACCOUNTS", "SETTINGS", "RIGHTS", "LIMITER"}
    /\ Init /\ Rights!Init /\ LimiterInit
    /\ part # "ACCOUNTS" => settings.pin
    /\ part # "RIGHTS" =>
          /\ ~tables
          /\ \A u \in DOMAIN grantee : grantee[u] = "COURIER"
          /\ \A r \in DOMAIN ofRole : \A k \in DOMAIN ofRole[r] : ofRole[r][k] = "NO_ROW"

\* A lower limit that is no number, or an upper one of three digits; or as they were.
FewChanges ==
    {"min" :> limit : limit \in {NotANumber, Least}} \cup {"max" :> limit : limit \in {6, Most}}

OnlySends(changes) ==
    \A r \in Requests : request'[r] # Idle /\ request'[r].op = "SETTINGS" => request'[r].new \in changes

OfAccounts(A) ==
    part = "ACCOUNTS" /\ A /\ OnlySends(FewChanges) /\ UNCHANGED <<part, rightVars, limiterVars>>
OfSettings(A) ==
    /\ part = "SETTINGS" /\ A
    /\ \A r \in Requests : request'[r] # Idle => request'[r].op = "SETTINGS"
    /\ UNCHANGED <<part, role, pin, active, attempts, locked, rightVars, limiterVars>>
OfRights(A)   == part = "RIGHTS"   /\ A /\ UNCHANGED <<part, vars, limiterVars>>
OfLimiter(A)  == part = "LIMITER"  /\ A /\ UNCHANGED <<part, vars, rightVars>>

MCNext ==
    \/ OfAccounts(Next)
    \/ OfSettings(Next)
    \/ OfRights(Rights!Next)
    \/ OfLimiter(LimiterNext)

\* The fairness of Access.
MCSpec == MCInit /\ [][MCNext]_allVars /\ WF_allVars(OfAccounts(Tick))
=============================================================================
