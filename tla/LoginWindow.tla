---------------------------- MODULE LoginWindow ----------------------------
(***************************************************************************)
(* What the limit on logins promises each address.  Its first request      *)
(* opens a window; while the window is open at most Limit requests are let *)
(* through, and one is refused only when they are spent.  The window       *)
(* closes once more than Window has passed since it was opened.            *)
(*                                                                         *)
(* Nothing is forgotten here.  RateLimiter, which drops the entries of     *)
(* idle addresses, implements this module.                                 *)
(***************************************************************************)
EXTENDS Integers

CONSTANTS Addresses, Limit, Window, Closed

VARIABLES
    age,    \* time since the window of an address was opened, or Closed
    used,   \* requests let through in it
    answer  \* what the last request of an address was told

vars == <<age, used, answer>>

Init ==
    /\ age = [a \in Addresses |-> Closed]
    /\ used = [a \in Addresses |-> 0]
    /\ answer = [a \in Addresses |-> "NONE"]

Open(a) ==
    /\ age[a] = Closed
    /\ age' = [age EXCEPT ![a] = 0]
    /\ used' = [used EXCEPT ![a] = 1]
    /\ answer' = [answer EXCEPT ![a] = "OK"]

Grant(a) ==
    /\ age[a] # Closed
    /\ used[a] < Limit
    /\ used' = [used EXCEPT ![a] = @ + 1]
    /\ answer' = [answer EXCEPT ![a] = "OK"]
    /\ UNCHANGED age

Refuse(a) ==
    /\ age[a] # Closed
    /\ used[a] = Limit
    /\ answer' = [answer EXCEPT ![a] = "TOO_MANY_REQUESTS"]
    /\ UNCHANGED <<age, used>>

Closing(a) == age[a] = Closed \/ age[a] >= Window

Pass ==
    /\ age' = [a \in Addresses |-> IF Closing(a) THEN Closed ELSE age[a] + 1]
    /\ used' = [a \in Addresses |-> IF Closing(a) THEN 0 ELSE used[a]]
    /\ UNCHANGED answer

Next == Pass \/ \E a \in Addresses : Open(a) \/ Grant(a) \/ Refuse(a)

Spec == Init /\ [][Next]_vars
=============================================================================
