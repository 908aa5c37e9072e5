\* Two requests that overlap in every way on one leg.
SPECIFICATION Spec
CONSTANTS
    Movements = {m1}
    Clients = {c1}
    Requests = {r1, r2}
    MaxAmount = 3
    PartialAllowed = TRUE
    NoMovement = NoMovement
INVARIANTS TablesInv BalanceIsSumOfEntries CCWithinCash
