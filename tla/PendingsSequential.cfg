\* One request at a time, a leg of up to three units.
SPECIFICATION Spec
CONSTANTS
    Movements = {m1}
    Clients = {c1}
    Requests = {r1}
    MaxAmount = 3
    PartialAllowed = TRUE
    NoMovement = NoMovement
INVARIANTS AmountConserved AnnulledNetsToZero
PROPERTIES ClosedMovesNoCash ImplementsObligation
