\* A transfer with a fee line listed before its legs.
SPECIFICATION FxSpec
CONSTANTS
    Movements = {m1, m2}
    Currencies = {USD}
    Functional = ARS
    Kinds = {"COMPRA", "TRANSFERENCIA"}
    Quantities = {3}
    Quotes = {4}
    Fees = {1}
    RequireInventory = FALSE
    Annulments = {r1, r2}
    NoMovement = NoMovement
INVARIANT TransfersBookTheirLegs
CHECK_DEADLOCK FALSE
