\* Purchases, sales and transfers of two currencies and their annulments and replacements.
SPECIFICATION FxSpec
CONSTANTS
    Movements = {m1, m2, m3}
    Currencies = {USD, EUR}
    Functional = ARS
    Kinds = {"COMPRA", "VENTA", "TRANSFERENCIA"}
    Quantities = {1, 3}
    Quotes = {1, 4}
    Fees = {}
    RequireInventory = FALSE
    Annulments = {r1, r2}
    NoMovement = NoMovement
SYMMETRY Symmetry
INVARIANTS StockIsSumOfStanding CostIsAccounted
PROPERTY SaleKeepsAverage
\* Every movement of the instance ends annulled.
CHECK_DEADLOCK FALSE
