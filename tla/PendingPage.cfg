SPECIFICATION Spec
CONSTANTS
    Items = {"p1", "p2", "p3"}
    Start <- MCStart
    Movement <- MCMovement
    Accounts = {"caja", "bank", "old"}
    Active = {"caja", "bank"}
    Currencies = {"ars", "usd"}
    Offers <- MCOffers
    Amounts = {1, 2}
    MaxRequests = 2
    MaxLists = 2
    MaxActs = 6
INVARIANTS PageInv PaysWhatItShows ConfirmedIsAccepted
\* The bound on what users do is reached.
CHECK_DEADLOCK FALSE
