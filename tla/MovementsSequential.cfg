\* One request at a time.
SPECIFICATION Spec
CONSTANTS
    Movements = {m1, m2}
    Clients = {c1, c2}
    Types = {COMPRA, VENTA}
    Requests = {r1}
    Amounts <- BothSigns
    NoDraft = NoDraft
    NoOperation = NoOperation
INVARIANTS BalanceIsSumOfEntries FollowsHeader
PROPERTIES ConfirmedIsKept ImplementsLifecycle
