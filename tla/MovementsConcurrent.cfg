\* Two requests that overlap over a movement and two corrections of it.
SPECIFICATION Spec
CONSTANTS
    Movements = {m1, m2, m3}
    Clients = {c1}
    Types = {COMPRA}
    Requests = {r1, r2}
    Amounts <- OneAmount
    NoDraft = NoDraft
    NoOperation = NoOperation
SYMMETRY Symmetry
INVARIANTS CorrectionsSettleOnce StatusInv
