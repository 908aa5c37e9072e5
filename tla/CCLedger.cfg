\* Two requests at a time over an account with a row and one without.
SPECIFICATION Spec
CONSTANTS
    Clients = {c1, c2}
    Opened = {c1}
    Openings <- DebtAndCredit
    Amounts = {2}
    Deltas <- UpAndDown
    AllowOverpay = FALSE
    AllowPositiveBalance = FALSE
    Requests = {r1, r2}
    MaxStarted = 3
    Nobody = Nobody
INVARIANT LedgerInv
PROPERTIES PaymentsRespectSettings TransfersMoveDebtWhole RequestsEnd
