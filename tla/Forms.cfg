SPECIFICATION FormsSpec
CONSTANTS
    Accounts = {"caja", "bank"}
    Currencies = {"usd", "ars"}
    Offers <- MCOffers
    Amounts = {201, 402}
    Rates = {20}
    RateUnit = 10
    ShortOfHalf <- MCShortOfHalf
    MaxLines = 2
    Clients = {"ana", "bea"}
    Debtor = "ana"
    Owed = {"ars"}
    Kinds = {"VENTA", "COMPRA", "ARBITRAJE", "INGRESO_CAPITAL", "RETIRO_CAPITAL", "GASTO",
             "PAGO_CC_CRUZADO", "TRASPASO_DEUDA_CC", "TRANSFERENCIA_ENTRE_CUENTAS"}
    Stored <- MCStored
    MaxActs <- MCActs
    TransferOffers <- MCTransferOffers
    TransferAmounts = {1003, 2006}
    TransferRates = {20}
    TransferShortOfHalf <- MCTransferShortOfHalf
    TransferStored <- MCTransferStored
    TransferActs = 2
    Functional = "ars"
    FeeValues = {1, 50}
    MaxAsked = 2
    Passes = 6
INVARIANTS ScreensAreConsistent FormsSendWhatIsAccepted TransferIsSentAsShown DraftsComeBack
PROPERTY AmountsStay
\* The bound on what the user does is reached.
CHECK_DEADLOCK FALSE
