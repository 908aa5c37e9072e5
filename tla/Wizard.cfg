\* A draft there is and one more, a type with a client and one with two.
SPECIFICATION WizardSpec
CONSTANTS
    Movements = {1, 2}
    Types = {"COMPRA", "ARBITRAJE"}
    OptionalTypes = {"ARBITRAJE"}
    TwoClients = "ARBITRAJE"
    Clients = {"ana", "bea"}
    FirstHeaders <- NamedInOrder
    MaxActs = 2
INVARIANTS ShownIsStored DraftInHand
PROPERTIES EditsKeepPayload WizardSettles
\* The bound on what the user does is reached.
CHECK_DEADLOCK FALSE
