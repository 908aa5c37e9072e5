-------------------------------- MODULE Forms --------------------------------
(***************************************************************************)
(* The ten operation forms of the web client: the nine of OperationForms   *)
(* and that of TransferForm, which has a draft in localStorage besides.    *)
(*                                                                         *)
(* They keep the same state, so a behaviour is one of a single form, and   *)
(* the kind of operation says which module moves it.                       *)
(***************************************************************************)
EXTENDS OperationForms

CONSTANTS TransferOffers, TransferAmounts, TransferRates, TransferShortOfHalf, TransferStored,
          TransferActs,
          Functional, FeeValues, MaxAsked, Passes    \* those of TransferForm

VARIABLE local    \* the draft in localStorage, of the transfer form alone

formsVars == <<operationVars, local>>

Transfer == INSTANCE TransferForm WITH
    Offers <- TransferOffers,
    Amounts <- TransferAmounts,
    Rates <- TransferRates,
    ShortOfHalf <- TransferShortOfHalf,
    Stored <- TransferStored,
    MaxActs <- TransferActs

ASSUME FormsAssumption == Transfer!ConstantsAreFit

IsTransfer == kind = "TRANSFERENCIA"

FormsInit ==
    \/ OperationInit /\ local = NoData
    \/ IsTransfer /\ Transfer!Init

FormsNext ==
    \/ ~IsTransfer /\ OperationNext /\ UNCHANGED local
    \/ IsTransfer /\ Transfer!Next /\ UNCHANGED kind

FormsSpec == FormsInit /\ [][FormsNext]_formsVars

----------------------------------------------------------------------------
(* Properties                                                              *)

\* What the screen of each form shows is consistent, and the effects of the
\* transfer form come to rest (components/operations); see both modules.
ScreensAreConsistent == IF IsTransfer THEN Transfer!ScreenComesToRest ELSE ScreenIsConsistent

\* The service accepts what one of the nine forms sends, but for a half cent its
\* doubles missed (utils/money.ts); see OperationForms.
FormsSendWhatIsAccepted == ~IsTransfer => SentIsAccepted

\* A transfer is accepted, but for such a half cent, and booked with the fee shown;
\* see TransferForm.
TransferIsSentAsShown == IsTransfer => Transfer!SentIsAsShown

\* A draft comes back as it was saved; see both modules.
DraftsComeBack == IF IsTransfer THEN Transfer!DraftComesBack ELSE DraftComesBack

\* Typed amounts stay whatever is answered; see both modules.
AmountsStay == [][IF IsTransfer THEN Transfer!KeepsTyped ELSE KeepsTyped]_formsVars
=============================================================================
