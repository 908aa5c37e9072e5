------------------------- MODULE TransferFormProofs -------------------------
(***************************************************************************)
(* Theorems about the transfer form and, with those about the other nine   *)
(* (AccessAndFormsProofs), about the ten forms together.                   *)
(*                                                                         *)
(* The transfer form renders as often as its effects take.  Each pass      *)
(* leaves a form of its type and the amounts that are the user's (Keeps),  *)
(* and so do all of them; one that changes nothing any more shows what     *)
(* every effect writes, and that is what the server checks (TransferInv).  *)
(* They come to rest in six: the fee finds its currency and its account in *)
(* five (FeeComesNearer), and the amount depends on nothing else.  A draft *)
(* loses nothing on the way: what a form shows of it, every pass leaves    *)
(* (BackFrom).                                                             *)
(***************************************************************************)
EXTENDS AccessAndFormsProofs, TLAPS

-----------------------------------------------------------------------------
(* The transfer form: what it may show                                     *)

Sides == Transfer!Sides

FeeShapes == [on : BOOLEAN, mode : {"PERCENT", "FIXED"}, value : Nat,
              treatment : {"APARTE", "INCLUIDA"}, payer : {"CLIENTE_PAGA", "NOSOTROS_PAGAMOS"},
              pending : BOOLEAN, currency : Maybe(Currencies), account : Maybe(Accounts),
              format : Maybe(Formats)]

\* What the form is after an input; the first pass clears the tick of an included fee.
TransferForms == [legs : [Sides -> Transfer!TransferLegs], fee : FeeShapes, rate : Nat,
                  mode : {"MULTIPLY", "DIVIDE"}, first : Sides, edited : BOOLEAN,
                  functional : {"", Functional}, fx : BOOLEAN,
                  lists : [Accounts -> {"absent", "here", "failed"}],
                  asked : [Accounts -> 0..MaxAsked]]
Settled == {f \in TransferForms : f.fee \in Transfer!Fees}

\* The passes leave the first leg, and a second amount that is the user's.
Keeps(f, g) ==
    /\ g.first = f.first /\ (g.edited <=> f.edited)
    /\ g.legs[f.first].amount = f.legs[f.first].amount
    /\ f.edited => g.legs = f.legs

Settles(f, g) == g \in Settled /\ Keeps(f, g)

LEMMA TransferConstants ==
  /\ TransferOffers \in [Accounts \X Currencies -> SUBSET {"CASH", "DIGITAL"}]
  /\ "" \notin Accounts \cup Currencies
  /\ Functional \in Currencies
  /\ TransferAmounts \subseteq Nat \ {0}
  /\ FeeValues \subseteq Nat \ {0} /\ TransferRates \subseteq Nat \ {0}
  /\ TransferStored \subseteq Transfer!Drafts
  /\ TransferActs \in Nat /\ MaxAsked \in Nat \ {0} /\ Passes \in Nat \ {0}
BY FormsAssumption DEF Transfer!ConstantsAreFit, Transfer!FormLegsAssumption

LEMMA SameSets ==
  /\ \A S : Transfer!Maybe(S) = Maybe(S)
  /\ Transfer!Formats = Formats
  /\ Sides = {"out", "in"}
  /\ Transfer!Fees = {fee \in FeeShapes : fee.treatment = "INCLUIDA" => ~fee.pending}
BY DEF Transfer!Maybe, Maybe, Transfer!Formats, Formats, Sides, Transfer!Sides, Transfer!Fees, FeeShapes

LEMMA TransferFields ==
  ASSUME NEW f \in TransferForms
  PROVE  /\ f.legs \in [Sides -> Transfer!TransferLegs] /\ f.fee \in FeeShapes /\ f.rate \in Nat
         /\ f.mode \in {"MULTIPLY", "DIVIDE"} /\ f.first \in Sides /\ f.edited \in BOOLEAN
         /\ f.functional \in {"", Functional} /\ f.fx \in BOOLEAN
         /\ f.lists \in [Accounts -> {"absent", "here", "failed"}]
         /\ f.asked \in [Accounts -> 0..MaxAsked]
         /\ \A s \in Sides : f.legs[s] \in Transfer!TransferLegs
BY DEF TransferForms

LEMMA TransferLegFields ==
  ASSUME NEW leg \in Transfer!TransferLegs
  PROVE  /\ leg.account \in Maybe(Accounts) /\ leg.currency \in Maybe(Currencies)
         /\ leg.format \in Maybe(Formats) /\ leg.amount \in Nat \cup {Transfer!Unset}
         /\ leg.pending \in BOOLEAN
         /\ leg.account = "" => leg.currency = ""
         /\ leg.currency = "" => leg.format = ""
         /\ leg.format # "" => Transfer!PairTakes(leg.account, leg.currency, leg.format)
         /\ \A x \in Nat \cup {Transfer!Unset} : [leg EXCEPT !.amount = x] \in Transfer!TransferLegs
BY SameSets DEF Transfer!TransferLegs

LEMMA FeeFields ==
  ASSUME NEW fee \in FeeShapes
  PROVE  /\ fee.on \in BOOLEAN /\ fee.mode \in {"PERCENT", "FIXED"} /\ fee.value \in Nat
         /\ fee.treatment \in {"APARTE", "INCLUIDA"}
         /\ fee.payer \in {"CLIENTE_PAGA", "NOSOTROS_PAGAMOS"} /\ fee.pending \in BOOLEAN
         /\ fee.currency \in Maybe(Currencies) /\ fee.account \in Maybe(Accounts)
         /\ fee.format \in Maybe(Formats)
BY DEF FeeShapes

(* The other side of a side.                                               *)
LEMMA OtherSide ==
  ASSUME NEW s \in Sides
  PROVE  Transfer!Other(s) \in Sides /\ Transfer!Other(s) # s
BY SameSets DEF Transfer!Other

-----------------------------------------------------------------------------
(* Amounts that are suggested                                              *)

LEMMA RoundedAmountIsNat ==
  ASSUME NEW a \in Nat, NEW times \in Nat, NEW by \in Nat \ {0}
  PROVE  Transfer!RoundedByClient(a, times, by) \in Nat
<1>1. PICK short \in {0, 1} : short = IF <<a, times, by>> \in TransferShortOfHalf THEN 1 ELSE 0
  OBVIOUS
<1>2. PICK x \in Nat : x = 2 * a * times
  OBVIOUS
<1>3. PICK n \in Nat, d \in Nat \ {0} : n = x + by - short /\ d = 2 * by
  OBVIOUS
<1>4. n \div d \in Nat
  OBVIOUS
<1>5. QED BY <1>1, <1>2, <1>3, <1>4 DEF Transfer!RoundedByClient

LEMMA PercentIsNat ==
  ASSUME NEW a \in Nat, NEW v \in Nat
  PROVE  Transfer!PercentOf(a, v) \in Nat
BY RoundedAmountIsNat DEF Transfer!PercentOf

LEMMA EquivalentAmountIsNat ==
  ASSUME NEW a \in Nat, NEW r \in Nat, NEW mode
  PROVE  Transfer!calculateEquivalent(a, r, mode) \in Nat
<1>1. RateUnit \in Nat \ {0}
  BY QuoteAmountsAssumption
<1>2. QED BY <1>1, RoundedAmountIsNat DEF Transfer!calculateEquivalent

LEMMA SuggestedIsNat ==
  ASSUME NEW f \in TransferForms, Transfer!Sum(f) > 0
  PROVE  /\ Transfer!computeSuggestedSecondLegAmount(f) \in Nat
         /\ Transfer!computeCounterpartFromAnchor(f) \in Nat
<1>1. PICK sum : sum = Transfer!Sum(f)
  OBVIOUS
<1>2. f.legs[f.first] \in Transfer!TransferLegs
  BY TransferFields
<1>3. sum \in Nat /\ Transfer!Sum(f) = sum
  <2>1. f.legs[f.first].amount \in Nat \cup {Transfer!Unset}
    BY <1>2, TransferLegFields
  <2>2. sum = f.legs[f.first].amount /\ sum > 0
    BY <1>1 DEF Transfer!Sum
  <2>3. QED BY <1>1, <2>1, <2>2 DEF Transfer!Unset
<1>4. f.fee.value \in Nat
  BY TransferFields, FeeFields
<1>5. Transfer!expectedFee(f) \in Nat
  <2>1. \A s \in Sides : Transfer!Abs(f.legs[s].amount) \in Nat
    BY TransferFields, TransferLegFields DEF Transfer!Abs, Transfer!Unset
  <2>2. \A s \in Sides : Transfer!PercentOf(Transfer!Abs(f.legs[s].amount), f.fee.value) \in Nat
    BY <1>4, <2>1, PercentIsNat
  <2>3. PICK s \in Sides : s = IF f.fee.currency = Transfer!CurrencyOf(f, "out") THEN "out" ELSE "in"
    BY SameSets
  <2>4. QED BY <1>4, <2>2, <2>3 DEF Transfer!expectedFee
<1>6. Transfer!FeeForSuggestion(f) \in Nat
  <2>1. Transfer!PercentOf(sum, f.fee.value) \in Nat
    BY <1>3, <1>4, PercentIsNat
  <2>2. QED BY <1>3, <1>5, <2>1 DEF Transfer!FeeForSuggestion
<1>7. Transfer!computeSuggestedSecondLegAmount(f) \in Nat
  <2>1. PICK fee \in Nat : fee = Transfer!FeeForSuggestion(f)
    BY <1>6
  <2>2. sum + fee \in Nat /\ (sum > fee => sum - fee \in Nat)
    BY <1>3
  <2>3. QED BY <1>3, <2>1, <2>2 DEF Transfer!computeSuggestedSecondLegAmount
<1>8. Transfer!computeCounterpartFromAnchor(f) \in Nat
  <2>1. \A mode : Transfer!calculateEquivalent(sum, f.rate, mode) \in Nat
    BY <1>3, TransferFields, EquivalentAmountIsNat
  <2>2. QED BY <1>3, <2>1 DEF Transfer!computeCounterpartFromAnchor
<1>9. QED BY <1>7, <1>8

-----------------------------------------------------------------------------
(* The effects of the transfer form                                        *)

LEMMA FeeWritten ==
  ASSUME NEW f, NEW g, Settles(f, g), NEW fee \in Transfer!Fees
  PROVE  Settles(f, [g EXCEPT !.fee = fee])
<1>1. PICK h : h = [g EXCEPT !.fee = fee]
  OBVIOUS
<1>2. g \in TransferForms /\ fee \in FeeShapes
  BY SameSets DEF Settles, Settled
<1>3. h \in TransferForms /\ h.fee = fee /\ h.legs = g.legs /\ h.first = g.first /\ h.edited = g.edited
  BY <1>1, <1>2 DEF TransferForms
<1>4. h \in Settled
  BY <1>3 DEF Settled
<1>5. Keeps(f, h)
  BY <1>3 DEF Settles, Keeps
<1>6. QED BY <1>1, <1>4, <1>5 DEF Settles

(* What the fee may become.                                                *)
LEMMA FeeMoved ==
  ASSUME NEW fee \in Transfer!Fees
  PROVE  /\ \A a \in Maybe(Accounts), x \in Maybe(Formats) :
              [fee EXCEPT !.account = a, !.format = x] \in Transfer!Fees
         /\ \A c \in Maybe(Currencies), x \in Maybe(Formats) :
              [fee EXCEPT !.currency = c, !.format = x] \in Transfer!Fees
<1>1. fee \in FeeShapes /\ (fee.treatment = "INCLUIDA" => ~fee.pending)
  BY SameSets
<1>2. \A a \in Maybe(Accounts), x \in Maybe(Formats) :
        [fee EXCEPT !.account = a, !.format = x] \in Transfer!Fees
  <2>1. TAKE a \in Maybe(Accounts), x \in Maybe(Formats)
  <2>2. PICK new : new = [fee EXCEPT !.account = a, !.format = x]
    OBVIOUS
  <2>3. new \in FeeShapes /\ new.treatment = fee.treatment /\ new.pending = fee.pending
    BY <1>1, <2>2 DEF FeeShapes
  <2>4. QED BY <1>1, <2>2, <2>3, SameSets
<1>3. \A c \in Maybe(Currencies), x \in Maybe(Formats) :
        [fee EXCEPT !.currency = c, !.format = x] \in Transfer!Fees
  <2>1. TAKE c \in Maybe(Currencies), x \in Maybe(Formats)
  <2>2. PICK new : new = [fee EXCEPT !.currency = c, !.format = x]
    OBVIOUS
  <2>3. new \in FeeShapes /\ new.treatment = fee.treatment /\ new.pending = fee.pending
    BY <1>1, <2>2 DEF FeeShapes
  <2>4. QED BY <1>1, <2>2, <2>3, SameSets
<1>4. QED BY <1>2, <1>3

(* The tick of an included fee goes, whatever the input was.               *)
LEMMA TickGoes ==
  ASSUME NEW f \in TransferForms
  PROVE  /\ Settles(f, Transfer!IncludedIsReal(f, f))
         /\ Transfer!IncludedIsReal(f, f).asked = f.asked
         /\ f \in Settled => Transfer!IncludedIsReal(f, f) = f
<1>1. CASE f.fee.treatment = "INCLUIDA" /\ f.fee.pending
  <2>1. PICK g : g = [f EXCEPT !.fee.pending = FALSE]
    OBVIOUS
  <2>2. PICK fee : fee = [f.fee EXCEPT !.pending = FALSE]
    OBVIOUS
  <2>3. f.fee \in FeeShapes
    BY TransferFields
  <2>4. fee \in FeeShapes /\ ~fee.pending
    BY <2>2, <2>3 DEF FeeShapes
  <2>5. fee \in Transfer!Fees
    BY <2>4, SameSets
  <2>6. g = [f EXCEPT !.fee = fee]
    BY <2>1, <2>2
  <2>7. g \in TransferForms /\ g.fee = fee /\ g.legs = f.legs /\ g.first = f.first /\ g.edited = f.edited
        /\ g.asked = f.asked
    BY <2>4, <2>6 DEF TransferForms
  <2>8. Settles(f, g)
    BY <2>5, <2>7 DEF Settles, Settled, Keeps
  <2>9. f \notin Settled
    BY <1>1, SameSets DEF Settled
  <2>10. QED BY <1>1, <2>1, <2>7, <2>8, <2>9 DEF Transfer!IncludedIsReal
<1>2. CASE ~(f.fee.treatment = "INCLUIDA" /\ f.fee.pending)
  <2>1. f.fee \in FeeShapes
    BY TransferFields
  <2>2. f.fee \in Transfer!Fees
    BY <1>2, <2>1, SameSets
  <2>3. Settles(f, f)
    BY <2>2 DEF Settles, Settled, Keeps
  <2>4. QED BY <1>2, <2>3 DEF Transfer!IncludedIsReal
<1>3. QED BY <1>1, <1>2

LEMMA FollowLegSettles ==
  ASSUME NEW f \in TransferForms, NEW g, Settles(f, g)
  PROVE  Settles(f, Transfer!FollowLeg(f, g))
<1>1. PICK leg \in Transfer!TransferLegs :
        \/ Transfer!FollowLeg(f, g) = g
        \/ Transfer!FollowLeg(f, g) = [g EXCEPT !.fee.account = leg.account, !.fee.format = leg.format]
  <2>1. \A s \in Sides : f.legs[s] \in Transfer!TransferLegs
    BY TransferFields
  <2>2. PICK s \in Sides :
          \/ Transfer!FollowLeg(f, g) = g
          \/ Transfer!FollowLeg(f, g)
               = [g EXCEPT !.fee.account = f.legs[s].account, !.fee.format = f.legs[s].format]
    <3>1. PICK s \in Sides : s = IF "out" \in {side \in Transfer!FeeSides(f) : Transfer!Ready(f.legs[side])}
                                 THEN "out" ELSE "in"
      BY SameSets
    <3>2. QED BY <3>1 DEF Transfer!FollowLeg
  <2>3. QED BY <2>1, <2>2
<1>2. PICK fee : fee = [g.fee EXCEPT !.account = leg.account, !.format = leg.format]
  OBVIOUS
<1>3. leg.account \in Maybe(Accounts) /\ leg.format \in Maybe(Formats) /\ g.fee \in Transfer!Fees
  BY TransferLegFields DEF Settles, Settled
<1>4. fee \in Transfer!Fees
  BY <1>2, <1>3, FeeMoved
<1>5. [g EXCEPT !.fee.account = leg.account, !.fee.format = leg.format] = [g EXCEPT !.fee = fee]
  BY <1>2 DEF Settles, Settled, TransferForms
<1>6. QED BY <1>1, <1>4, <1>5, FeeWritten

LEMMA DropCurrencySettles ==
  ASSUME NEW f \in TransferForms, NEW g, Settles(f, g)
  PROVE  Settles(f, Transfer!DropCurrency(f, g))
<1>1. PICK fee : fee = [g.fee EXCEPT !.currency = "", !.format = ""]
  OBVIOUS
<1>2. "" \in Maybe(Currencies) /\ "" \in Maybe(Formats) /\ g.fee \in Transfer!Fees
  BY DEF Maybe, Settles, Settled
<1>3. fee \in Transfer!Fees
  BY <1>1, <1>2, FeeMoved
<1>4. [g EXCEPT !.fee.currency = "", !.fee.format = ""] = [g EXCEPT !.fee = fee]
  BY <1>1 DEF Settles, Settled, TransferForms
<1>5. QED BY <1>3, <1>4, FeeWritten DEF Transfer!DropCurrency

(* A suggestion changes the second amount, while it is not the user's.     *)
LEMMA AmountSuggested ==
  ASSUME NEW f \in TransferForms, NEW g, Settles(f, g), NEW x \in Nat, ~f.edited
  PROVE  Settles(f, [g EXCEPT !.legs[Transfer!Second(f)].amount = x])
<1>1. PICK s \in Sides : s = Transfer!Second(f) /\ s # f.first
  <2>1. f.first \in Sides
    BY TransferFields
  <2>2. QED BY <2>1, OtherSide DEF Transfer!Second
<1>2. g \in TransferForms /\ g.legs \in [Sides -> Transfer!TransferLegs] /\ g.fee \in Transfer!Fees
      /\ g.first = f.first
  BY TransferFields DEF Settles, Settled, Keeps
<1>3. PICK leg : leg = [g.legs[s] EXCEPT !.amount = x]
  OBVIOUS
<1>4. leg \in Transfer!TransferLegs
  BY <1>2, <1>3, TransferLegFields
<1>5. PICK legs : legs = [g.legs EXCEPT ![s] = leg]
  OBVIOUS
<1>6. legs \in [Sides -> Transfer!TransferLegs] /\ legs[f.first] = g.legs[f.first]
  BY <1>1, <1>2, <1>4, <1>5, TransferFields
<1>7. PICK h : h = [g EXCEPT !.legs = legs]
  OBVIOUS
<1>8. [g EXCEPT !.legs[Transfer!Second(f)].amount = x] = h
  BY <1>1, <1>2, <1>3, <1>5, <1>7 DEF TransferForms
<1>9. h \in TransferForms /\ h.legs = legs /\ h.fee = g.fee /\ h.first = g.first /\ h.edited = g.edited
  BY <1>2, <1>6, <1>7 DEF TransferForms
<1>10. Settles(f, h)
  BY <1>2, <1>6, <1>9 DEF Settles, Settled, Keeps
<1>11. QED BY <1>8, <1>10

LEMMA SuggestionsSettle ==
  ASSUME NEW f \in TransferForms, NEW g, Settles(f, g)
  PROVE  Settles(f, Transfer!SuggestByQuote(f, g)) /\ Settles(f, Transfer!SuggestByFee(f, g))
<1>1. CASE Transfer!Suggests(f)
  <2>1. ~f.edited /\ Transfer!Sum(f) > 0
    BY <1>1 DEF Transfer!Suggests
  <2>2. PICK x \in Nat, y \in Nat : /\ x = Transfer!computeSuggestedSecondLegAmount(f)
                                    /\ y = Transfer!computeCounterpartFromAnchor(f)
    BY <2>1, SuggestedIsNat
  <2>3. /\ Settles(f, [g EXCEPT !.legs[Transfer!Second(f)].amount = x])
        /\ Settles(f, [g EXCEPT !.legs[Transfer!Second(f)].amount = y])
    BY <2>1, AmountSuggested
  <2>4. QED BY <2>2, <2>3 DEF Transfer!SuggestByQuote, Transfer!SuggestByFee
<1>2. CASE ~Transfer!Suggests(f)
  BY <1>2 DEF Transfer!SuggestByQuote, Transfer!SuggestByFee
<1>3. QED BY <1>1, <1>2

LEMMA FirstFormats == \A formats : Transfer!FirstFormat(formats) \in Maybe(Formats)
BY DEF Transfer!FirstFormat, Maybe, Formats

LEMMA DefaultCurrencySettles ==
  ASSUME NEW f \in TransferForms, NEW g, Settles(f, g)
  PROVE  Settles(f, Transfer!DefaultCurrency(f, g))
<1>1. PICK currency : currency = Transfer!CurrencyOf(f, f.first)
  OBVIOUS
<1>2. currency \in Maybe(Currencies)
  <2>1. f.legs[f.first] \in Transfer!TransferLegs
    BY TransferFields
  <2>2. QED BY <1>1, <2>1, TransferLegFields DEF Transfer!CurrencyOf
<1>3. PICK format \in Maybe(Formats) :
        \/ Transfer!DefaultCurrency(f, g) = g
        \/ Transfer!DefaultCurrency(f, g) = [g EXCEPT !.fee.currency = currency, !.fee.format = format]
  <2>1. PICK side : side = IF currency = Transfer!CurrencyOf(f, "out") /\ f.legs["out"].account # ""
                           THEN "out" ELSE "in"
    OBVIOUS
  <2>2. PICK format : format = Transfer!FirstFormat(Transfer!formatsFor(f, f.legs[side].account, currency))
    OBVIOUS
  <2>3. format \in Maybe(Formats)
    BY <2>2, FirstFormats
  <2>4. QED BY <1>1, <2>1, <2>2, <2>3 DEF Transfer!DefaultCurrency
<1>4. PICK fee : fee = [g.fee EXCEPT !.currency = currency, !.format = format]
  OBVIOUS
<1>5. fee \in Transfer!Fees
  <2>1. g.fee \in Transfer!Fees
    BY DEF Settles, Settled
  <2>2. QED BY <1>2, <1>4, <2>1, FeeMoved
<1>6. [g EXCEPT !.fee.currency = currency, !.fee.format = format] = [g EXCEPT !.fee = fee]
  BY <1>4 DEF Settles, Settled, TransferForms
<1>7. QED BY <1>3, <1>5, <1>6, FeeWritten

LEMMA AskingSettles ==
  ASSUME NEW f \in TransferForms, NEW g, Settles(f, g)
  PROVE  Settles(f, Transfer!Asking(f, g))
<1>1. PICK asked : asked = [a \in Accounts |->
        IF a \in Transfer!Places(f) /\ f.lists[a] = "absent" /\ f.asked[a] < MaxAsked
        THEN f.asked[a] + 1 ELSE f.asked[a]]
  OBVIOUS
<1>2. asked \in [Accounts -> 0..MaxAsked]
  <2>1. f.asked \in [Accounts -> 0..MaxAsked] /\ MaxAsked \in Nat
    BY TransferFields, TransferConstants
  <2>2. QED BY <1>1, <2>1
<1>3. PICK h : h = [g EXCEPT !.asked = asked]
  OBVIOUS
<1>4. h \in TransferForms /\ h.legs = g.legs /\ h.fee = g.fee /\ h.first = g.first /\ h.edited = g.edited
  BY <1>2, <1>3 DEF Settles, Settled, TransferForms
<1>5. Settles(f, h)
  BY <1>4 DEF Settles, Settled, Keeps
<1>6. QED BY <1>1, <1>3, <1>5 DEF Transfer!Asking

(* A pass.                                                                 *)
LEMMA PassSettles ==
  ASSUME NEW old, NEW f \in TransferForms
  PROVE  Settles(f, Transfer!Pass(old, f))
<1>1. PICK g1 : g1 = Transfer!IncludedIsReal(f, f)
  OBVIOUS
<1>2. PICK g2 : g2 = Transfer!FollowLeg(f, g1)
  OBVIOUS
<1>3. PICK g3 : g3 = Transfer!DropCurrency(f, g2)
  OBVIOUS
<1>4. PICK g4 : g4 = Transfer!SuggestByQuote(f, g3)
  OBVIOUS
<1>5. PICK g5 : g5 = Transfer!SuggestByFee(f, g4)
  OBVIOUS
<1>6. PICK g : g = Transfer!DefaultCurrency(f, g5)
  OBVIOUS
<1>7. Settles(f, g1)
  BY <1>1, TickGoes
<1>8. Settles(f, g2)
  BY <1>2, <1>7, FollowLegSettles
<1>9. Settles(f, g3)
  BY <1>3, <1>8, DropCurrencySettles
<1>10. Settles(f, g4)
  BY <1>4, <1>9, SuggestionsSettle
<1>11. Settles(f, g5)
  BY <1>5, <1>10, SuggestionsSettle
<1>12. Settles(f, g)
  BY <1>6, <1>11, DefaultCurrencySettles
<1>13. Settles(f, Transfer!Asking(f, g))
  BY <1>12, AskingSettles
<1>14. Transfer!Pass(old, f) \in {g, Transfer!Asking(f, g)}
  BY <1>1, <1>2, <1>3, <1>4, <1>5, <1>6 DEF Transfer!Pass
<1>15. QED BY <1>12, <1>13, <1>14

-----------------------------------------------------------------------------
(* The passes                                                              *)

LEMMA LeastNatural ==
  ASSUME NEW T, T \subseteq Nat, T # {}
  PROVE  \E m \in T : \A k \in T : m <= k
<1>1. IsWellFoundedOn(OpToRel(<, Nat), Nat)
  BY NatLessThanWellFounded
<1>2. PICK m \in T : \A k \in T : ~ (<<k, m>> \in OpToRel(<, Nat))
  BY <1>1, WFMin
<1>3. \A k \in T : ~ (k < m)
  BY <1>2 DEF OpToRel
<1>4. QED BY <1>3

\* A step of the recursion of Rendered.
NextPasses(old, new, h, n) ==
    IF n = 0 THEN {<<old, new>>} ELSE {<<p[2], Transfer!Pass(p[1], p[2])>> : p \in h[n - 1]}

LEMMA PassesExist ==
  ASSUME NEW old, NEW new
  PROVE  \A m \in Nat : \E h : h = [n \in 0..m |-> NextPasses(old, new, h, n)]
<1> DEFINE Bad == {m \in Nat : ~ \E h : h = [n \in 0..m |-> NextPasses(old, new, h, n)]}
<1>1. SUFFICES ASSUME Bad # {} PROVE FALSE
  OBVIOUS
<1>2. PICK m \in Bad : \A k \in Bad : m <= k
  <2>1. Bad \subseteq Nat
    OBVIOUS
  <2> HIDE DEF Bad
  <2>2. QED BY <1>1, <2>1, LeastNatural
<1>3. m \in Nat /\ ~ \E h : h = [n \in 0..m |-> NextPasses(old, new, h, n)]
  OBVIOUS
<1>4. CASE m = 0
  <2>1. PICK h : h = [n \in 0..0 |-> {<<old, new>>}]
    OBVIOUS
  <2>2. \A n \in 0..0 : h[n] = NextPasses(old, new, h, n)
    BY <2>1 DEF NextPasses
  <2>3. h = [n \in 0..0 |-> NextPasses(old, new, h, n)]
    BY <2>1, <2>2
  <2>4. QED BY <1>3, <1>4, <2>3
<1>5. CASE m # 0
  <2>1. m - 1 \in Nat /\ m - 1 \notin Bad
    BY <1>2, <1>3, <1>5
  <2>2. PICK h : h = [n \in 0..(m - 1) |-> NextPasses(old, new, h, n)]
    BY <2>1
  <2>3. PICK last : last = NextPasses(old, new, h, m)
    OBVIOUS
  <2>4. PICK k : k = [n \in 0..m |-> IF n = m THEN last ELSE h[n]]
    OBVIOUS
  <2>5. \A n \in 0..(m - 1) : k[n] = h[n]
    BY <1>3, <2>4
  <2>6. ASSUME NEW n \in 0..m
        PROVE  k[n] = NextPasses(old, new, k, n)
    <3>1. n = 0 \/ k[n - 1] = h[n - 1]
      BY <1>3, <2>5, <2>6
    <3>2. NextPasses(old, new, k, n) = NextPasses(old, new, h, n)
      BY <3>1 DEF NextPasses
    <3>3. CASE n = m
      BY <1>3, <2>3, <2>4, <3>2, <3>3
    <3>4. CASE n # m
      <4>1. n \in 0..(m - 1)
        BY <1>3, <2>6, <3>4
      <4>2. h[n] = NextPasses(old, new, h, n)
        BY <2>2, <4>1
      <4>3. QED BY <2>5, <3>2, <4>1, <4>2
    <3>5. QED BY <3>3, <3>4
  <2>7. k = [n \in 0..m |-> NextPasses(old, new, k, n)]
    BY <2>4, <2>6
  <2>8. QED BY <1>3, <2>7
<1>6. QED BY <1>4, <1>5

LEMMA KeepsOn ==
  ASSUME NEW f \in TransferForms, NEW g, NEW h, Keeps(f, g), Keeps(g, h)
  PROVE  Keeps(f, h)
BY DEF Keeps

AfterPass(p) == <<p[2], Transfer!Pass(p[1], p[2])>>

\* The passes counted by k, their forms, and the amounts that were those of new.
Reached(new, h, k) ==
    \A p \in h[k] :
        /\ p[2] \in TransferForms /\ Keeps(new, p[2])
        /\ k = 0 => p[2] = new
        /\ k # 0 => p[2] \in Settled /\ \E q \in h[k - 1] : p = AfterPass(q)

(* What is rendered is the last form of a row of passes.                   *)
LEMMA RenderedIsPassed ==
  ASSUME NEW old, NEW new \in TransferForms, NEW g \in Transfer!Rendered(old, new)
  PROVE  \E h, n : /\ n \in {Passes, Passes + 1} /\ \E p \in h[n] : g = p[2]
                   /\ \A k \in 0..n : Reached(new, h, k)
<1> DEFINE N == Passes + 1
<1>1. Passes \in Nat \ {0} /\ N \in Nat
  <2>1. Passes \in Nat \ {0}
    BY TransferConstants, Zenon
  <2>2. QED BY <2>1
<1>2. PICK h : /\ h = [n \in 0..N |-> NextPasses(old, new, h, n)]
               /\ Transfer!Rendered(old, new) = {p[2] : p \in h[Passes] \cup h[Passes + 1]}
  <2>1. PICK h : h = [n \in 0..N |-> NextPasses(old, new, h, n)]
    BY <1>1, PassesExist
  <2>2. QED BY <2>1 DEF Transfer!Rendered, NextPasses
<1> HIDE DEF N
<1>3. \A n \in 0..N : h[n] = NextPasses(old, new, h, n)
  BY <1>2
<1> DEFINE Bad == {n \in 0..N : ~Reached(new, h, n)}
<1>4. Bad = {}
  <2>1. SUFFICES ASSUME Bad # {} PROVE FALSE
    OBVIOUS
  <2>2. PICK n \in Bad : \A k \in Bad : n <= k
    <3>1. Bad \subseteq Nat
      OBVIOUS
    <3> HIDE DEF Bad
    <3>2. QED BY <2>1, <3>1, LeastNatural
  <2>3. n \in 0..N /\ ~Reached(new, h, n)
    OBVIOUS
  <2>4. CASE n = 0
    <3>1. h[n] = {<<old, new>>}
      BY <1>3, <2>3, <2>4 DEF NextPasses
    <3>2. Keeps(new, new)
      BY DEF Keeps
    <3>3. QED BY <2>3, <2>4, <3>1, <3>2 DEF Reached
  <2>5. CASE n # 0
    <3>1. n - 1 \in 0..N /\ n - 1 \notin Bad
      BY <1>1, <2>2, <2>3, <2>5
    <3>2. Reached(new, h, n - 1)
      BY <3>1
    <3>3. h[n] = {AfterPass(p) : p \in h[n - 1]}
      BY <1>3, <2>3, <2>5 DEF NextPasses, AfterPass
    <3>4. ASSUME NEW q \in h[n]
          PROVE  /\ q[2] \in TransferForms /\ Keeps(new, q[2]) /\ q[2] \in Settled
                 /\ \E p \in h[n - 1] : q = AfterPass(p)
      <4>1. PICK p \in h[n - 1] : q = AfterPass(p)
        BY <3>3
      <4>2. PICK f \in TransferForms : f = p[2] /\ Keeps(new, f)
        BY <3>2 DEF Reached
      <4>3. q[2] = Transfer!Pass(p[1], f)
        BY <4>1, <4>2 DEF AfterPass
      <4>4. Settles(f, q[2])
        BY <4>2, <4>3, PassSettles
      <4>5. QED BY <4>1, <4>2, <4>4, KeepsOn DEF Settles, Settled
    <3>5. QED BY <2>3, <2>5, <3>4 DEF Reached
  <2>6. QED BY <2>4, <2>5
<1>5. PICK n \in {Passes, Passes + 1} : \E p \in h[n] : g = p[2]
  BY <1>2
<1>6. \A k \in 0..n : k \in 0..N
  BY <1>1, <1>5 DEF N
<1>7. \A k \in 0..n : Reached(new, h, k)
  BY <1>4, <1>6
<1>8. QED BY <1>5, <1>7

(* However many passes follow an input, the form is one that settled, with *)
(* the amounts that were the user's.                                       *)
LEMMA RenderedSettles ==
  ASSUME NEW old, NEW new \in TransferForms, NEW g \in Transfer!Rendered(old, new)
  PROVE  Settles(new, g)
<1>1. PICK h, n : /\ n \in {Passes, Passes + 1} /\ \E p \in h[n] : g = p[2]
                  /\ \A k \in 0..n : Reached(new, h, k)
  BY RenderedIsPassed
<1>2. n \in 0..n /\ n # 0
  <2>1. Passes \in Nat \ {0}
    BY TransferConstants, Zenon
  <2>2. QED BY <1>1, <2>1
<1>3. QED BY <1>1, <1>2 DEF Reached, Settles

-----------------------------------------------------------------------------
(* Drafts and inputs of the transfer form                                  *)

LEMMA DraftFields ==
  ASSUME NEW d \in Transfer!Drafts
  PROVE  /\ d.legs \in [Sides -> Transfer!TransferLegs] /\ d.fee \in Transfer!Fees /\ d.fee \in FeeShapes
         /\ d.rate \in Nat /\ d.mode \in {"MULTIPLY", "DIVIDE"}
<1>1. d.fee \in Transfer!Fees
  BY DEF Transfer!Drafts
<1>2. d.fee \in FeeShapes
  BY <1>1, SameSets
<1>3. QED BY <1>1, <1>2 DEF Transfer!Drafts, Sides

LEMMA DraftOnForm ==
  ASSUME NEW f \in TransferForms, NEW d, NEW edited \in BOOLEAN,
         d.legs \in [Sides -> Transfer!TransferLegs], d.fee \in Transfer!Fees, d.rate \in Nat,
         d.mode \in {"MULTIPLY", "DIVIDE"}
  PROVE  Transfer!WithDraft(f, d, edited) \in Settled
<1>1. PICK g : g = Transfer!WithDraft(f, d, edited)
  OBVIOUS
<1>2. d.fee \in FeeShapes /\ "out" \in Sides
  BY SameSets
<1>3. g = [f EXCEPT !.legs = d.legs, !.fee = d.fee, !.rate = d.rate, !.mode = d.mode,
                    !.first = "out", !.edited = edited]
  BY <1>1 DEF Transfer!WithDraft
<1>4. g \in TransferForms /\ g.fee = d.fee
  BY <1>2, <1>3 DEF TransferForms
<1>5. QED BY <1>1, <1>4 DEF Settled

LEMMA RestoredIsForm ==
  ASSUME NEW f \in TransferForms, NEW d \in Transfer!Drafts
  PROVE  Transfer!Restored(f, d) \in Settled
<1>1. PICK edited \in BOOLEAN : Transfer!Restored(f, d) = Transfer!WithDraft(f, d, edited)
  <2>1. Transfer!TwoAmounts(d) \in BOOLEAN
    BY DEF Transfer!TwoAmounts
  <2>2. QED BY <2>1 DEF Transfer!Restored
<1>2. QED BY <1>1, DraftFields, DraftOnForm

LEMMA BlankIsForm ==
  /\ Transfer!Blank \in Settled
  /\ \A f \in TransferForms : Transfer!Cleared(f) \in Settled
<1>1. PICK b : b = Transfer!Blank
  OBVIOUS
<1>2. PICK leg : leg = Transfer!BlankLeg
  OBVIOUS
<1>3. leg \in Transfer!TransferLegs
  BY <1>2, SameSets DEF Transfer!BlankLeg, Transfer!TransferLegs, Maybe
<1>4. PICK fee : fee = Transfer!BlankFee
  OBVIOUS
<1>5. fee \in FeeShapes /\ fee.treatment = "APARTE"
  BY <1>4 DEF Transfer!BlankFee, FeeShapes, Maybe
<1>6. fee \in Transfer!Fees
  BY <1>5, SameSets
<1>7. PICK lists, asked : lists = [a \in Accounts |-> "absent"] /\ asked = [a \in Accounts |-> 0]
  OBVIOUS
<1>8. lists \in [Accounts -> {"absent", "here", "failed"}] /\ asked \in [Accounts -> 0..MaxAsked]
  <2>1. MaxAsked \in Nat
    BY TransferConstants
  <2>2. QED BY <1>7, <2>1
<1>9. b = [legs |-> [side \in Sides |-> leg], fee |-> fee, rate |-> 0, mode |-> "MULTIPLY",
           first |-> "out", edited |-> FALSE, functional |-> "", fx |-> TRUE,
           lists |-> lists, asked |-> asked]
  BY <1>1, <1>2, <1>4, <1>7 DEF Transfer!Blank, Sides
<1>10. /\ b.legs \in [Sides -> Transfer!TransferLegs] /\ b.fee = fee /\ b.rate = 0
       /\ b.mode = "MULTIPLY"
  BY <1>3, <1>9
<1>11. b \in TransferForms
  BY <1>3, <1>5, <1>8, <1>9, SameSets DEF TransferForms
<1>12. b \in Settled
  BY <1>6, <1>10, <1>11 DEF Settled
<1>13. \A f \in TransferForms : Transfer!WithDraft(f, b, FALSE) \in Settled
  <2>1. b.legs \in [Sides -> Transfer!TransferLegs] /\ b.fee \in Transfer!Fees
    BY <1>6, <1>10
  <2>2. b.rate \in Nat /\ b.mode \in {"MULTIPLY", "DIVIDE"}
    BY <1>10
  <2>3. FALSE \in BOOLEAN
    OBVIOUS
  <2>4. QED BY <2>1, <2>2, <2>3, DraftOnForm, Zenon
<1>14. QED BY <1>1, <1>12, <1>13 DEF Transfer!Cleared

LEMMA DraftIsKept ==
  ASSUME NEW f \in Settled
  PROVE  Transfer!buildDraftData(f) \in Transfer!Drafts
<1>1. /\ f.legs \in [Sides -> Transfer!TransferLegs] /\ f.fee \in Transfer!Fees /\ f.rate \in Nat
      /\ f.mode \in {"MULTIPLY", "DIVIDE"}
  BY TransferFields DEF Settled
<1>2. PICK rate \in Nat : rate = IF Transfer!needsFxQuote(f) THEN f.rate ELSE 0
  BY <1>1
<1>3. PICK mode \in {"MULTIPLY", "DIVIDE"} :
        mode = IF Transfer!needsFxQuote(f) /\ f.rate > 0 THEN f.mode ELSE "MULTIPLY"
  BY <1>1
<1>4. Transfer!buildDraftData(f) = [legs |-> f.legs, fee |-> f.fee, rate |-> rate, mode |-> mode]
  BY <1>2, <1>3 DEF Transfer!buildDraftData
<1>5. QED BY <1>1, <1>4 DEF Transfer!Drafts, Sides

(* The formats a list has for an account and a currency are those offered. *)
LEMMA ListedFormats ==
  ASSUME NEW f \in TransferForms, NEW a \in Maybe(Accounts), NEW c \in Maybe(Currencies)
  PROVE  /\ Transfer!formatsFor(f, a, c) \subseteq Formats
         /\ Transfer!formatsFor(f, a, c) # {} => a \in Accounts /\ c \in Currencies
         /\ \A x \in Transfer!formatsFor(f, a, c) : Transfer!PairTakes(a, c, x)
<1>1. CASE a = "" \/ f.lists[a] # "here" \/ c = ""
  <2>1. Transfer!formatsFor(f, a, c) = {}
    BY <1>1 DEF Transfer!formatsFor, Transfer!AllowedFormats, Transfer!List
  <2>2. QED BY <2>1
<1>2. CASE a # "" /\ f.lists[a] = "here" /\ c # ""
  <2>1. a \in Accounts /\ c \in Currencies
    BY <1>2 DEF Maybe
  <2>2. Transfer!formatsFor(f, a, c) = TransferOffers[a, c]
    BY <1>2 DEF Transfer!formatsFor, Transfer!AllowedFormats, Transfer!List
  <2>3. TransferOffers[a, c] \in SUBSET {"CASH", "DIGITAL"}
    BY <2>1, TransferConstants
  <2>4. QED BY <2>1, <2>2, <2>3 DEF Formats, Transfer!PairTakes
<1>3. QED BY <1>1, <1>2

LEMMA FirstIsListed ==
  ASSUME NEW formats \in SUBSET Formats
  PROVE  Transfer!FirstFormat(formats) \in formats \cup {""}
BY DEF Transfer!FirstFormat, Formats

LEMMA ListedCurrencies == \A list : Transfer!Shown(list) \subseteq Currencies
BY DEF Transfer!Shown

LEMMA LegChosen ==
  ASSUME NEW f \in TransferForms, NEW s \in Sides, NEW leg \in Transfer!LegsFor(f, s)
  PROVE  leg \in Transfer!TransferLegs
<1>1. PICK l : l = f.legs[s]
  OBVIOUS
<1>2. l \in Transfer!TransferLegs
  BY <1>1, TransferFields
<1>3. PICK formats : formats = Transfer!formatsFor(f, l.account, l.currency)
  OBVIOUS
<1>4. formats \in SUBSET Formats /\ \A x \in formats : Transfer!PairTakes(l.account, l.currency, x)
  BY <1>2, <1>3, TransferLegFields, ListedFormats
<1>5. ASSUME NEW a \in Maybe(Accounts), leg = [l EXCEPT !.account = a, !.currency = "", !.format = ""]
      PROVE  leg \in Transfer!TransferLegs
  BY <1>2, <1>5, SameSets DEF Transfer!TransferLegs, Maybe
<1>6. ASSUME NEW c \in Currencies, l.account # "",
             leg = [l EXCEPT !.currency = c, !.format = Transfer!FirstFormat(Transfer!formatsFor(f, l.account, c))]
      PROVE  leg \in Transfer!TransferLegs
  <2>1. l.account \in Maybe(Accounts) /\ c \in Maybe(Currencies) /\ c # ""
    BY <1>2, TransferLegFields, TransferConstants DEF Maybe
  <2>2. PICK fs : fs = Transfer!formatsFor(f, l.account, c)
    OBVIOUS
  <2>3. fs \in SUBSET Formats /\ \A x \in fs : Transfer!PairTakes(l.account, c, x)
    BY <2>1, <2>2, ListedFormats
  <2>4. PICK x : x = Transfer!FirstFormat(fs)
    OBVIOUS
  <2>5. x \in Maybe(Formats) /\ (x # "" => Transfer!PairTakes(l.account, c, x))
    BY <2>3, <2>4, FirstIsListed DEF Maybe
  <2>6. leg = [l EXCEPT !.currency = c, !.format = x]
    BY <1>6, <2>2, <2>4
  <2>7. QED BY <1>2, <1>6, <2>1, <2>5, <2>6, SameSets DEF Transfer!TransferLegs
<1>7. ASSUME leg = [l EXCEPT !.currency = "", !.format = Transfer!FirstFormat(Transfer!formatsFor(f, l.account, ""))]
      PROVE  leg \in Transfer!TransferLegs
  <2>1. Transfer!FirstFormat(Transfer!formatsFor(f, l.account, "")) = ""
    BY DEF Transfer!FirstFormat, Transfer!formatsFor, Transfer!AllowedFormats
  <2>2. leg = [l EXCEPT !.currency = "", !.format = ""]
    BY <1>7, <2>1
  <2>3. QED BY <1>2, <2>2, SameSets DEF Transfer!TransferLegs, Maybe
<1>8. ASSUME NEW x \in formats \cup {""}, l.currency # "", leg = [l EXCEPT !.format = x]
      PROVE  leg \in Transfer!TransferLegs
  <2>1. x \in Maybe(Formats) /\ (x # "" => Transfer!PairTakes(l.account, l.currency, x))
    BY <1>4, <1>8 DEF Maybe
  <2>2. QED BY <1>2, <1>8, <2>1, SameSets DEF Transfer!TransferLegs
<1>9. ASSUME leg = [l EXCEPT !.pending = ~l.pending]
      PROVE  leg \in Transfer!TransferLegs
  BY <1>2, <1>9 DEF Transfer!TransferLegs
<1>10. CASE \E a \in Maybe(Accounts) : leg = [l EXCEPT !.account = a, !.currency = "", !.format = ""]
  BY <1>5, <1>10
<1>11. CASE \E c \in Maybe(Transfer!Shown(Transfer!List(f, l.account))) :
              leg = [l EXCEPT !.currency = c,
                              !.format = Transfer!FirstFormat(Transfer!formatsFor(f, l.account, c))]
  <2>1. PICK c \in Maybe(Transfer!Shown(Transfer!List(f, l.account))) :
              leg = [l EXCEPT !.currency = c,
                              !.format = Transfer!FirstFormat(Transfer!formatsFor(f, l.account, c))]
    BY <1>11
  <2>2. CASE c = ""
    BY <1>7, <2>1, <2>2
  <2>3. CASE c # ""
    <3>1. c \in Transfer!Shown(Transfer!List(f, l.account))
      BY <2>3 DEF Maybe
    <3>2. l.account # ""
      BY <3>1 DEF Transfer!Shown, Transfer!List, Transfer!AllowedFormats
    <3>3. QED BY <1>6, <2>1, <3>1, <3>2, ListedCurrencies
  <2>4. QED BY <2>2, <2>3
<1>12. CASE l.currency # "" /\ \E x \in formats \cup {""} : leg = [l EXCEPT !.format = x]
  BY <1>8, <1>12
<1>13. CASE leg = [l EXCEPT !.pending = ~l.pending]
  BY <1>9, <1>13
<1>14. QED
  <2>1. \/ \E a \in Maybe(Accounts) : leg = [l EXCEPT !.account = a, !.currency = "", !.format = ""]
        \/ \E c \in Maybe(Transfer!Shown(Transfer!List(f, l.account))) :
              leg = [l EXCEPT !.currency = c,
                              !.format = Transfer!FirstFormat(Transfer!formatsFor(f, l.account, c))]
        \/ l.currency # "" /\ \E x \in formats \cup {""} : leg = [l EXCEPT !.format = x]
        \/ leg = [l EXCEPT !.pending = ~l.pending]
    BY <1>1, <1>3, SameSets DEF Transfer!LegsFor, Maybe
  <2>2. QED BY <1>10, <1>11, <1>12, <1>13, <2>1

LEMMA FormChanged ==
  ASSUME NEW f \in TransferForms
  PROVE  /\ \A s \in Sides, leg \in Transfer!TransferLegs : [f EXCEPT !.legs[s] = leg] \in TransferForms
         /\ \A e \in BOOLEAN : [f EXCEPT !.edited = e] \in TransferForms
         /\ \A fee \in FeeShapes : [f EXCEPT !.fee = fee] \in TransferForms
         /\ \A r \in Nat : [f EXCEPT !.rate = r] \in TransferForms
         /\ \A m \in {"MULTIPLY", "DIVIDE"} : [f EXCEPT !.mode = m] \in TransferForms
         /\ \A s \in Sides : [f EXCEPT !.first = s] \in TransferForms
<1>1. ASSUME NEW s \in Sides, NEW leg \in Transfer!TransferLegs
      PROVE  [f EXCEPT !.legs[s] = leg] \in TransferForms
  <2>1. PICK legs : legs = [f.legs EXCEPT ![s] = leg]
    OBVIOUS
  <2>2. legs \in [Sides -> Transfer!TransferLegs]
    BY <2>1, TransferFields
  <2>3. [f EXCEPT !.legs[s] = leg] = [f EXCEPT !.legs = legs]
    BY <2>1 DEF TransferForms
  <2>4. QED BY <2>2, <2>3 DEF TransferForms
<1>2. QED BY <1>1 DEF TransferForms

LEMMA FeeChanged ==
  ASSUME NEW fee \in FeeShapes
  PROVE  /\ \A b \in BOOLEAN : [fee EXCEPT !.on = b] \in FeeShapes /\ [fee EXCEPT !.pending = b] \in FeeShapes
         /\ \A m \in {"PERCENT", "FIXED"} : [fee EXCEPT !.mode = m] \in FeeShapes
         /\ \A v \in Nat : [fee EXCEPT !.value = v] \in FeeShapes
         /\ \A t \in {"APARTE", "INCLUIDA"} : [fee EXCEPT !.treatment = t] \in FeeShapes
         /\ \A p \in {"CLIENTE_PAGA", "NOSOTROS_PAGAMOS"} : [fee EXCEPT !.payer = p] \in FeeShapes
         /\ \A a \in Maybe(Accounts) : [fee EXCEPT !.account = a] \in FeeShapes
         /\ \A a \in Maybe(Accounts) : [fee EXCEPT !.account = a, !.currency = "", !.format = ""] \in FeeShapes
         /\ \A c \in Maybe(Currencies), x \in Maybe(Formats) :
              [fee EXCEPT !.currency = c, !.format = x] \in FeeShapes
         /\ \A x \in Maybe(Formats) : [fee EXCEPT !.format = x] \in FeeShapes
<1>1. "" \in Maybe(Currencies) /\ "" \in Maybe(Formats)
  BY DEF Maybe
<1>2. QED BY <1>1 DEF FeeShapes

LEMMA LegAmountsAreForms ==
  ASSUME NEW f \in TransferForms, NEW s \in Sides, NEW g \in Transfer!LegAmounts(f, s)
  PROVE  g \in TransferForms
<1>1. PICK x \in TransferAmounts \cup {Transfer!Unset} :
        g = [f EXCEPT !.legs[s].amount = x, !.edited = s # f.first]
  BY DEF Transfer!LegAmounts
<1>2. PICK leg : leg = [f.legs[s] EXCEPT !.amount = x]
  OBVIOUS
<1>3. leg \in Transfer!TransferLegs
  <2>1. TransferAmounts \subseteq Nat
    <3>1. TransferAmounts \subseteq Nat \ {0}
      BY TransferConstants, Zenon
    <3>2. QED BY <3>1
  <2>2. QED BY <1>2, <2>1, TransferFields, TransferLegFields
<1>4. PICK h : h = [f EXCEPT !.legs[s] = leg]
  OBVIOUS
<1>5. h \in TransferForms
  BY <1>3, <1>4, FormChanged
<1>6. g = [h EXCEPT !.edited = s # f.first]
  BY <1>1, <1>2, <1>4 DEF TransferForms
<1>7. QED BY <1>5, <1>6, FormChanged

LEMMA QuotesAreForms ==
  ASSUME NEW f \in TransferForms, NEW g \in Transfer!Quotes(f)
  PROVE  g \in TransferForms
<1>1. CASE \E r \in TransferRates \cup {0} : g = [f EXCEPT !.rate = r, !.edited = FALSE]
  <2>1. PICK r \in TransferRates \cup {0} : g = [f EXCEPT !.rate = r, !.edited = FALSE]
    BY <1>1
  <2>2. r \in Nat
    <3>1. TransferRates \subseteq Nat \ {0}
      BY TransferConstants, Zenon
    <3>2. QED BY <3>1
  <2>3. [f EXCEPT !.rate = r] \in TransferForms
    BY <2>2, FormChanged
  <2>4. QED BY <2>1, <2>3, FormChanged
<1>2. CASE g = [f EXCEPT !.mode = Transfer!InverseMode(f.mode), !.edited = FALSE]
  <2>1. PICK m \in {"MULTIPLY", "DIVIDE"} : m = Transfer!InverseMode(f.mode)
    BY DEF Transfer!InverseMode
  <2>2. [f EXCEPT !.mode = m] \in TransferForms
    BY FormChanged
  <2>3. QED BY <1>2, <2>1, <2>2, FormChanged
<1>3. QED BY <1>1, <1>2 DEF Transfer!Quotes

(* A change of the fee.                                                    *)
LEMMA FeeInputsAreForms ==
  ASSUME NEW f \in TransferForms,
         NEW g \in Transfer!FeeAccounts(f) \cup Transfer!FeeCurrencies(f)
                     \cup Transfer!FeeFormats(f) \cup Transfer!FeeSettings(f)
  PROVE  g \in TransferForms
<1>0. PICK fee \in FeeShapes : fee = f.fee
  BY TransferFields
<1>1. \A new \in FeeShapes : /\ [f EXCEPT !.fee = new] \in TransferForms
                             /\ [f EXCEPT !.fee = new, !.edited = FALSE] \in TransferForms
  <2>1. TAKE new \in FeeShapes
  <2>2. [f EXCEPT !.fee = new] \in TransferForms
    BY FormChanged
  <2>3. QED BY <2>2, FormChanged
<1>2. \A new \in FeeShapes : g = [f EXCEPT !.fee = new] \/ g = [f EXCEPT !.fee = new, !.edited = FALSE]
                               => g \in TransferForms
  BY <1>1
<1>3. CASE g \in Transfer!FeeAccounts(f)
  <2>1. PICK a \in Maybe(Accounts) :
          g = [f EXCEPT !.fee = IF f.fee.currency \in Transfer!Shown(Transfer!List(f, a))
                                THEN [f.fee EXCEPT !.account = a]
                                ELSE [f.fee EXCEPT !.account = a, !.currency = "", !.format = ""],
                        !.edited = FALSE]
    BY <1>3, SameSets DEF Transfer!FeeAccounts
  <2>2. PICK new \in FeeShapes :
          new = IF fee.currency \in Transfer!Shown(Transfer!List(f, a))
                THEN [fee EXCEPT !.account = a]
                ELSE [fee EXCEPT !.account = a, !.currency = "", !.format = ""]
    BY FeeChanged
  <2>3. QED BY <1>0, <1>2, <2>1, <2>2
<1>4. CASE g \in Transfer!FeeCurrencies(f)
  <2>0. PICK c \in Maybe(Transfer!feeLegCurrencyOptions(f)) :
          \E a : g = [f EXCEPT !.fee.currency = c,
                               !.fee.format = Transfer!FirstFormat(Transfer!formatsFor(f, a, c)),
                               !.edited = FALSE]
    BY <1>4, SameSets DEF Transfer!FeeCurrencies
  <2>1. PICK a : g = [f EXCEPT !.fee.currency = c,
                               !.fee.format = Transfer!FirstFormat(Transfer!formatsFor(f, a, c)),
                               !.edited = FALSE]
    BY <2>0
  <2>2. PICK x \in Maybe(Formats) : x = Transfer!FirstFormat(Transfer!formatsFor(f, a, c))
    BY FirstFormats
  <2>3. c \in Maybe(Currencies)
    BY ListedCurrencies DEF Transfer!feeLegCurrencyOptions, Maybe
  <2>4. PICK new \in FeeShapes : new = [fee EXCEPT !.currency = c, !.format = x]
    BY <2>3, FeeChanged
  <2>5. g = [f EXCEPT !.fee = new, !.edited = FALSE]
    BY <1>0, <2>1, <2>2, <2>4 DEF TransferForms
  <2>6. QED BY <1>2, <2>5
<1>5. CASE g \in Transfer!FeeFormats(f)
  <2>1. PICK x \in Maybe(Transfer!formatsFor(f, f.fee.account, f.fee.currency)) :
          g = [f EXCEPT !.fee.format = x, !.edited = FALSE]
    BY <1>5, SameSets DEF Transfer!FeeFormats
  <2>2. x \in Maybe(Formats)
    BY <1>0, FeeFields, ListedFormats DEF Maybe
  <2>3. PICK new \in FeeShapes : new = [fee EXCEPT !.format = x]
    BY <2>2, FeeChanged
  <2>4. g = [f EXCEPT !.fee = new, !.edited = FALSE]
    BY <1>0, <2>1, <2>3 DEF TransferForms
  <2>5. QED BY <1>2, <2>4
<1>6. CASE g \in Transfer!FeeSettings(f)
  <2>1. \/ \E p \in {"CLIENTE_PAGA", "NOSOTROS_PAGAMOS"} : g = [f EXCEPT !.fee.payer = p]
        \/ \E m \in {"PERCENT", "FIXED"} : g = [f EXCEPT !.fee.mode = m, !.edited = FALSE]
        \/ \E t \in {"APARTE", "INCLUIDA"} : g = [f EXCEPT !.fee.treatment = t, !.edited = FALSE]
        \/ \E v \in FeeValues \cup {0} : g = [f EXCEPT !.fee.value = v, !.edited = FALSE]
        \/ g = [f EXCEPT !.fee.pending = ~f.fee.pending, !.edited = FALSE]
    BY <1>6 DEF Transfer!FeeSettings
  <2>2. CASE \E p \in {"CLIENTE_PAGA", "NOSOTROS_PAGAMOS"} : g = [f EXCEPT !.fee.payer = p]
    <3>1. PICK p \in {"CLIENTE_PAGA", "NOSOTROS_PAGAMOS"} : g = [f EXCEPT !.fee.payer = p]
      BY <2>2
    <3>2. PICK new \in FeeShapes : new = [fee EXCEPT !.payer = p]
      BY FeeChanged
    <3>3. g = [f EXCEPT !.fee = new]
      BY <1>0, <3>1, <3>2 DEF TransferForms
    <3>4. QED BY <1>2, <3>3
  <2>3. CASE \E m \in {"PERCENT", "FIXED"} : g = [f EXCEPT !.fee.mode = m, !.edited = FALSE]
    <3>1. PICK m \in {"PERCENT", "FIXED"} : g = [f EXCEPT !.fee.mode = m, !.edited = FALSE]
      BY <2>3
    <3>2. PICK new \in FeeShapes : new = [fee EXCEPT !.mode = m]
      BY FeeChanged
    <3>3. g = [f EXCEPT !.fee = new, !.edited = FALSE]
      BY <1>0, <3>1, <3>2 DEF TransferForms
    <3>4. QED BY <1>2, <3>3
  <2>4. CASE \E t \in {"APARTE", "INCLUIDA"} : g = [f EXCEPT !.fee.treatment = t, !.edited = FALSE]
    <3>1. PICK t \in {"APARTE", "INCLUIDA"} : g = [f EXCEPT !.fee.treatment = t, !.edited = FALSE]
      BY <2>4
    <3>2. PICK new \in FeeShapes : new = [fee EXCEPT !.treatment = t]
      BY FeeChanged
    <3>3. g = [f EXCEPT !.fee = new, !.edited = FALSE]
      BY <1>0, <3>1, <3>2 DEF TransferForms
    <3>4. QED BY <1>2, <3>3
  <2>5. CASE \E v \in FeeValues \cup {0} : g = [f EXCEPT !.fee.value = v, !.edited = FALSE]
    <3>1. PICK v \in FeeValues \cup {0} : g = [f EXCEPT !.fee.value = v, !.edited = FALSE]
      BY <2>5
    <3>2. v \in Nat
      <4>1. FeeValues \subseteq Nat \ {0}
        BY TransferConstants, Zenon
      <4>2. QED BY <4>1
    <3>3. PICK new \in FeeShapes : new = [fee EXCEPT !.value = v]
      BY <3>2, FeeChanged
    <3>4. g = [f EXCEPT !.fee = new, !.edited = FALSE]
      BY <1>0, <3>1, <3>3 DEF TransferForms
    <3>5. QED BY <1>2, <3>4
  <2>6. CASE g = [f EXCEPT !.fee.pending = ~f.fee.pending, !.edited = FALSE]
    <3>1. PICK new \in FeeShapes : new = [fee EXCEPT !.pending = ~fee.pending]
      BY FeeChanged
    <3>2. g = [f EXCEPT !.fee = new, !.edited = FALSE]
      BY <1>0, <2>6, <3>1 DEF TransferForms
    <3>3. QED BY <1>2, <3>2
  <2>7. QED BY <2>1, <2>2, <2>3, <2>4, <2>5, <2>6
<1>7. QED BY <1>3, <1>4, <1>5, <1>6

LEMMA InputsAreForms ==
  ASSUME NEW f \in TransferForms, NEW g \in Transfer!Inputs(f)
  PROVE  g \in TransferForms
<1>1. \/ \E s \in Sides : g \in Transfer!LegAmounts(f, s)
      \/ \E s \in Sides : \E leg \in Transfer!LegsFor(f, s) : g = [f EXCEPT !.legs[s] = leg]
      \/ g = [f EXCEPT !.first = Transfer!Other(f.first), !.edited = FALSE]
      \/ g = [f EXCEPT !.fee.on = ~f.fee.on, !.edited = FALSE]
      \/ g \in Transfer!Quotes(f)
      \/ g \in Transfer!FeeAccounts(f) \cup Transfer!FeeCurrencies(f)
                 \cup Transfer!FeeFormats(f) \cup Transfer!FeeSettings(f)
  <2>1. PICK legs : legs = UNION {Transfer!LegAmounts(f, s)
                                    \cup {[f EXCEPT !.legs[s] = leg] : leg \in Transfer!LegsFor(f, s)} :
                                  s \in Transfer!Sides}
    OBVIOUS
  <2>2. g \in legs =>
          \/ \E s \in Sides : g \in Transfer!LegAmounts(f, s)
          \/ \E s \in Sides : \E leg \in Transfer!LegsFor(f, s) : g = [f EXCEPT !.legs[s] = leg]
    BY <2>1 DEF Sides
  <2>3. PICK fees : fees = Transfer!FeeAccounts(f) \cup Transfer!FeeCurrencies(f)
                             \cup Transfer!FeeFormats(f) \cup Transfer!FeeSettings(f)
    OBVIOUS
  <2>4. \/ g \in legs
        \/ g \in {[f EXCEPT !.first = Transfer!Other(f.first), !.edited = FALSE],
                  [f EXCEPT !.fee.on = ~f.fee.on, !.edited = FALSE]}
        \/ g \in Transfer!Quotes(f)
        \/ g \in fees
    BY <2>1, <2>3 DEF Transfer!Inputs
  <2>5. QED BY <2>2, <2>3, <2>4
<1>2. CASE \E s \in Sides : g \in Transfer!LegAmounts(f, s)
  <2>1. PICK s \in Sides : g \in Transfer!LegAmounts(f, s)
    BY <1>2
  <2>2. QED BY <2>1, LegAmountsAreForms, Zenon
<1>3. CASE \E s \in Sides : \E leg \in Transfer!LegsFor(f, s) : g = [f EXCEPT !.legs[s] = leg]
  <2>0. PICK s \in Sides : \E leg \in Transfer!LegsFor(f, s) : g = [f EXCEPT !.legs[s] = leg]
    BY <1>3
  <2>1. PICK leg \in Transfer!LegsFor(f, s) : g = [f EXCEPT !.legs[s] = leg]
    BY <2>0
  <2>2. leg \in Transfer!TransferLegs
    BY LegChosen
  <2>3. QED BY <2>1, <2>2, FormChanged
<1>4. CASE g = [f EXCEPT !.first = Transfer!Other(f.first), !.edited = FALSE]
  <2>1. f.first \in Sides
    BY TransferFields
  <2>2. PICK s \in Sides : s = Transfer!Other(f.first)
    BY <2>1, OtherSide
  <2>3. [f EXCEPT !.first = s] \in TransferForms
    BY FormChanged
  <2>4. QED BY <1>4, <2>2, <2>3, FormChanged
<1>5. CASE g = [f EXCEPT !.fee.on = ~f.fee.on, !.edited = FALSE]
  <2>1. PICK fee \in FeeShapes : fee = f.fee
    BY TransferFields
  <2>2. PICK new \in FeeShapes : new = [fee EXCEPT !.on = ~fee.on]
    BY FeeChanged
  <2>3. g = [[f EXCEPT !.fee = new] EXCEPT !.edited = FALSE]
    BY <1>5, <2>1, <2>2 DEF TransferForms
  <2>4. [f EXCEPT !.fee = new] \in TransferForms
    BY FormChanged
  <2>5. QED BY <2>3, <2>4, FormChanged
<1>6. CASE g \in Transfer!Quotes(f)
  BY <1>6, QuotesAreForms
<1>7. QED BY <1>1, <1>2, <1>3, <1>4, <1>5, <1>6, FeeInputsAreForms

-----------------------------------------------------------------------------
(* What the transfer form sends                                            *)

(* What an effect writes.                                                  *)
LEMMA AmountWritten ==
  ASSUME NEW g \in TransferForms, NEW s, NEW x, NEW h, h = [g EXCEPT !.legs[s].amount = x]
  PROVE  h.fee = g.fee
<1>1. PICK legs : legs = [g.legs EXCEPT ![s].amount = x]
  OBVIOUS
<1>2. h = [g EXCEPT !.legs = legs]
  BY <1>1 DEF TransferForms
<1>3. QED BY <1>2 DEF TransferForms

LEMMA DropWritten ==
  ASSUME NEW f, NEW g \in TransferForms
  PROVE  Transfer!DropCurrency(f, g) = g \/ Transfer!DropCurrency(f, g).fee.currency = ""
<1>1. PICK fee : fee = [g.fee EXCEPT !.currency = "", !.format = ""]
  OBVIOUS
<1>2. PICK h : h = [g EXCEPT !.fee = fee]
  OBVIOUS
<1>3. [g EXCEPT !.fee.currency = "", !.fee.format = ""] = h
  BY <1>1, <1>2 DEF TransferForms
<1>4. g.fee \in FeeShapes
  BY TransferFields
<1>5. fee.currency = ""
  BY <1>1, <1>4 DEF FeeShapes
<1>6. h.fee.currency = ""
  BY <1>2, <1>5 DEF TransferForms
<1>7. Transfer!DropCurrency(f, g) \in {g, h}
  BY <1>3 DEF Transfer!DropCurrency
<1>8. QED BY <1>6, <1>7

LEMMA DefaultWritten ==
  ASSUME NEW f, NEW g \in TransferForms
  PROVE  Transfer!DefaultCurrency(f, g).legs = g.legs
<1>1. PICK c : c = Transfer!CurrencyOf(f, f.first)
  OBVIOUS
<1>2. PICK x : x = Transfer!FirstFormat(Transfer!formatsFor(f,
                     f.legs[IF c = Transfer!CurrencyOf(f, "out") /\ f.legs["out"].account # ""
                            THEN "out" ELSE "in"].account, c))
  OBVIOUS
<1>3. PICK fee : fee = [g.fee EXCEPT !.currency = c, !.format = x]
  OBVIOUS
<1>4. PICK h : h = [g EXCEPT !.fee = fee]
  OBVIOUS
<1>5. [g EXCEPT !.fee.currency = c, !.fee.format = x] = h
  BY <1>3, <1>4 DEF TransferForms
<1>6. h.legs = g.legs
  BY <1>4 DEF TransferForms
<1>7. Transfer!DefaultCurrency(f, g) \in {g, h}
  BY <1>1, <1>2, <1>5 DEF Transfer!DefaultCurrency
<1>8. QED BY <1>6, <1>7

(* A form whose effects are at rest: the fee goes through a leg in its     *)
(* currency, and a suggestion is what the quote makes of the first amount. *)
LEMMA AtRestFollows ==
  ASSUME NEW f \in Settled, Transfer!Pass(f, f) = f
  PROVE  /\ /\ f.fee.on /\ f.fee.currency # "" /\ Transfer!FeeSides(f) # {}
            /\ \A s \in Sides : Transfer!Ready(f.legs[s])
            => \E t \in Sides : /\ f.legs[t].currency = f.fee.currency
                               /\ f.fee.account = f.legs[t].account
                               /\ f.fee.format = f.legs[t].format
         /\ Transfer!needsFxQuote(f) /\ ~f.edited /\ Transfer!Sum(f) > 0 /\ f.rate > 0
              => f.legs[Transfer!Second(f)].amount = Transfer!computeCounterpartFromAnchor(f)
<1>0. f \in TransferForms
  BY DEF Settled
<1>1. PICK g2 : g2 = Transfer!FollowLeg(f, f)
  OBVIOUS
<1>2. PICK g3 : g3 = Transfer!DropCurrency(f, g2)
  OBVIOUS
<1>3. PICK g4 : g4 = Transfer!SuggestByQuote(f, g3)
  OBVIOUS
<1>4. PICK g5 : g5 = Transfer!SuggestByFee(f, g4)
  OBVIOUS
<1>5. PICK g : g = Transfer!DefaultCurrency(f, g5)
  OBVIOUS
<1>6. g = f
  <2>1. Transfer!IncludedIsReal(f, f) = f
    BY <1>0, TickGoes
  <2>2. QED BY <1>1, <1>2, <1>3, <1>4, <1>5, <2>1 DEF Transfer!Pass
<1>7. Settles(f, f)
  BY DEF Settles, Keeps
<1>8. Settles(f, g2)
  BY <1>0, <1>1, <1>7, FollowLegSettles
<1>9. Settles(f, g3)
  BY <1>0, <1>2, <1>8, DropCurrencySettles
<1>10. Settles(f, g4)
  BY <1>0, <1>3, <1>9, SuggestionsSettle
<1>11. Settles(f, g5)
  BY <1>0, <1>4, <1>10, SuggestionsSettle
<1>12. \A h : Settles(f, h) => h \in TransferForms /\ h.fee \in FeeShapes
  BY TransferFields DEF Settles, Settled
<1>13. g4.fee = g3.fee /\ g5.fee = g4.fee
  <2>1. f.first \in Sides
    BY <1>0, TransferFields
  <2>2. PICK s \in Sides : s = Transfer!Second(f)
    BY <2>1, OtherSide DEF Transfer!Second
  <2>3. PICK x, y : /\ x = Transfer!computeCounterpartFromAnchor(f)
                    /\ y = Transfer!computeSuggestedSecondLegAmount(f)
    OBVIOUS
  <2>4. /\ g4 = g3 \/ g4 = [g3 EXCEPT !.legs[s].amount = x]
        /\ g5 = g4 \/ g5 = [g4 EXCEPT !.legs[s].amount = y]
    BY <1>3, <1>4, <2>2, <2>3 DEF Transfer!SuggestByQuote, Transfer!SuggestByFee
  <2>5. g4.fee = g3.fee
    BY <1>9, <1>12, <2>4, AmountWritten
  <2>6. g5.fee = g4.fee
    BY <1>10, <1>12, <2>4, AmountWritten
  <2>7. QED BY <2>5, <2>6
<1>14. ASSUME f.fee.on, f.fee.currency # "",
              Transfer!FeeSides(f) # {}, \A s \in Sides : Transfer!Ready(f.legs[s])
       PROVE  \E t \in Sides : /\ f.legs[t].currency = f.fee.currency
                               /\ f.fee.account = f.legs[t].account
                               /\ f.fee.format = f.legs[t].format
  <2>1. PICK sides : sides = {t \in Transfer!FeeSides(f) : Transfer!Ready(f.legs[t])}
    OBVIOUS
  <2>2. sides # {} /\ sides \subseteq Sides /\ sides = Transfer!FeeSides(f)
    BY <1>14, <2>1 DEF Transfer!FeeSides, Sides
  <2>3. PICK t \in Sides : t = IF "out" \in sides THEN "out" ELSE "in"
    BY SameSets
  <2>4. t \in Transfer!FeeSides(f)
    BY <2>2, <2>3, SameSets
  <2>5. f.legs[t].currency = f.fee.currency
    BY <2>4 DEF Transfer!FeeSides, Transfer!CurrencyOf
  <2>6. g2 = [f EXCEPT !.fee.account = f.legs[t].account, !.fee.format = f.legs[t].format]
    BY <1>1, <1>14, <2>1, <2>2, <2>3 DEF Transfer!FollowLeg
  <2>7. /\ g2.fee.account = f.legs[t].account /\ g2.fee.format = f.legs[t].format
        /\ g2.fee.currency = f.fee.currency
    BY <1>0, <2>6 DEF TransferForms, FeeShapes
  <2>8. g = g5
    BY <1>5, <1>14 DEF Transfer!DefaultCurrency
  <2>9. f.fee = g3.fee
    BY <1>6, <1>13, <2>8
  <2>10. g3 = g2
    <3>1. g3 = g2 \/ g3.fee.currency = ""
      BY <1>2, <1>8, <1>12, DropWritten
    <3>2. QED BY <1>14, <2>9, <3>1
  <2>11. QED BY <2>5, <2>7, <2>9, <2>10
<1>15. ASSUME Transfer!needsFxQuote(f), ~f.edited, Transfer!Sum(f) > 0, f.rate > 0
       PROVE  f.legs[Transfer!Second(f)].amount = Transfer!computeCounterpartFromAnchor(f)
  <2>1. PICK x : x = Transfer!computeCounterpartFromAnchor(f)
    OBVIOUS
  <2>2. PICK s \in Sides : s = Transfer!Second(f)
    <3>1. f.first \in Sides
      BY <1>0, TransferFields
    <3>2. QED BY <3>1, OtherSide DEF Transfer!Second
  <2>3. g4 = [g3 EXCEPT !.legs[s].amount = x]
    BY <1>3, <1>15, <2>1, <2>2 DEF Transfer!SuggestByQuote, Transfer!Suggests
  <2>4. g3.legs \in [Sides -> Transfer!TransferLegs] /\ g3 \in TransferForms
    BY <1>9, <1>12, TransferFields
  <2>5. g3.legs[s] \in Transfer!TransferLegs
    BY <2>4
  <2>6. g4.legs[s].amount = x
    BY <2>3, <2>4, <2>5 DEF TransferForms, Transfer!TransferLegs
  <2>7. g5 = g4
    BY <1>4, <1>15 DEF Transfer!SuggestByFee, Transfer!needsFxQuote
  <2>8. g.legs = g5.legs
    BY <1>5, <1>11, <1>12, DefaultWritten
  <2>9. QED BY <1>6, <2>1, <2>2, <2>6, <2>7, <2>8
<1>16. QED BY <1>14, <1>15

\* The fee announced is the one booked, to the cent, unless both legs are in one currency.
FeeIsBooked(r) ==
    r.legs["out"].currency # r.legs["in"].currency =>
        2 * (100 * r.shown - Transfer!Booked(r)) \in -100..100

\* Accepted unless a half cent was missed, and booked with the fee announced.
SentWell(r) == (Transfer!Accepts(r) \/ Transfer!MissesHalfCent(r)) /\ FeeIsBooked(r)

LEMMA PercentIsBooked ==
  ASSUME NEW a \in Nat, NEW v \in Nat
  PROVE  2 * (100 * Transfer!PercentOf(a, v) - v * a) \in -100..100
<1>1. PICK x \in Nat : x = a * v /\ x = v * a /\ 2 * x = 2 * a * v
  OBVIOUS
<1>2. PICK short \in {0, 1} : short = IF <<a, v, 100>> \in TransferShortOfHalf THEN 1 ELSE 0
  OBVIOUS
<1>3. 2 * (100 * ((2 * x + 100 - short) \div (2 * 100)) - x) \in -100..100
  OBVIOUS
<1>4. Transfer!PercentOf(a, v) = (2 * x + 100 - short) \div (2 * 100)
  BY <1>1, <1>2 DEF Transfer!PercentOf, Transfer!RoundedByClient
<1>5. QED BY <1>1, <1>3, <1>4

LEMMA FixedIsBooked ==
  /\ 2 * (100 * 0 - 0) \in -100..100
  /\ \A v \in Nat : 2 * (100 * v - 100 * v) \in -100..100
OBVIOUS

LEMMA PositiveAmounts ==
  /\ \A x \in Nat \cup {Transfer!Unset} : x > 0 => x \in Nat \ {0}
  /\ \A x \in Nat \ {0} : x > 0 /\ x \in Nat /\ x # Transfer!Unset
BY DEF Transfer!Unset

(* A valid transfer at rest, across the functional currency only, with a   *)
(* suggested second amount, is one the server accepts, at the fee shown.   *)
LEMMA TransferIsTaken ==
  ASSUME NEW f \in Settled, Transfer!Pass(f, f) = f, f.functional # "",
         Transfer!SameCurrency(f) \/ Transfer!needsFxQuote(f),
         Transfer!needsFxQuote(f) => ~f.edited,
         f.fee.on /\ ~Transfer!feeAccountDerivesFromLeg(f)
           => f.fee.format \in Transfer!formatsFor(f, f.fee.account, f.fee.currency),
         Transfer!Submits(f), NEW r, r = Transfer!Request(f)
  PROVE  SentWell(r)
<1>1. /\ f \in TransferForms /\ f.fee \in FeeShapes /\ f.rate \in Nat
      /\ f.mode \in {"MULTIPLY", "DIVIDE"} /\ f.first \in Sides /\ f.functional = Functional
      /\ \A s \in Sides : f.legs[s] \in Transfer!TransferLegs
      /\ f.fee.treatment = "INCLUIDA" => ~f.fee.pending
  BY TransferFields, SameSets DEF Settled
<1>2. /\ r.legs = f.legs /\ r.fee = f.fee /\ (r.quoted <=> Transfer!needsFxQuote(f))
      /\ r.functional = f.functional /\ r.rate = f.rate /\ r.mode = f.mode
      /\ r.shown = Transfer!expectedFee(f)
  BY DEF Transfer!Request
<1>3. \A s \in Sides : /\ f.legs[s].account # "" /\ f.legs[s].currency # ""
                       /\ f.legs[s].format # "" /\ f.legs[s].amount > 0
  BY DEF Transfer!Submits, Sides
<1>4. \A s \in Sides : /\ f.legs[s].amount \in Nat \ {0}
                       /\ Transfer!PairTakes(f.legs[s].account, f.legs[s].currency, f.legs[s].format)
  <2>1. TAKE s \in Sides
  <2>2. /\ f.legs[s].amount \in Nat \cup {Transfer!Unset} /\ f.legs[s].amount > 0 /\ f.legs[s].format # ""
        /\ f.legs[s].format # ""
             => Transfer!PairTakes(f.legs[s].account, f.legs[s].currency, f.legs[s].format)
    BY <1>1, <1>3, TransferLegFields
  <2>3. PICK x : x = f.legs[s].amount
    OBVIOUS
  <2>4. x \in Nat \cup {Transfer!Unset} /\ x > 0
    BY <2>2, <2>3
  <2>5. x \in Nat \ {0}
    BY <2>4, PositiveAmounts, Zenon
  <2>6. QED BY <2>2, <2>3, <2>5
<1>5. ASSUME ~Transfer!MissesHalfCent(r) PROVE Transfer!CrossAccepts(r)
  <2>1. SUFFICES ASSUME f.legs["out"].currency # f.legs["in"].currency
                 PROVE  Transfer!CrossAccepts(r)
    BY <1>2 DEF Transfer!CrossAccepts
  <2>2. Transfer!needsFxQuote(f)
    BY <2>1 DEF Transfer!SameCurrency, Transfer!CurrencyOf
  <2>3. f.rate > 0 /\ ~f.edited
    BY <2>2 DEF Transfer!Submits
  <2>4. PICK traded \in Sides : /\ traded = IF f.legs["out"].currency = Functional THEN "in" ELSE "out"
                                /\ traded = Transfer!Traded(r)
    BY <1>2, SameSets DEF Transfer!Traded
  <2>5. PICK other \in Sides : other = Transfer!Other(traded) /\ other # traded
    BY OtherSide
  <2>6. f.legs[other].currency = Functional /\ f.legs[traded].currency # Functional
    <3>1. Functional \in {f.legs[s].currency : s \in Sides}
      BY <1>1, <2>2 DEF Transfer!needsFxQuote, Transfer!CurrencyOf, Sides
    <3>2. QED BY <2>1, <2>4, <2>5, <3>1, SameSets
  <2>7. PICK x, y : x = f.legs[traded].amount /\ y = f.legs[other].amount
    OBVIOUS
  <2>8. x \in Nat \ {0} /\ y \in Nat \ {0}
    BY <1>4, <2>7
  <2>9. Transfer!CuadreOk(x, y, f.rate, f.mode)
    <3>0. ~Transfer!HalfCentMissed(x, y, f.rate, f.mode)
      BY <1>2, <1>5, <2>2, <2>4, <2>5, <2>7 DEF Transfer!MissesHalfCent
    <3>1. Transfer!Sum(f) > 0
      BY <1>1, <1>3 DEF Transfer!Sum
    <3>2. f.legs[Transfer!Second(f)].amount = Transfer!computeCounterpartFromAnchor(f)
      BY <2>2, <2>3, <3>1, AtRestFollows
    <3>3. CASE f.first = traded
      <4>1. Transfer!Second(f) = other /\ Transfer!Sum(f) = x
        BY <2>5, <2>7, <3>3 DEF Transfer!Second, Transfer!Sum
      <4>2. Transfer!computeCounterpartFromAnchor(f) = Transfer!calculateEquivalent(x, f.rate, f.mode)
        BY <1>1, <2>6, <3>3, <4>1 DEF Transfer!computeCounterpartFromAnchor, Transfer!CurrencyOf
      <4>3. Transfer!calculateEquivalent(x, f.rate, f.mode) = Transfer!Equivalent(x, f.rate, f.mode)
        BY <3>0 DEF Transfer!HalfCentMissed
      <4>4. QED BY <2>7, <3>2, <4>1, <4>2, <4>3 DEF Transfer!CuadreOk
    <3>4. CASE f.first = other
      <4>1. Transfer!Second(f) = traded /\ Transfer!Sum(f) = y
        BY <2>4, <2>5, <2>7, <3>4, SameSets DEF Transfer!Second, Transfer!Sum, Transfer!Other
      <4>2. Transfer!computeCounterpartFromAnchor(f)
              = Transfer!calculateEquivalent(y, f.rate, Transfer!InverseMode(f.mode))
        BY <1>1, <2>6, <3>4, <4>1 DEF Transfer!computeCounterpartFromAnchor, Transfer!CurrencyOf
      <4>3. Transfer!calculateEquivalent(y, f.rate, Transfer!InverseMode(f.mode))
              = Transfer!ImpliedBase(y, f.rate, f.mode)
        BY <3>0 DEF Transfer!HalfCentMissed, Transfer!impliedBaseFromQuoteTotal
      <4>4. y > 0
        BY <2>8, PositiveAmounts, Zenon
      <4>5. QED BY <2>7, <3>2, <4>1, <4>2, <4>3, <4>4 DEF Transfer!CuadreOk
    <3>5. QED BY <1>1, <2>4, <2>5, <3>3, <3>4, SameSets
  <2>10. QED BY <1>1, <1>2, <2>2, <2>3, <2>4, <2>5, <2>6, <2>7, <2>9 DEF Transfer!CrossAccepts
<1>6. ASSUME f.fee.on
      PROVE  Transfer!FeeAccepts(r)
  <2>1. /\ f.fee.currency # "" /\ f.fee.format # ""
        /\ Transfer!feeAccountDerivesFromLeg(f) \/ f.fee.account # ""
        /\ f.fee.mode = "PERCENT" => Transfer!feeAccountDerivesFromLeg(f)
    BY <1>6 DEF Transfer!Submits, Transfer!FeeSubmits
  <2>2. PICK sides : sides = {s \in Transfer!Sides : f.legs[s].currency = f.fee.currency}
    OBVIOUS
  <2>3. Transfer!feeAccountDerivesFromLeg(f) <=> sides # {}
    BY <2>1, <2>2 DEF Transfer!feeAccountDerivesFromLeg, Transfer!FeeSides, Transfer!CurrencyOf
  <2>4. /\ f.fee.account # "" /\ f.fee.currency # "" /\ f.fee.format # ""
        /\ Transfer!PairTakes(f.fee.account, f.fee.currency, f.fee.format)
    <3>1. CASE Transfer!feeAccountDerivesFromLeg(f)
      <4>1. \A s \in Sides : Transfer!Ready(f.legs[s])
        BY <1>3 DEF Transfer!Ready
      <4>2. Transfer!FeeSides(f) # {}
        BY <3>1 DEF Transfer!feeAccountDerivesFromLeg
      <4>3. PICK t \in Sides : /\ f.legs[t].currency = f.fee.currency
                               /\ f.fee.account = f.legs[t].account
                               /\ f.fee.format = f.legs[t].format
        BY <1>6, <2>1, <4>1, <4>2, AtRestFollows
      <4>4. QED BY <1>3, <1>4, <2>1, <4>3
    <3>2. CASE ~Transfer!feeAccountDerivesFromLeg(f)
      <4>1. f.fee.format \in Transfer!formatsFor(f, f.fee.account, f.fee.currency)
        BY <1>6, <3>2
      <4>2. f.fee.account \in Maybe(Accounts) /\ f.fee.currency \in Maybe(Currencies)
        BY <1>1, FeeFields
      <4>3. Transfer!PairTakes(f.fee.account, f.fee.currency, f.fee.format)
        BY <1>1, <4>1, <4>2, ListedFormats
      <4>4. QED BY <2>1, <3>2, <4>3
    <3>3. QED BY <3>1, <3>2
  <2>5. f.fee.mode = "PERCENT" /\ f.fee.value > 0 => sides # {}
    BY <2>1, <2>3
  <2>6. QED BY <1>2, <2>2, <2>4, <2>5 DEF Transfer!FeeAccepts
<1>7. ASSUME ~Transfer!MissesHalfCent(r) PROVE Transfer!Accepts(r)
  <2>1. ~Transfer!SameLeg(r)
    <3>1. ~Transfer!SameLeg(f)
      BY DEF Transfer!Submits
    <3>2. QED BY <1>2, <3>1 DEF Transfer!SameLeg
  <2>2. \A s \in Sides : /\ r.legs[s].amount > 0
                         /\ Transfer!PairTakes(r.legs[s].account, r.legs[s].currency, r.legs[s].format)
    BY <1>2, <1>3, <1>4
  <2>3. ~(r.fee.treatment = "INCLUIDA" /\ r.fee.pending)
    BY <1>1, <1>2
  <2>4. r.fee.on => Transfer!FeeAccepts(r)
    BY <1>2, <1>6
  <2>5. QED BY <1>5, <1>7, <2>1, <2>2, <2>3, <2>4 DEF Transfer!Accepts, Sides
<1>8. FeeIsBooked(r)
  <2>1. SUFFICES ASSUME f.legs["out"].currency # f.legs["in"].currency
                 PROVE  2 * (100 * r.shown - Transfer!Booked(r)) \in -100..100
    BY <1>2 DEF FeeIsBooked
  <2>2. PICK fee : fee = f.fee
    OBVIOUS
  <2>3. fee.value \in Nat /\ fee.mode \in {"PERCENT", "FIXED"} /\ r.fee = fee
    BY <1>1, <1>2, <2>2, FeeFields
  <2>4. CASE ~fee.on
    <3>1. r.shown = 0 /\ Transfer!Booked(r) = 0
      BY <1>2, <2>2, <2>3, <2>4 DEF Transfer!expectedFee, Transfer!Booked
    <3>2. QED BY <3>1, FixedIsBooked, Zenon
  <2>5. CASE fee.on /\ fee.mode = "FIXED"
    <3>1. r.shown = fee.value /\ Transfer!Booked(r) = 100 * fee.value
      BY <1>2, <2>2, <2>3, <2>5 DEF Transfer!expectedFee, Transfer!Booked
    <3>2. QED BY <2>3, <3>1, FixedIsBooked, Zenon
  <2>6. CASE fee.on /\ fee.mode = "PERCENT"
    <3>1. PICK s \in Sides : fee.currency = f.legs[s].currency
      <4>1. Transfer!FeeSides(f) # {}
        BY <2>2, <2>6 DEF Transfer!Submits, Transfer!FeeSubmits, Transfer!feeAccountDerivesFromLeg
      <4>2. QED BY <2>2, <4>1 DEF Transfer!FeeSides, Transfer!CurrencyOf, Sides
    <3>2. PICK a : a = f.legs[s].amount
      OBVIOUS
    <3>3. a \in Nat /\ a # Transfer!Unset
      <4>1. a \in Nat \ {0}
        BY <1>4, <3>2
      <4>2. QED BY <4>1, PositiveAmounts, Zenon
    <3>4. /\ (IF fee.currency = f.legs["out"].currency THEN "out" ELSE "in") = s
          /\ (IF fee.currency = f.legs["in"].currency THEN "in" ELSE "out") = s
      BY <2>1, <3>1, SameSets
    <3>5. r.shown = Transfer!PercentOf(a, fee.value)
      BY <1>2, <2>2, <2>6, <3>2, <3>3, <3>4 DEF Transfer!expectedFee, Transfer!CurrencyOf, Transfer!Abs
    <3>6. Transfer!Booked(r) = fee.value * a
      BY <1>2, <2>3, <2>6, <3>2, <3>4 DEF Transfer!Booked
    <3>7. 2 * (100 * Transfer!PercentOf(a, fee.value) - fee.value * a) \in -100..100
      <4>1. PICK v \in Nat : v = fee.value
        BY <2>3
      <4>2. 2 * (100 * Transfer!PercentOf(a, v) - v * a) \in -100..100
        BY <3>3, PercentIsBooked
      <4>3. QED BY <4>1, <4>2, Zenon
    <3>8. QED BY <3>5, <3>6, <3>7, Zenon
  <2>7. QED BY <2>3, <2>4, <2>5, <2>6
<1>9. QED BY <1>7, <1>8 DEF SentWell

-----------------------------------------------------------------------------
(* The transfer form at work                                               *)

TransferDrafts ==
    {Transfer!NoData} \cup {Transfer!Saved(d, rest) : d \in Transfer!Drafts, rest \in BOOLEAN}

\* What the transfer form keeps: the form shown and every draft are of their type,
\* and what was sent from a form at rest is accepted, at the fee shown.
TransferInv ==
    IsTransfer =>
        /\ load \in {"none", "first", "retry"}
        /\ acts \in 0..TransferActs
        /\ form \in Settled
        /\ saving \in TransferDrafts /\ cache \in TransferDrafts /\ local \in TransferDrafts
        /\ server \in [status : {"BORRADOR", "CONFIRMADA"}, draft : TransferDrafts]
        /\ sending # Transfer!NoData /\ sending.fair
             => SentWell(sending.body)

LEMMA TransferDraftsAre ==
  /\ Transfer!NoData \in TransferDrafts
  /\ \A d \in Transfer!Drafts, rest \in BOOLEAN : Transfer!Saved(d, rest) \in TransferDrafts
  /\ \A s \in TransferDrafts : s # Transfer!NoData => s.data \in Transfer!Drafts
<1>1. \A d, rest : Transfer!Saved(d, rest).data = d
  BY DEF Transfer!Saved
<1>2. QED BY <1>1 DEF TransferDrafts

(* What is rendered settled, with the amounts it had.                      *)
LEMMA TransferIsRendered ==
  ASSUME NEW g \in TransferForms, Transfer!Render(g)
  PROVE  form' \in Settled /\ Keeps(g, form')
<1>1. PICK h : h = form'
  OBVIOUS
<1>2. h \in Transfer!Rendered(form, g)
  BY <1>1 DEF Transfer!Render
<1>3. Settles(g, h)
  BY <1>2, RenderedSettles
<1>4. QED BY <1>1, <1>3 DEF Settles

(* The list of an account that arrived, or the currency, keeps a form one. *)
LEMMA AnsweredIsForm ==
  ASSUME NEW f \in Settled
  PROVE  /\ \A a \in Accounts, ok \in BOOLEAN : f.asked[a] > 0 =>
              \A g : g = [f EXCEPT !.asked[a] = @ - 1, !.lists[a] = IF ok THEN "here" ELSE "failed"]
                => Settles(f, Transfer!Asking(g, g))
         /\ \A ok \in BOOLEAN :
              \A g : g = [f EXCEPT !.fx = FALSE, !.functional = IF ok THEN Functional ELSE ""]
                => Settles(f, g)
<1>1. f \in TransferForms /\ f.fee \in Transfer!Fees
  BY DEF Settled
<1>2. ASSUME NEW a \in Accounts, NEW ok \in BOOLEAN, f.asked[a] > 0, NEW g,
             g = [f EXCEPT !.asked[a] = @ - 1, !.lists[a] = IF ok THEN "here" ELSE "failed"]
      PROVE  Settles(f, Transfer!Asking(g, g))
  <2>1. PICK n, l : n = f.asked[a] - 1 /\ l = IF ok THEN "here" ELSE "failed"
    OBVIOUS
  <2>2. n \in 0..MaxAsked /\ l \in {"absent", "here", "failed"}
    <3>1. PICK m \in Nat : m = MaxAsked
      BY TransferConstants
    <3>2. PICK k \in 0..m : k = f.asked[a] /\ k > 0
      BY <1>1, <1>2, <3>1, TransferFields
    <3>3. k - 1 \in 0..m
      BY <3>2
    <3>4. QED BY <2>1, <3>1, <3>2, <3>3
  <2>3. PICK asked, lists : asked = [f.asked EXCEPT ![a] = n] /\ lists = [f.lists EXCEPT ![a] = l]
    OBVIOUS
  <2>4. asked \in [Accounts -> 0..MaxAsked] /\ lists \in [Accounts -> {"absent", "here", "failed"}]
    BY <1>1, <2>2, <2>3, TransferFields
  <2>5. g = [f EXCEPT !.asked = asked, !.lists = lists]
    BY <1>1, <1>2, <2>1, <2>3 DEF TransferForms
  <2>6. /\ g \in TransferForms /\ g.fee = f.fee /\ g.first = f.first /\ g.edited = f.edited
        /\ g.legs = f.legs
    BY <1>1, <2>4, <2>5 DEF TransferForms
  <2>7. Settles(g, g) /\ Keeps(f, g)
    BY <1>1, <2>6 DEF Settles, Settled, Keeps
  <2>8. Settles(g, Transfer!Asking(g, g))
    BY <2>6, <2>7, AskingSettles
  <2>9. QED BY <1>1, <2>7, <2>8, KeepsOn DEF Settles
<1>3. ASSUME NEW ok \in BOOLEAN, NEW g,
             g = [f EXCEPT !.fx = FALSE, !.functional = IF ok THEN Functional ELSE ""]
      PROVE  Settles(f, g)
  <2>1. PICK c \in {"", Functional} : c = IF ok THEN Functional ELSE ""
    OBVIOUS
  <2>2. g = [f EXCEPT !.fx = FALSE, !.functional = c]
    BY <1>3, <2>1
  <2>3. /\ g \in TransferForms /\ g.fee = f.fee /\ g.first = f.first /\ g.edited = f.edited
        /\ g.legs = f.legs
    BY <1>1, <2>2 DEF TransferForms
  <2>4. QED BY <1>1, <2>3 DEF Settles, Settled, Keeps
<1>4. QED BY <1>2, <1>3

LEMMA TransferInitInv == FormsInit => TransferInv
<1>1. SUFFICES ASSUME FormsInit, IsTransfer PROVE TransferInv
  BY DEF TransferInv
<1>2. Transfer!Init
  <2>1. OperationInit => kind \in Kinds
    BY DEF OperationInit
  <2>2. QED BY <1>1, <2>1, NoTransfer DEF FormsInit
<1>3. /\ form = Transfer!Blank /\ load = "first" /\ saving = Transfer!NoData
      /\ sending = Transfer!NoData /\ cache = Transfer!NoData /\ local = Transfer!NoData /\ acts = 0
      /\ server \in [status : {"BORRADOR"},
                     draft : {Transfer!NoData} \cup
                               {Transfer!Saved(d, Transfer!FeeIsAtHome(d)) : d \in TransferStored}]
  BY <1>2 DEF Transfer!Init
<1>4. server \in [status : {"BORRADOR", "CONFIRMADA"}, draft : TransferDrafts]
  <2>1. TransferStored \subseteq Transfer!Drafts
    BY TransferConstants, Zenon
  <2>2. \A d \in TransferStored : Transfer!FeeIsAtHome(d) \in BOOLEAN
    BY DEF Transfer!FeeIsAtHome
  <2>3. {Transfer!NoData} \cup {Transfer!Saved(d, Transfer!FeeIsAtHome(d)) : d \in TransferStored}
          \subseteq TransferDrafts
    BY <2>1, <2>2, TransferDraftsAre
  <2>4. QED BY <1>3, <2>3
<1>5. acts \in 0..TransferActs
  <2>1. TransferActs \in Nat
    BY TransferConstants, Zenon
  <2>2. QED BY <1>3, <2>1
<1>6. QED BY <1>3, <1>4, <1>5, BlankIsForm, TransferDraftsAre DEF TransferInv

LEMMA TransferStepInv == TransferInv /\ [FormsNext]_formsVars => TransferInv'
<1> SUFFICES ASSUME TransferInv, [FormsNext]_formsVars, IsTransfer' PROVE TransferInv'
  BY DEF TransferInv
<1>1. kind' = kind /\ IsTransfer /\ (Transfer!Next \/ UNCHANGED formsVars)
  <2>1. CASE UNCHANGED formsVars
    BY <2>1 DEF formsVars, operationVars, IsTransfer
  <2>2. CASE ~IsTransfer /\ OperationNext
    <3>1. kind' = kind
      BY <2>2 DEF OperationNext, Edit, Clear, Settle, Reopen, SaveDraft, Submit, Answers,
                  AnswerLists, AnswerList, AnswerLineList, AnswerLoad, AnswerSave, AnswerSubmit
    <3>2. QED BY <2>2, <3>1 DEF IsTransfer
  <2>3. CASE IsTransfer /\ Transfer!Next /\ UNCHANGED kind
    BY <2>3
  <2>4. QED BY <2>1, <2>2, <2>3 DEF FormsNext
<1>2. /\ load \in {"none", "first", "retry"}
      /\ acts \in 0..TransferActs
      /\ form \in Settled
      /\ saving \in TransferDrafts /\ cache \in TransferDrafts /\ local \in TransferDrafts
      /\ server \in [status : {"BORRADOR", "CONFIRMADA"}, draft : TransferDrafts]
      /\ sending # Transfer!NoData /\ sending.fair
           => SentWell(sending.body)
  BY <1>1 DEF TransferInv
<1>3. form \in TransferForms
  BY <1>2 DEF Settled
<1>4. Transfer!Act \/ acts' = acts => acts' \in 0..TransferActs
  <2>1. TransferActs \in Nat
    BY TransferConstants, Zenon
  <2>2. QED BY <1>2, <2>1 DEF Transfer!Act
<1>5. \A ok : Transfer!Outcome(ok) => Transfer!Act \/ acts' = acts
  BY DEF Transfer!Outcome
<1>6. sending' = sending \/ sending' = Transfer!NoData =>
        (sending # Transfer!NoData /\ sending.fair
           => SentWell(sending.body))'
  <2>1. CASE sending' = Transfer!NoData
    BY <2>1 DEF Transfer!NoData
  <2>2. CASE sending' = sending
    BY <1>2, <2>2
  <2>3. QED BY <2>1, <2>2
<1>7. ASSUME load' \in {"none", "first", "retry"},
             Transfer!Act \/ acts' = acts,
             form' \in Settled,
             saving' \in TransferDrafts, cache' \in TransferDrafts, local' \in TransferDrafts,
             server' \in [status : {"BORRADOR", "CONFIRMADA"}, draft : TransferDrafts],
             (sending # Transfer!NoData /\ sending.fair
                => SentWell(sending.body))'
      PROVE  TransferInv'
  BY <1>4, <1>7 DEF TransferInv
<1>8. CASE UNCHANGED formsVars
  <2>1. /\ load' = load /\ acts' = acts /\ form' = form /\ saving' = saving /\ cache' = cache
        /\ server' = server /\ sending' = sending /\ local' = local
    BY <1>8 DEF formsVars, operationVars
  <2>2. QED BY <1>2, <1>6, <1>7, <2>1
<1>9. CASE Transfer!Edit
  <2>1. /\ Transfer!Act /\ load' = load /\ saving' = saving /\ sending' = sending
        /\ server' = server /\ cache' = cache /\ local' = local
        /\ \E g \in Transfer!Inputs(form) : Transfer!Render(g)
    BY <1>9 DEF Transfer!Edit
  <2>2. form' \in Settled
    BY <1>3, <2>1, InputsAreForms, TransferIsRendered
  <2>3. QED BY <1>2, <1>6, <1>7, <2>1, <2>2
<1>10. CASE Transfer!Clear
  <2>1. /\ Transfer!Act /\ load' = load /\ saving' = saving /\ sending' = sending
        /\ server' = server /\ cache' = cache /\ local' = Transfer!NoData
        /\ Transfer!Render(Transfer!Cleared(form))
    BY <1>10 DEF Transfer!Clear
  <2>2. Transfer!Cleared(form) \in TransferForms
    BY <1>3, BlankIsForm DEF Settled
  <2>3. form' \in Settled
    BY <2>1, <2>2, TransferIsRendered
  <2>4. QED BY <1>2, <1>6, <1>7, <2>1, <2>3, TransferDraftsAre
<1>11. CASE Transfer!Reopen
  <2>1. /\ Transfer!Act /\ load' = "first" /\ saving' = saving /\ sending' = sending
        /\ server' = server /\ cache' \in {cache, Transfer!NoData} /\ local' = local
        /\ form' = Transfer!Blank
    BY <1>11 DEF Transfer!Reopen
  <2>2. cache' \in TransferDrafts
    BY <1>2, <2>1, TransferDraftsAre
  <2>3. QED BY <1>2, <1>6, <1>7, <2>1, <2>2, BlankIsForm
<1>12. CASE Transfer!SaveDraft
  <2>1. /\ Transfer!Act /\ load' = load /\ form' = form /\ sending' = sending
        /\ server' = server /\ cache' = cache /\ local' = local
        /\ saving' = Transfer!Saved(Transfer!buildDraftData(form), Transfer!AtRest)
    BY <1>12 DEF Transfer!SaveDraft
  <2>2. PICK d, rest : d = Transfer!buildDraftData(form) /\ rest = Transfer!AtRest
    OBVIOUS
  <2>3. d \in Transfer!Drafts
    BY <1>2, <2>2, DraftIsKept
  <2>4. rest \in BOOLEAN
    BY <2>2 DEF Transfer!AtRest
  <2>5. saving' \in TransferDrafts
    BY <2>1, <2>2, <2>3, <2>4, TransferDraftsAre
  <2>6. QED BY <1>2, <1>6, <1>7, <2>1, <2>5
<1>13. CASE Transfer!Submit
  <2>1. /\ Transfer!Act /\ load' = load /\ form' = form /\ saving' = saving
        /\ server' = server /\ cache' = cache /\ local' = local /\ Transfer!Submits(form)
        /\ sending' = [kind |-> "request", body |-> Transfer!Request(form), fair |-> Transfer!Fair]
    BY <1>13 DEF Transfer!Submit
  <2>2. PICK r : r = Transfer!Request(form)
    OBVIOUS
  <2>3. sending'.body = r /\ (sending'.fair <=> Transfer!Fair)
    BY <2>1, <2>2
  <2>4. ASSUME Transfer!Fair
        PROVE  SentWell(r)
    <3>1. PICK f : f = form
      OBVIOUS
    <3>2. /\ Transfer!Pass(f, f) = f /\ f.functional # ""
          /\ Transfer!SameCurrency(f) \/ Transfer!needsFxQuote(f)
          /\ Transfer!needsFxQuote(f) => ~f.edited
          /\ f.fee.on /\ ~Transfer!feeAccountDerivesFromLeg(f)
               => f.fee.format \in Transfer!formatsFor(f, f.fee.account, f.fee.currency)
      BY <2>4, <3>1 DEF Transfer!Fair, Transfer!AtRest, Transfer!Stuck
    <3>3. f \in Settled /\ Transfer!Submits(f) /\ r = Transfer!Request(f)
      BY <1>2, <2>1, <2>2, <3>1
    <3>4. QED BY <3>2, <3>3, TransferIsTaken
  <2>5. (sending # Transfer!NoData /\ sending.fair
           => SentWell(sending.body))'
    BY <2>3, <2>4
  <2>6. QED BY <1>2, <1>7, <2>1, <2>5
<1>14. CASE \E a \in Accounts, ok \in BOOLEAN : Transfer!AnswerList(a, ok)
  <2>1. PICK a \in Accounts, ok \in BOOLEAN : Transfer!AnswerList(a, ok)
    BY <1>14
  <2>2. /\ Transfer!Outcome(ok) /\ load' = load /\ saving' = saving /\ sending' = sending
        /\ server' = server /\ cache' = cache /\ local' = local /\ form.asked[a] > 0
        /\ \E g : /\ g = [form EXCEPT !.asked[a] = @ - 1, !.lists[a] = IF ok THEN "here" ELSE "failed"]
                  /\ Transfer!Render(Transfer!Asking(g, g))
    BY <2>1 DEF Transfer!AnswerList
  <2>3. form' \in Settled
    BY <1>2, <2>2, AnsweredIsForm, TransferIsRendered DEF Settles, Settled
  <2>4. QED BY <1>2, <1>5, <1>6, <1>7, <2>2, <2>3
<1>15. CASE \E ok \in BOOLEAN : Transfer!AnswerFunctional(ok)
  <2>1. PICK ok \in BOOLEAN : Transfer!AnswerFunctional(ok)
    BY <1>15
  <2>2. /\ Transfer!Outcome(ok) /\ load' = load /\ saving' = saving /\ sending' = sending
        /\ server' = server /\ cache' = cache /\ local' = local
        /\ \E g : /\ g = [form EXCEPT !.fx = FALSE, !.functional = IF ok THEN Functional ELSE ""]
                  /\ Transfer!Render(g)
    BY <2>1 DEF Transfer!AnswerFunctional
  <2>3. form' \in Settled
    BY <1>2, <2>2, AnsweredIsForm, TransferIsRendered DEF Settles, Settled
  <2>4. QED BY <1>2, <1>5, <1>6, <1>7, <2>2, <2>3
<1>16. CASE \E ok \in BOOLEAN : Transfer!AnswerLoad(ok)
  <2>1. PICK ok \in BOOLEAN : Transfer!AnswerLoad(ok)
    BY <1>16
  <2>2. /\ Transfer!Outcome(ok) /\ saving' = saving /\ sending' = sending /\ server' = server
        /\ (Transfer!LoadDraft /\ server.draft # Transfer!NoData) \/ Transfer!LoadFails
    BY <2>1 DEF Transfer!AnswerLoad
  <2>3. server.draft \in TransferDrafts
    BY <1>2
  <2>4. \A s \in TransferDrafts :
           s # Transfer!NoData /\ Transfer!Render(Transfer!Restored(form, s.data)) => form' \in Settled
    BY <1>3, TransferDraftsAre, RestoredIsForm, TransferIsRendered DEF Settled
  <2>5. CASE Transfer!LoadDraft /\ server.draft # Transfer!NoData
    <3>1. /\ load' = "none" /\ cache' = server.draft /\ local' = server.draft
          /\ Transfer!Render(Transfer!Restored(form, server.draft.data))
      BY <2>5 DEF Transfer!LoadDraft
    <3>2. QED BY <1>5, <1>6, <1>7, <1>2, <2>2, <2>3, <2>4, <2>5, <3>1
  <2>6. CASE Transfer!LoadFails
    <3>1. PICK found \in TransferDrafts : found = IF cache # Transfer!NoData THEN cache ELSE local
      BY <1>2
    <3>2. /\ cache' = cache /\ load' \in {"none", "retry"} /\ local' \in {local, found}
          /\ \/ form' = form
             \/ found # Transfer!NoData /\ Transfer!Render(Transfer!Restored(form, found.data))
      BY <2>6, <3>1 DEF Transfer!LoadFails
    <3>3. form' \in Settled
      BY <1>2, <2>4, <3>1, <3>2
    <3>4. QED BY <1>2, <1>5, <1>6, <1>7, <2>2, <3>1, <3>2, <3>3
  <2>7. QED BY <2>2, <2>5, <2>6
<1>17. CASE \E ok \in BOOLEAN : Transfer!AnswerSave(ok)
  <2>1. PICK ok \in BOOLEAN : Transfer!AnswerSave(ok)
    BY <1>17
  <2>2. /\ Transfer!Outcome(ok) /\ saving' = Transfer!NoData /\ form' = form /\ load' = load
        /\ sending' = sending
        /\ server' = server \/ server' = [server EXCEPT !.draft = saving]
        /\ cache' \in {cache, saving} /\ local' \in {local, saving}
    BY <2>1 DEF Transfer!AnswerSave
  <2>3. /\ server' \in [status : {"BORRADOR", "CONFIRMADA"}, draft : TransferDrafts]
        /\ cache' \in TransferDrafts /\ local' \in TransferDrafts
    BY <1>2, <2>2
  <2>4. QED BY <1>2, <1>5, <1>6, <1>7, <2>2, <2>3, TransferDraftsAre
<1>18. CASE \E ok \in BOOLEAN : Transfer!AnswerSubmit(ok)
  <2>1. PICK ok \in BOOLEAN : Transfer!AnswerSubmit(ok)
    BY <1>18
  <2>2. /\ Transfer!Outcome(ok) /\ sending' = Transfer!NoData /\ form' = form /\ load' = load
        /\ saving' = saving /\ cache' = cache /\ local' \in {local, Transfer!NoData}
        /\ server' = server \/ server' = [server EXCEPT !.status = "CONFIRMADA"]
    BY <2>1 DEF Transfer!AnswerSubmit
  <2>3. /\ server' \in [status : {"BORRADOR", "CONFIRMADA"}, draft : TransferDrafts]
        /\ local' \in TransferDrafts
    BY <1>2, <2>2, TransferDraftsAre
  <2>4. QED BY <1>2, <1>5, <1>6, <1>7, <2>2, <2>3
<1>19. QED BY <1>1, <1>8, <1>9, <1>10, <1>11, <1>12, <1>13, <1>14, <1>15, <1>16, <1>17, <1>18
           DEF Transfer!Next, Transfer!Answers

(* A step of the transfer form that is no input and loads nothing keeps    *)
(* the first amount, and both once the second one is the user's.           *)
LEMMA TransferStepKeepsTyped ==
  ASSUME TransferInv, [FormsNext]_formsVars, IsTransfer
  PROVE  Transfer!KeepsTyped
<1>1. acts \in 0..TransferActs /\ form \in Settled /\ TransferActs \in Nat
  <2>1. TransferActs \in Nat
    BY TransferConstants, Zenon
  <2>2. QED BY <2>1 DEF TransferInv
<1>2. SUFFICES ASSUME acts' = acts, load' = load
               PROVE  /\ form'.legs[form.first].amount = form.legs[form.first].amount
                      /\ form.edited => form'.legs = form.legs
  BY DEF Transfer!KeepsTyped, Transfer!Sum
<1>3. ~Transfer!Act
  BY <1>1, <1>2 DEF Transfer!Act
<1>4. ASSUME form' = form
      PROVE  /\ form'.legs[form.first].amount = form.legs[form.first].amount
             /\ form.edited => form'.legs = form.legs
  BY <1>4
<1>5. ASSUME NEW g, Settles(form, g), Transfer!Render(g)
      PROVE  /\ form'.legs[form.first].amount = form.legs[form.first].amount
             /\ form.edited => form'.legs = form.legs
  <2>1. g \in TransferForms /\ Keeps(form, g) /\ form \in TransferForms
    BY <1>1, <1>5 DEF Settles, Settled
  <2>2. Keeps(g, form')
    BY <1>5, <2>1, TransferIsRendered
  <2>3. QED BY <2>1, <2>2 DEF Keeps
<1>6. CASE UNCHANGED formsVars
  BY <1>4, <1>6 DEF formsVars, operationVars
<1>7. CASE Transfer!Edit \/ Transfer!Clear \/ Transfer!Reopen \/ Transfer!SaveDraft \/ Transfer!Submit
  BY <1>3, <1>7 DEF Transfer!Edit, Transfer!Clear, Transfer!Reopen, Transfer!SaveDraft, Transfer!Submit
<1>8. CASE \E a \in Accounts, ok \in BOOLEAN : Transfer!AnswerList(a, ok)
  <2>1. PICK a \in Accounts, ok \in BOOLEAN : Transfer!AnswerList(a, ok)
    BY <1>8
  <2>2. /\ form.asked[a] > 0
        /\ \E g : /\ g = [form EXCEPT !.asked[a] = @ - 1, !.lists[a] = IF ok THEN "here" ELSE "failed"]
                  /\ Transfer!Render(Transfer!Asking(g, g))
    BY <2>1 DEF Transfer!AnswerList
  <2>3. QED BY <1>1, <1>5, <2>2, AnsweredIsForm
<1>9. CASE \E ok \in BOOLEAN : Transfer!AnswerFunctional(ok)
  <2>1. PICK ok \in BOOLEAN : Transfer!AnswerFunctional(ok)
    BY <1>9
  <2>2. \E g : /\ g = [form EXCEPT !.fx = FALSE, !.functional = IF ok THEN Functional ELSE ""]
               /\ Transfer!Render(g)
    BY <2>1 DEF Transfer!AnswerFunctional
  <2>3. QED BY <1>1, <1>5, <2>2, AnsweredIsForm
<1>10. CASE \E ok \in BOOLEAN : Transfer!AnswerLoad(ok)
  <2>1. PICK ok \in BOOLEAN : Transfer!AnswerLoad(ok)
    BY <1>10
  <2>2. load # "none" /\ (Transfer!LoadDraft \/ Transfer!LoadFails)
    BY <2>1 DEF Transfer!AnswerLoad
  <2>3. load' # load
    BY <2>2 DEF Transfer!LoadDraft, Transfer!LoadFails
  <2>4. QED BY <1>2, <2>3
<1>11. CASE \E ok \in BOOLEAN : Transfer!AnswerSave(ok) \/ Transfer!AnswerSubmit(ok)
  BY <1>4, <1>11 DEF Transfer!AnswerSave, Transfer!AnswerSubmit
<1>12. FormsNext => Transfer!Next
  <2>1. OperationNext /\ ~IsTransfer => ~IsTransfer
    OBVIOUS
  <2>2. QED BY <2>1 DEF FormsNext
<1>13. QED BY <1>6, <1>7, <1>8, <1>9, <1>10, <1>11, <1>12 DEF Transfer!Next, Transfer!Answers

(* The invariant of the transfer form: what it shows and every draft are   *)
(* of their type, and what it sent at rest the server takes.               *)
THEOREM TransferKeepsItsInvariant == FormsSpec => []TransferInv
BY TransferInitInv, TransferStepInv, PTL DEF FormsSpec

(* A transfer sent from a form at rest, its second amount suggested where  *)
(* there is a quote, is accepted unless it missed a half cent, and booked  *)
(* with the fee that the screen announced, whatever the answers did        *)
(* meanwhile (TransferenciaForm.tsx, transferencia_service.go).            *)
THEOREM TransfersAreSentAsShown == FormsSpec => []TransferIsSentAsShown
<1>1. TransferInv => TransferIsSentAsShown
  BY DEF TransferInv, TransferIsSentAsShown, Transfer!SentIsAsShown, Transfer!SentIsAccepted,
         Transfer!FeeShownIsBooked, FeeIsBooked, SentWell
<1>2. QED BY <1>1, TransferKeepsItsInvariant, PTL

(* On the way to rest no leg keeps a currency or a format its account was  *)
(* not given, nor an included fee its tick (the effects of the form).      *)
THEOREM TransferKeepsItsTypes == FormsSpec => [](IsTransfer => Transfer!TypeOK)
<1>1. TransferInv => (IsTransfer => Transfer!TypeOK)
  <2>1. SUFFICES ASSUME TransferInv, IsTransfer PROVE Transfer!TypeOK
    OBVIOUS
  <2>2. /\ load \in {"none", "first", "retry"} /\ acts \in 0..TransferActs /\ form \in Settled
        /\ server \in [status : {"BORRADOR", "CONFIRMADA"}, draft : TransferDrafts]
    BY <2>1 DEF TransferInv
  <2>3. /\ form \in TransferForms /\ form.fee \in Transfer!Fees
        /\ Transfer!Blank \in TransferForms
    BY <2>2, BlankIsForm DEF Settled
  <2>4. DOMAIN form = DOMAIN Transfer!Blank
    BY <2>3 DEF TransferForms
  <2>5. form.fee.treatment = "INCLUIDA" => ~form.fee.pending
    BY <2>3, SameSets
  <2>6. form.asked \in [Accounts -> 0..MaxAsked]
    BY <2>3, TransferFields
  <2>7. \A s \in Sides :
          /\ form.legs[s].account \in Transfer!Maybe(Accounts)
          /\ form.legs[s].format \in Transfer!Maybe(Transfer!Formats)
          /\ form.legs[s].currency \in Transfer!Maybe(Currencies)
          /\ form.legs[s].amount \in Nat \cup {Transfer!Unset}
          /\ form.legs[s].account = "" => form.legs[s].currency = ""
          /\ form.legs[s].currency = "" => form.legs[s].format = ""
    BY <2>3, TransferFields, TransferLegFields, SameSets
  <2>8. server.status \in {"BORRADOR", "CONFIRMADA"}
    BY <2>2
  <2>9. QED BY <2>2, <2>4, <2>5, <2>6, <2>7, <2>8 DEF Transfer!TypeOK, Sides
<1>2. QED BY <1>1, TransferKeepsItsInvariant, PTL

-----------------------------------------------------------------------------
(* Where the effects of the transfer form come to rest                     *)

\* What no pass changes: all but amounts, the fee, and what is asked for.
SameBase(f, g) ==
    /\ g.first = f.first /\ (g.edited <=> f.edited) /\ g.rate = f.rate /\ g.mode = f.mode
    /\ g.functional = f.functional /\ (g.fx <=> f.fx) /\ g.lists = f.lists
    /\ g.legs[f.first] = f.legs[f.first]
    /\ \A s \in Sides : /\ g.legs[s].account = f.legs[s].account
                        /\ g.legs[s].currency = f.legs[s].currency
                        /\ g.legs[s].format = f.legs[s].format
                        /\ (g.legs[s].pending <=> f.legs[s].pending)

\* The user's choices about the fee.
SameSettings(p, q) ==
    /\ (q.on <=> p.on) /\ q.mode = p.mode /\ q.value = p.value
    /\ q.treatment = p.treatment /\ q.payer = p.payer

ReadySides(f) == {s \in Transfer!FeeSides(f) : Transfer!Ready(f.legs[s])}
Lead(f) == f.legs[IF "out" \in ReadySides(f) THEN "out" ELSE "in"]
Drops(f) ==
    /\ f.fee.account # "" /\ f.fee.currency # ""
    /\ f.fee.currency \notin Transfer!Shown(Transfer!List(f, f.fee.account))
FollowsLeg(f) == f.fee.on /\ ReadySides(f) # {}
FirstCurrency(f) == f.legs[f.first].currency
Defaults(f) ==
    f.fee.on /\ f.fee.currency = "" /\ FirstCurrency(f) \in Transfer!feeLegCurrencyOptions(f)

\* What a pass makes of the account, the currency and the format of the fee.
FeeMoves(f, g) ==
    /\ g.fee.account = IF FollowsLeg(f) THEN Lead(f).account ELSE f.fee.account
    /\ g.fee.currency = IF Drops(f) THEN "" ELSE IF Defaults(f) THEN FirstCurrency(f) ELSE f.fee.currency
    /\ ~Defaults(f) => g.fee.format = IF Drops(f) THEN ""
                                      ELSE IF FollowsLeg(f) THEN Lead(f).format ELSE f.fee.format

\* The second amount after a pass.
NextAmount(f) ==
    IF Transfer!Suggests(f) /\ Transfer!SameCurrency(f) THEN Transfer!computeSuggestedSecondLegAmount(f)
    ELSE IF Transfer!Suggests(f) /\ Transfer!needsFxQuote(f) /\ f.rate > 0
    THEN Transfer!computeCounterpartFromAnchor(f)
    ELSE f.legs[Transfer!Second(f)].amount

\* All fields but one stay.
FeeOnly(g, h) ==
    /\ h.legs = g.legs /\ h.first = g.first /\ (h.edited <=> g.edited) /\ h.rate = g.rate
    /\ h.mode = g.mode /\ h.functional = g.functional /\ (h.fx <=> g.fx)
    /\ h.lists = g.lists /\ h.asked = g.asked
LegsOnly(g, h) ==
    /\ h.fee = g.fee /\ h.first = g.first /\ (h.edited <=> g.edited) /\ h.rate = g.rate
    /\ h.mode = g.mode /\ h.functional = g.functional /\ (h.fx <=> g.fx)
    /\ h.lists = g.lists /\ h.asked = g.asked

LEMMA FeeReplaced ==
  ASSUME NEW g \in TransferForms, NEW fee, NEW h, h = [g EXCEPT !.fee = fee]
  PROVE  FeeOnly(g, h) /\ h.fee = fee
BY DEF TransferForms, FeeOnly

LEMMA LegsReplaced ==
  ASSUME NEW g \in TransferForms, NEW legs, NEW h, h = [g EXCEPT !.legs = legs]
  PROVE  LegsOnly(g, h) /\ h.legs = legs
BY DEF TransferForms, LegsOnly

LEMMA TickWrites ==
  ASSUME NEW f \in TransferForms, NEW h, h = Transfer!IncludedIsReal(f, f)
  PROVE  /\ FeeOnly(f, h) /\ SameSettings(f.fee, h.fee) /\ h.fee.account = f.fee.account
         /\ h.fee.currency = f.fee.currency /\ h.fee.format = f.fee.format
<1>1. PICK fee : fee = [f.fee EXCEPT !.pending = FALSE]
  OBVIOUS
<1>2. PICK g : g = [f EXCEPT !.fee = fee]
  OBVIOUS
<1>3. [f EXCEPT !.fee.pending = FALSE] = g
  BY <1>1, <1>2
<1>4. h = f \/ h = g
  BY <1>3 DEF Transfer!IncludedIsReal
<1>5. FeeOnly(f, f) /\ SameSettings(f.fee, f.fee)
  BY DEF FeeOnly, SameSettings
<1>6. FeeOnly(f, g) /\ g.fee = fee
  BY <1>2, FeeReplaced
<1>7. f.fee \in FeeShapes
  BY TransferFields
<1>8. /\ SameSettings(f.fee, fee) /\ fee.account = f.fee.account /\ fee.currency = f.fee.currency
      /\ fee.format = f.fee.format
  BY <1>1, <1>7 DEF FeeShapes, SameSettings
<1>9. QED BY <1>4, <1>5, <1>6, <1>8

LEMMA FollowWrites ==
  ASSUME NEW f \in TransferForms, NEW g \in TransferForms, NEW h, h = Transfer!FollowLeg(f, g)
  PROVE  /\ FeeOnly(g, h) /\ SameSettings(g.fee, h.fee) /\ (h.fee.pending <=> g.fee.pending)
         /\ h.fee.currency = g.fee.currency
         /\ FollowsLeg(f) => h.fee.account = Lead(f).account /\ h.fee.format = Lead(f).format
         /\ ~FollowsLeg(f) => h.fee.account = g.fee.account /\ h.fee.format = g.fee.format
<1>1. PICK leg : leg = Lead(f)
  OBVIOUS
<1>2. PICK fee : fee = [g.fee EXCEPT !.account = leg.account, !.format = leg.format]
  OBVIOUS
<1>3. PICK k : k = [g EXCEPT !.fee = fee]
  OBVIOUS
<1>4. [g EXCEPT !.fee.account = leg.account, !.fee.format = leg.format] = k
  BY <1>2, <1>3 DEF TransferForms
<1>5. /\ ~FollowsLeg(f) => h = g
      /\ FollowsLeg(f) => h = k
  BY <1>1, <1>4 DEF Transfer!FollowLeg, FollowsLeg, Lead, ReadySides
<1>6. FeeOnly(g, g) /\ SameSettings(g.fee, g.fee)
  BY DEF FeeOnly, SameSettings
<1>7. FeeOnly(g, k) /\ k.fee = fee
  BY <1>3, FeeReplaced
<1>8. g.fee \in FeeShapes
  BY TransferFields
<1>9. /\ SameSettings(g.fee, fee) /\ (fee.pending <=> g.fee.pending)
      /\ fee.account = leg.account /\ fee.currency = g.fee.currency /\ fee.format = leg.format
  BY <1>2, <1>8 DEF FeeShapes, SameSettings
<1>10. QED BY <1>1, <1>5, <1>6, <1>7, <1>9

DropWritesFee(f, g, h) ==
    /\ FeeOnly(g, h) /\ SameSettings(g.fee, h.fee) /\ (h.fee.pending <=> g.fee.pending)
    /\ h.fee.account = g.fee.account
    /\ Drops(f) => h.fee.currency = "" /\ h.fee.format = ""
    /\ ~Drops(f) => h.fee.currency = g.fee.currency /\ h.fee.format = g.fee.format

LEMMA DropWrites ==
  ASSUME NEW f \in TransferForms, NEW g \in TransferForms, NEW h, h = Transfer!DropCurrency(f, g)
  PROVE  DropWritesFee(f, g, h)
<1>1. PICK none : none = ""
  OBVIOUS
<1>2. PICK fee : fee = [g.fee EXCEPT !.currency = none, !.format = none]
  OBVIOUS
<1>3. PICK k : k = [g EXCEPT !.fee = fee]
  OBVIOUS
<1>4. [g EXCEPT !.fee.currency = "", !.fee.format = ""] = k
  BY <1>1, <1>2, <1>3 DEF TransferForms
<1>5. /\ ~Drops(f) => h = g
      /\ Drops(f) => h = k
  BY <1>4 DEF Transfer!DropCurrency, Drops
<1>6. FeeOnly(g, g) /\ SameSettings(g.fee, g.fee)
  BY DEF FeeOnly, SameSettings
<1>7. FeeOnly(g, k) /\ k.fee = fee
  BY <1>3, FeeReplaced
<1>8. g.fee \in FeeShapes
  BY TransferFields
<1>9. /\ SameSettings(g.fee, fee) /\ (fee.pending <=> g.fee.pending)
      /\ fee.account = g.fee.account /\ fee.currency = none /\ fee.format = none
  BY <1>2, <1>8 DEF FeeShapes, SameSettings
<1>10. QED BY <1>1, <1>5, <1>6, <1>7, <1>9 DEF DropWritesFee

LEMMA DefaultWrites ==
  ASSUME NEW f \in TransferForms, NEW g \in TransferForms, NEW h, h = Transfer!DefaultCurrency(f, g)
  PROVE  /\ FeeOnly(g, h) /\ SameSettings(g.fee, h.fee) /\ (h.fee.pending <=> g.fee.pending)
         /\ h.fee.account = g.fee.account
         /\ Defaults(f) => h.fee.currency = FirstCurrency(f)
         /\ ~Defaults(f) => h.fee.currency = g.fee.currency /\ h.fee.format = g.fee.format
<1>1. PICK c : c = FirstCurrency(f)
  OBVIOUS
<1>2. PICK x : x = Transfer!FirstFormat(Transfer!formatsFor(f,
                     f.legs[IF c = Transfer!CurrencyOf(f, "out") /\ f.legs["out"].account # ""
                            THEN "out" ELSE "in"].account, c))
  OBVIOUS
<1>3. PICK fee : fee = [g.fee EXCEPT !.currency = c, !.format = x]
  OBVIOUS
<1>4. PICK k : k = [g EXCEPT !.fee = fee]
  OBVIOUS
<1>5. [g EXCEPT !.fee.currency = c, !.fee.format = x] = k
  BY <1>3, <1>4 DEF TransferForms
<1>6. c = Transfer!CurrencyOf(f, f.first)
  BY <1>1 DEF FirstCurrency, Transfer!CurrencyOf
<1>7. /\ ~Defaults(f) => h = g
      /\ Defaults(f) => h = k
  BY <1>1, <1>2, <1>5, <1>6 DEF Transfer!DefaultCurrency, Defaults
<1>8. FeeOnly(g, g) /\ SameSettings(g.fee, g.fee)
  BY DEF FeeOnly, SameSettings
<1>9. FeeOnly(g, k) /\ k.fee = fee
  BY <1>4, FeeReplaced
<1>10. g.fee \in FeeShapes
  BY TransferFields
<1>11. /\ SameSettings(g.fee, fee) /\ (fee.pending <=> g.fee.pending)
       /\ fee.account = g.fee.account /\ fee.currency = c /\ fee.format = x
  BY <1>3, <1>10 DEF FeeShapes, SameSettings
<1>12. QED BY <1>1, <1>7, <1>8, <1>9, <1>11

LEMMA SuggestWrites ==
  ASSUME NEW f \in TransferForms, NEW g \in TransferForms, g.legs = f.legs,
         NEW h, h = Transfer!SuggestByFee(f, Transfer!SuggestByQuote(f, g))
  PROVE  /\ LegsOnly(g, h)
         /\ h.legs = [f.legs EXCEPT ![Transfer!Second(f)] =
                        [f.legs[Transfer!Second(f)] EXCEPT !.amount = NextAmount(f)]]
<1>1. PICK s \in Sides : s = Transfer!Second(f)
  <2>1. f.first \in Sides
    BY TransferFields
  <2>2. QED BY <2>1, OtherSide DEF Transfer!Second
<1>2. f.legs \in [Sides -> Transfer!TransferLegs] /\ f.legs[s] \in Transfer!TransferLegs
  BY TransferFields
<1>3. PICK x, y : /\ x = Transfer!computeCounterpartFromAnchor(f)
                  /\ y = Transfer!computeSuggestedSecondLegAmount(f)
  OBVIOUS
<1>4. PICK put : put = [z \in {x, y} |-> [f.legs EXCEPT ![s] = [f.legs[s] EXCEPT !.amount = z]]]
  OBVIOUS
<1>5. \A k \in TransferForms, z \in {x, y} : k.legs = f.legs =>
         /\ LegsOnly(k, [k EXCEPT !.legs[s].amount = z])
         /\ [k EXCEPT !.legs[s].amount = z].legs = put[z]
  <2>1. TAKE k \in TransferForms, z \in {x, y}
  <2>2. SUFFICES ASSUME k.legs = f.legs
                 PROVE  /\ LegsOnly(k, [k EXCEPT !.legs[s].amount = z])
                        /\ [k EXCEPT !.legs[s].amount = z].legs = put[z]
    OBVIOUS
  <2>3. PICK l : l = [k EXCEPT !.legs = put[z]]
    OBVIOUS
  <2>4. [k EXCEPT !.legs[s].amount = z] = l
    BY <1>4, <2>2, <2>3 DEF TransferForms
  <2>5. LegsOnly(k, l) /\ l.legs = put[z]
    BY <2>3, LegsReplaced
  <2>6. QED BY <2>4, <2>5
<1>6. PICK n : n = NextAmount(f)
  OBVIOUS
<1>7. LegsOnly(g, g)
  BY DEF LegsOnly
<1>8. CASE ~Transfer!Suggests(f) \/ ~(Transfer!SameCurrency(f) \/ (Transfer!needsFxQuote(f) /\ f.rate > 0))
  <2>1. h = g
    BY <1>8 DEF Transfer!SuggestByFee, Transfer!SuggestByQuote
  <2>2. n = f.legs[s].amount
    BY <1>1, <1>6, <1>8 DEF NextAmount
  <2>3. f.legs[s] = [f.legs[s] EXCEPT !.amount = n]
    BY <1>2, <2>2 DEF Transfer!TransferLegs
  <2>4. f.legs = [f.legs EXCEPT ![s] = [f.legs[s] EXCEPT !.amount = n]]
    BY <1>2, <2>3
  <2>5. QED BY <1>1, <1>6, <1>7, <2>1, <2>4
<1>9. CASE Transfer!Suggests(f) /\ Transfer!SameCurrency(f)
  <2>1. ~Transfer!needsFxQuote(f)
    BY <1>9 DEF Transfer!needsFxQuote
  <2>2. h = [g EXCEPT !.legs[s].amount = y]
    BY <1>1, <1>3, <1>9, <2>1 DEF Transfer!SuggestByFee, Transfer!SuggestByQuote
  <2>3. n = y
    BY <1>3, <1>6, <1>9 DEF NextAmount
  <2>4. QED BY <1>1, <1>4, <1>5, <1>6, <2>2, <2>3
<1>10. CASE Transfer!Suggests(f) /\ ~Transfer!SameCurrency(f) /\ Transfer!needsFxQuote(f) /\ f.rate > 0
  <2>1. h = [g EXCEPT !.legs[s].amount = x]
    BY <1>1, <1>3, <1>10 DEF Transfer!SuggestByFee, Transfer!SuggestByQuote
  <2>2. n = x
    BY <1>3, <1>6, <1>10 DEF NextAmount
  <2>3. QED BY <1>1, <1>4, <1>5, <1>6, <2>1, <2>2
<1>11. QED BY <1>8, <1>9, <1>10

PassMakes(old, f, g) ==
    /\ g \in Settled /\ g \in TransferForms
    /\ SameBase(f, g) /\ FeeMoves(f, g) /\ SameSettings(f.fee, g.fee)
    /\ f \in Settled => (g.fee.pending <=> f.fee.pending)
    /\ g.legs = [f.legs EXCEPT ![Transfer!Second(f)] =
                   [f.legs[Transfer!Second(f)] EXCEPT !.amount = NextAmount(f)]]
    /\ old = f => g.asked = f.asked

(* A pass changes the second amount and the fee, as the effects say.       *)
LEMMA PassWrites ==
  ASSUME NEW old, NEW f \in TransferForms, NEW g, g = Transfer!Pass(old, f)
  PROVE  PassMakes(old, f, g)
<1>1. PICK g1 : g1 = Transfer!IncludedIsReal(f, f)
  OBVIOUS
<1>2. PICK g2 : g2 = Transfer!FollowLeg(f, g1)
  OBVIOUS
<1>3. PICK g3 : g3 = Transfer!DropCurrency(f, g2)
  OBVIOUS
<1>4. PICK g4 : g4 = Transfer!SuggestByQuote(f, g3)
  OBVIOUS
<1>5. PICK g5 : g5 = Transfer!SuggestByFee(f, g4)
  OBVIOUS
<1>6. PICK g6 : g6 = Transfer!DefaultCurrency(f, g5)
  OBVIOUS
<1>7. Settles(f, g1) /\ Settles(f, g2) /\ Settles(f, g3) /\ Settles(f, g4) /\ Settles(f, g5)
      /\ Settles(f, g6)
  <2>1. Settles(f, g1)
    BY <1>1, TickGoes
  <2>2. Settles(f, g2)
    BY <1>2, <2>1, FollowLegSettles
  <2>3. Settles(f, g3)
    BY <1>3, <2>2, DropCurrencySettles
  <2>4. Settles(f, g4)
    BY <1>4, <2>3, SuggestionsSettle
  <2>5. Settles(f, g5)
    BY <1>5, <2>4, SuggestionsSettle
  <2>6. QED BY <1>6, <2>1, <2>2, <2>3, <2>4, <2>5, DefaultCurrencySettles
<1>8. g1 \in TransferForms /\ g2 \in TransferForms /\ g3 \in TransferForms /\ g5 \in TransferForms
  BY <1>7 DEF Settles, Settled
<1>9. /\ FeeOnly(f, g1) /\ SameSettings(f.fee, g1.fee) /\ g1.fee.account = f.fee.account
      /\ g1.fee.currency = f.fee.currency /\ g1.fee.format = f.fee.format
  BY <1>1, TickWrites
<1>10. /\ FeeOnly(g1, g2) /\ SameSettings(g1.fee, g2.fee) /\ (g2.fee.pending <=> g1.fee.pending)
       /\ g2.fee.currency = g1.fee.currency
       /\ FollowsLeg(f) => g2.fee.account = Lead(f).account /\ g2.fee.format = Lead(f).format
       /\ ~FollowsLeg(f) => g2.fee.account = g1.fee.account /\ g2.fee.format = g1.fee.format
  BY <1>2, <1>8, FollowWrites
<1>11. /\ FeeOnly(g2, g3) /\ SameSettings(g2.fee, g3.fee) /\ (g3.fee.pending <=> g2.fee.pending)
       /\ g3.fee.account = g2.fee.account
       /\ Drops(f) => g3.fee.currency = "" /\ g3.fee.format = ""
       /\ ~Drops(f) => g3.fee.currency = g2.fee.currency /\ g3.fee.format = g2.fee.format
  <2>1. DropWritesFee(f, g2, g3)
    BY <1>3, <1>8, DropWrites
  <2>2. QED BY <2>1 DEF DropWritesFee
<1>12. PICK legs : legs = [f.legs EXCEPT ![Transfer!Second(f)] =
                             [f.legs[Transfer!Second(f)] EXCEPT !.amount = NextAmount(f)]]
  OBVIOUS
<1>13. LegsOnly(g3, g5) /\ g5.legs = legs
  <2>1. g3.legs = f.legs
    BY <1>9, <1>10, <1>11 DEF FeeOnly
  <2>2. g5 = Transfer!SuggestByFee(f, Transfer!SuggestByQuote(f, g3))
    BY <1>4, <1>5
  <2>3. QED BY <1>8, <1>12, <2>1, <2>2, SuggestWrites
<1>14. /\ FeeOnly(g5, g6) /\ SameSettings(g5.fee, g6.fee) /\ (g6.fee.pending <=> g5.fee.pending)
       /\ g6.fee.account = g5.fee.account
       /\ Defaults(f) => g6.fee.currency = FirstCurrency(f)
       /\ ~Defaults(f) => g6.fee.currency = g5.fee.currency /\ g6.fee.format = g5.fee.format
  BY <1>6, <1>8, DefaultWrites
<1>15. g6.asked = f.asked /\ g6.legs = legs /\ g6 \in TransferForms /\ g6 \in Settled
  <2>1. g6.asked = g5.asked /\ g5.asked = g3.asked /\ g3.asked = g2.asked /\ g2.asked = g1.asked
        /\ g1.asked = f.asked
    BY <1>9, <1>10, <1>11, <1>13, <1>14 DEF FeeOnly, LegsOnly
  <2>2. g6.legs = legs
    BY <1>13, <1>14 DEF FeeOnly
  <2>3. QED BY <1>7, <2>1, <2>2 DEF Settles, Settled
<1>16. /\ g6.first = f.first /\ (g6.edited <=> f.edited) /\ g6.rate = f.rate /\ g6.mode = f.mode
       /\ g6.functional = f.functional /\ (g6.fx <=> f.fx) /\ g6.lists = f.lists
  <2>1. /\ g3.first = f.first /\ (g3.edited <=> f.edited) /\ g3.rate = f.rate /\ g3.mode = f.mode
        /\ g3.functional = f.functional /\ (g3.fx <=> f.fx) /\ g3.lists = f.lists
    BY <1>9, <1>10, <1>11 DEF FeeOnly
  <2>2. QED BY <1>13, <1>14, <2>1 DEF FeeOnly, LegsOnly
<1>17. SameBase(f, g6)
  <2>1. f.first \in Sides /\ f.legs \in [Sides -> Transfer!TransferLegs]
    BY TransferFields
  <2>2. PICK s \in Sides : s = Transfer!Second(f) /\ s # f.first
    BY <2>1, OtherSide DEF Transfer!Second
  <2>3. PICK n : n = NextAmount(f)
    OBVIOUS
  <2>4. legs = [f.legs EXCEPT ![s] = [f.legs[s] EXCEPT !.amount = n]]
    BY <1>12, <2>2, <2>3
  <2>5. PICK leg : leg = f.legs[s] /\ leg \in Transfer!TransferLegs
    BY <2>1
  <2>6. PICK l : l = [leg EXCEPT !.amount = n]
    OBVIOUS
  <2>7. l.account = leg.account /\ l.currency = leg.currency /\ l.format = leg.format
        /\ (l.pending <=> leg.pending)
    BY <2>5, <2>6 DEF Transfer!TransferLegs
  <2>8. legs[s] = l /\ \A t \in Sides : t # s => legs[t] = f.legs[t]
    BY <2>1, <2>4, <2>5, <2>6
  <2>9. legs[f.first] = f.legs[f.first]
    BY <2>1, <2>2, <2>8
  <2>10. \A t \in Sides : /\ legs[t].account = f.legs[t].account
                          /\ legs[t].currency = f.legs[t].currency
                          /\ legs[t].format = f.legs[t].format
                          /\ (legs[t].pending <=> f.legs[t].pending)
    BY <2>5, <2>7, <2>8
  <2>11. QED BY <1>15, <1>16, <2>9, <2>10 DEF SameBase
<1>18. SameSettings(f.fee, g6.fee) /\ (f \in Settled => (g6.fee.pending <=> f.fee.pending))
  <2>1. f \in Settled => g1 = f
    BY <1>1, TickGoes
  <2>2. g5.fee = g3.fee
    BY <1>13 DEF LegsOnly
  <2>3. SameSettings(f.fee, g3.fee)
    BY <1>9, <1>10, <1>11 DEF SameSettings
  <2>4. SameSettings(f.fee, g6.fee)
    BY <1>14, <2>2, <2>3 DEF SameSettings
  <2>5. QED BY <1>10, <1>11, <1>14, <2>1, <2>2, <2>4
<1>19. FeeMoves(f, g6)
  <2>1. Defaults(f) => ~FollowsLeg(f) /\ ~Drops(f)
    BY DEF Defaults, FollowsLeg, ReadySides, Drops, Transfer!FeeSides
  <2>2. g5.fee = g3.fee
    BY <1>13 DEF LegsOnly
  <2>3. QED BY <1>9, <1>10, <1>11, <1>14, <2>1, <2>2 DEF FeeMoves
<1>20. PICK k : k = Transfer!Asking(f, g6)
  OBVIOUS
<1>21. /\ k \in Settled /\ k \in TransferForms /\ SameBase(f, k) /\ FeeMoves(f, k)
       /\ SameSettings(f.fee, k.fee) /\ (f \in Settled => (k.fee.pending <=> f.fee.pending))
       /\ k.legs = legs
  <2>1. Settles(f, k)
    BY <1>7, <1>20, AskingSettles
  <2>2. PICK asked : k = [g6 EXCEPT !.asked = asked]
    BY <1>20 DEF Transfer!Asking
  <2>3. /\ k.fee = g6.fee /\ k.legs = g6.legs /\ k.first = g6.first /\ (k.edited <=> g6.edited)
        /\ k.rate = g6.rate /\ k.mode = g6.mode /\ k.functional = g6.functional
        /\ (k.fx <=> g6.fx) /\ k.lists = g6.lists
    BY <1>15, <2>2 DEF TransferForms
  <2>4. SameBase(f, k)
    BY <1>17, <2>3 DEF SameBase
  <2>5. FeeMoves(f, k)
    BY <1>19, <2>3 DEF FeeMoves
  <2>6. QED BY <1>15, <1>18, <2>1, <2>3, <2>4, <2>5 DEF Settles, Settled
<1>22. g \in {g6, k} /\ (old = f => g = g6)
  BY <1>1, <1>2, <1>3, <1>4, <1>5, <1>6, <1>20 DEF Transfer!Pass
<1>23. QED BY <1>12, <1>15, <1>17, <1>18, <1>19, <1>21, <1>22 DEF PassMakes

\* The first leg is complete and the lists of the legs arrived.
LegsAreFit(f) ==
    /\ f.legs[f.first].format # ""
    /\ \A s \in Sides : f.legs[s].account # "" => f.lists[f.legs[s].account] = "here"

FeeRests(f) ==
    /\ ~Drops(f) /\ ~Defaults(f)
    /\ FollowsLeg(f) => f.fee.account = Lead(f).account /\ f.fee.format = Lead(f).format

\* On its way the fee has no currency, or that of the first leg; at home its account takes that one.
NoCurrency(f) == f.fee.currency = ""
OfFirst(f) == f.fee.currency = FirstCurrency(f)
AtHome(f) == FirstCurrency(f) \in Transfer!Shown(Transfer!List(f, f.fee.account))

LEMMA BaseStays ==
  ASSUME NEW f \in TransferForms, NEW g \in TransferForms, SameBase(f, g)
  PROVE  /\ LegsAreFit(f) <=> LegsAreFit(g)
         /\ FirstCurrency(g) = FirstCurrency(f)
         /\ \A a : Transfer!List(g, a) = Transfer!List(f, a)
<1>1. f.first \in Sides
  BY TransferFields
<1>2. FirstCurrency(g) = FirstCurrency(f)
  BY DEF SameBase, FirstCurrency
<1>3. \A a : Transfer!List(g, a) = Transfer!List(f, a)
  BY DEF SameBase, Transfer!List
<1>4. g.legs[g.first].format = f.legs[f.first].format
  BY DEF SameBase
<1>5. \A s \in Sides : g.legs[s].account = f.legs[s].account
  BY DEF SameBase
<1>6. g.lists = f.lists
  BY DEF SameBase
<1>7. LegsAreFit(f) <=> LegsAreFit(g)
  BY <1>4, <1>5, <1>6 DEF LegsAreFit
<1>8. QED BY <1>2, <1>3, <1>7

(* A leg with its format is in a currency its account is known to have.    *)
LEMMA ReadyIsListed ==
  ASSUME NEW f \in TransferForms, LegsAreFit(f), NEW s \in Sides, f.legs[s].format # ""
  PROVE  /\ f.legs[s].account # "" /\ f.legs[s].currency # ""
         /\ f.legs[s].currency \in Transfer!Shown(Transfer!List(f, f.legs[s].account))
<1>1. PICK leg : leg = f.legs[s]
  OBVIOUS
<1>2. leg \in Transfer!TransferLegs /\ leg.format # ""
  BY <1>1, TransferFields
<1>3. /\ leg.currency # "" /\ leg.account # "" /\ leg.currency \in Maybe(Currencies)
      /\ Transfer!PairTakes(leg.account, leg.currency, leg.format)
  BY <1>2, TransferLegFields
<1>4. Transfer!List(f, leg.account) = leg.account
  BY <1>1, <1>3 DEF LegsAreFit, Transfer!List
<1>5. leg.format \in Transfer!AllowedFormats(leg.account, leg.currency)
  BY <1>3 DEF Transfer!PairTakes, Transfer!AllowedFormats
<1>6. leg.currency \in Currencies
  BY <1>3 DEF Maybe
<1>7. QED BY <1>1, <1>3, <1>4, <1>5, <1>6 DEF Transfer!Shown

LEMMA LeadIsListed ==
  ASSUME NEW f \in TransferForms, LegsAreFit(f), ReadySides(f) # {}
  PROVE  /\ Lead(f).account # "" /\ Lead(f).currency = f.fee.currency
         /\ f.fee.currency \in Transfer!Shown(Transfer!List(f, Lead(f).account))
<1>1. PICK s \in Sides : s \in ReadySides(f) /\ Lead(f) = f.legs[s]
  BY SameSets DEF ReadySides, Transfer!FeeSides, Lead, Sides
<1>2. f.legs[s].format # "" /\ f.legs[s].currency = f.fee.currency
  BY <1>1 DEF ReadySides, Transfer!FeeSides, Transfer!Ready, Transfer!CurrencyOf
<1>3. QED BY <1>1, <1>2, ReadyIsListed

(* A fee in the currency of a first leg that has its format follows a leg. *)
LEMMA FirstIsFollowed ==
  ASSUME NEW f \in TransferForms, LegsAreFit(f)
  PROVE  /\ FirstCurrency(f) # ""
         /\ FirstCurrency(f) \in Transfer!feeLegCurrencyOptions(f)
         /\ OfFirst(f) => ReadySides(f) # {}
<1>1. PICK s \in Sides : s = f.first
  BY TransferFields
<1>2. f.legs[s].format # "" /\ FirstCurrency(f) = f.legs[s].currency
  BY <1>1 DEF LegsAreFit, FirstCurrency
<1>3. /\ f.legs[s].account # "" /\ f.legs[s].currency # ""
      /\ f.legs[s].currency \in Transfer!Shown(Transfer!List(f, f.legs[s].account))
  BY <1>2, ReadyIsListed
<1>4. FirstCurrency(f) \in Transfer!feeLegCurrencyOptions(f)
  <2>1. f.legs[s].account \in {f.legs["out"].account, f.legs["in"].account, f.fee.account}
    BY SameSets
  <2>2. QED BY <1>2, <1>3, <2>1 DEF Transfer!feeLegCurrencyOptions
<1>5. ASSUME OfFirst(f)
      PROVE  s \in ReadySides(f)
  BY <1>2, <1>3, <1>5 DEF OfFirst, ReadySides, Transfer!FeeSides, Transfer!Ready, Transfer!CurrencyOf,
                          Sides
<1>6. QED BY <1>2, <1>3, <1>4, <1>5

LEMMA SameFee ==
  ASSUME NEW p \in FeeShapes, NEW q \in FeeShapes, SameSettings(p, q), (q.pending <=> p.pending),
         q.account = p.account, q.currency = p.currency, q.format = p.format
  PROVE  q = p
BY DEF FeeShapes, SameSettings

(* A fee at rest stays as it is.                                           *)
LEMMA FeeStays ==
  ASSUME NEW f \in TransferForms, NEW g \in TransferForms, SameBase(f, g), FeeMoves(f, g),
         SameSettings(f.fee, g.fee), (g.fee.pending <=> f.fee.pending), FeeRests(f)
  PROVE  g.fee = f.fee /\ FeeRests(g)
<1>1. g.fee.account = f.fee.account /\ g.fee.currency = f.fee.currency /\ g.fee.format = f.fee.format
  BY DEF FeeMoves, FeeRests
<1>2. g.fee = f.fee
  <2>1. f.fee \in FeeShapes /\ g.fee \in FeeShapes
    BY TransferFields
  <2>2. QED BY <1>1, <2>1, SameFee
<1>3. \A a : Transfer!List(g, a) = Transfer!List(f, a)
  BY BaseStays
<1>4. ~Drops(g)
  BY <1>2, <1>3 DEF Drops, FeeRests
<1>5. g.legs["out"].account = f.legs["out"].account /\ g.legs["in"].account = f.legs["in"].account
  BY SameSets DEF SameBase
<1>6. Transfer!feeLegCurrencyOptions(g) = Transfer!feeLegCurrencyOptions(f)
  BY <1>2, <1>3, <1>5 DEF Transfer!feeLegCurrencyOptions
<1>7. ~Defaults(g)
  <2>1. FirstCurrency(g) = FirstCurrency(f)
    BY BaseStays
  <2>2. QED BY <1>2, <1>6, <2>1 DEF Defaults, FeeRests
<1>8. ReadySides(g) = ReadySides(f)
  BY <1>2 DEF ReadySides, Transfer!FeeSides, Transfer!Ready, Transfer!CurrencyOf, SameBase, Sides
<1>9. Lead(g).account = Lead(f).account /\ Lead(g).format = Lead(f).format
  BY <1>8, SameSets DEF Lead, SameBase
<1>10. FollowsLeg(g) => g.fee.account = Lead(g).account /\ g.fee.format = Lead(g).format
  BY <1>2, <1>8, <1>9 DEF FollowsLeg, FeeRests
<1>11. QED BY <1>2, <1>4, <1>7, <1>10 DEF FeeRests

(* A fee whose currency stays, in an account that takes it, rests after it *)
(* took account and format of its leg.                                     *)
LEMMA FeeComesToRest ==
  ASSUME NEW f \in TransferForms, NEW g \in TransferForms, SameBase(f, g), FeeMoves(f, g),
         SameSettings(f.fee, g.fee), LegsAreFit(f), ~Drops(f), f.fee.currency # ""
  PROVE  FeeRests(g)
<1>1. /\ g.fee.currency = f.fee.currency
      /\ FollowsLeg(f) => g.fee.account = Lead(f).account /\ g.fee.format = Lead(f).format
      /\ ~FollowsLeg(f) => g.fee.account = f.fee.account /\ g.fee.format = f.fee.format
  BY DEF FeeMoves, Defaults
<1>2. \A a : Transfer!List(g, a) = Transfer!List(f, a)
  BY BaseStays
<1>3. ReadySides(g) = ReadySides(f)
  BY <1>1 DEF ReadySides, Transfer!FeeSides, Transfer!Ready, Transfer!CurrencyOf, SameBase, Sides
<1>4. Lead(g).account = Lead(f).account /\ Lead(g).format = Lead(f).format
  BY <1>3, SameSets DEF Lead, SameBase
<1>5. FollowsLeg(g) <=> FollowsLeg(f)
  BY <1>3 DEF FollowsLeg, SameSettings
<1>6. ~Drops(g)
  <2>1. CASE FollowsLeg(f)
    <3>1. f.fee.currency \in Transfer!Shown(Transfer!List(f, Lead(f).account))
      BY <2>1, LeadIsListed DEF FollowsLeg
    <3>2. QED BY <1>1, <1>2, <2>1, <3>1 DEF Drops
  <2>2. CASE ~FollowsLeg(f)
    BY <1>1, <1>2, <2>2 DEF Drops
  <2>3. QED BY <2>1, <2>2
<1>7. ~Defaults(g)
  BY <1>1 DEF Defaults
<1>8. QED BY <1>1, <1>4, <1>5, <1>6, <1>7 DEF FeeRests

(* A fee that is off loses at most its currency.                           *)
LEMMA FeeOffRests ==
  ASSUME NEW f \in TransferForms, NEW g \in TransferForms, SameBase(f, g), FeeMoves(f, g),
         SameSettings(f.fee, g.fee), ~f.fee.on
  PROVE  FeeRests(g)
<1>1. ~g.fee.on
  BY DEF SameSettings
<1>2. ~Defaults(g) /\ ~FollowsLeg(g)
  BY <1>1 DEF Defaults, FollowsLeg
<1>3. \A a : Transfer!List(g, a) = Transfer!List(f, a)
  BY BaseStays
<1>4. CASE Drops(f)
  BY <1>2, <1>4 DEF FeeMoves, Drops, FeeRests
<1>5. CASE ~Drops(f)
  <2>1. g.fee.account = f.fee.account /\ g.fee.currency = f.fee.currency
    BY <1>5 DEF FeeMoves, Defaults, FollowsLeg
  <2>2. QED BY <1>2, <1>3, <1>5, <2>1 DEF Drops, FeeRests
<1>6. QED BY <1>4, <1>5

(* The way of a fee to rest: without a currency it takes that of the first *)
(* leg, which it loses once more if its account does not take it, but not  *)
(* in the account of a leg.                                                *)
LEMMA FeeComesNearer ==
  ASSUME NEW f \in TransferForms, NEW g \in TransferForms, SameBase(f, g), FeeMoves(f, g),
         SameSettings(f.fee, g.fee), LegsAreFit(f), f.fee.on
  PROVE  /\ FeeRests(g) \/ NoCurrency(g) \/ OfFirst(g)
         /\ NoCurrency(f) => OfFirst(g)
         /\ NoCurrency(f) /\ AtHome(f) => OfFirst(g) /\ AtHome(g)
         /\ OfFirst(f) => FeeRests(g) \/ (NoCurrency(g) /\ AtHome(g))
         /\ OfFirst(f) /\ AtHome(f) => FeeRests(g)
<1>1. /\ FirstCurrency(g) = FirstCurrency(f)
      /\ \A a : Transfer!List(g, a) = Transfer!List(f, a)
  BY BaseStays
<1>2. FirstCurrency(f) # "" /\ FirstCurrency(f) \in Transfer!feeLegCurrencyOptions(f)
  BY FirstIsFollowed
<1>3. ASSUME NoCurrency(f)
      PROVE  OfFirst(g) /\ g.fee.account = f.fee.account
  <2>1. Defaults(f) /\ ~Drops(f)
    BY <1>2, <1>3 DEF Defaults, Drops, NoCurrency
  <2>2. g.fee.currency = FirstCurrency(f)
    BY <2>1 DEF FeeMoves
  <2>3. ReadySides(f) = {}
    BY <1>3 DEF ReadySides, Transfer!FeeSides, NoCurrency
  <2>4. g.fee.account = f.fee.account
    BY <2>3 DEF FeeMoves, FollowsLeg
  <2>5. QED BY <1>1, <2>2, <2>4 DEF OfFirst
<1>4. ASSUME AtHome(f), g.fee.account = f.fee.account
      PROVE  AtHome(g)
  BY <1>1, <1>4 DEF AtHome
<1>5. ASSUME ~NoCurrency(f), ~Drops(f)
      PROVE  FeeRests(g)
  BY <1>5, FeeComesToRest DEF NoCurrency
<1>6. ASSUME Drops(f)
      PROVE  NoCurrency(g)
  BY <1>6 DEF FeeMoves, NoCurrency
<1>7. ASSUME OfFirst(f)
      PROVE  ~NoCurrency(f)
  BY <1>2, <1>7 DEF OfFirst, NoCurrency
<1>8. ASSUME OfFirst(f), Drops(f)
      PROVE  AtHome(g)
  <2>1. ReadySides(f) # {}
    BY <1>8, FirstIsFollowed
  <2>2. f.fee.currency \in Transfer!Shown(Transfer!List(f, Lead(f).account))
    BY <2>1, LeadIsListed
  <2>3. g.fee.account = Lead(f).account
    BY <2>1 DEF FeeMoves, FollowsLeg
  <2>4. QED BY <1>1, <1>8, <2>2, <2>3 DEF AtHome, OfFirst
<1>9. ASSUME OfFirst(f), AtHome(f)
      PROVE  ~Drops(f)
  BY <1>9 DEF OfFirst, AtHome, Drops
<1>10. QED BY <1>3, <1>4, <1>5, <1>6, <1>7, <1>8, <1>9

LEMMA NoPercentOfAny == \A a \in Nat : Transfer!PercentOf(a, 0) = 0
<1>1. \A a \in Nat, short \in {0, 1} : (2 * a * 0 + 100 - short) \div (2 * 100) = 0
  OBVIOUS
<1>2. \A a \in Nat : (IF <<a, 0, 100>> \in TransferShortOfHalf THEN 1 ELSE 0) \in {0, 1}
  OBVIOUS
<1>3. QED BY <1>1, <1>2 DEF Transfer!PercentOf, Transfer!RoundedByClient

(* With the fee at rest a suggestion does not depend on the second amount. *)
LEMMA SuggestionStays ==
  ASSUME NEW f \in TransferForms, NEW g \in TransferForms, SameBase(f, g), g.fee = f.fee,
         Transfer!SameCurrency(f),
         f.fee.on /\ f.fee.mode = "PERCENT" => Transfer!FeeSides(f) # {}
  PROVE  Transfer!computeSuggestedSecondLegAmount(g) = Transfer!computeSuggestedSecondLegAmount(f)
<1>1. f.first \in Sides /\ g.first = f.first /\ f.fee \in FeeShapes
  BY TransferFields DEF SameBase
<1>2. \A s \in Sides : Transfer!CurrencyOf(g, s) = Transfer!CurrencyOf(f, s)
  BY DEF SameBase, Transfer!CurrencyOf
<1>3. Transfer!Sum(g) = Transfer!Sum(f)
  BY DEF SameBase, Transfer!Sum
<1>4. Transfer!FeeInBothLegs(g) <=> Transfer!FeeInBothLegs(f)
  BY <1>2 DEF Transfer!FeeInBothLegs, Transfer!FeeSides, Sides
<1>5. ASSUME f.fee.on, f.fee.treatment # "INCLUIDA"
      PROVE  Transfer!FeeForSuggestion(g) = Transfer!FeeForSuggestion(f)
  <2>1. f.fee.treatment = "APARTE" /\ f.fee.mode \in {"PERCENT", "FIXED"} /\ f.fee.value \in Nat
    BY <1>1, <1>5, FeeFields
  <2>2. CASE f.fee.mode = "FIXED"
    <3>1. Transfer!expectedFee(g) = f.fee.value /\ Transfer!expectedFee(f) = f.fee.value
      BY <1>5, <2>2 DEF Transfer!expectedFee
    <3>2. QED BY <2>2, <3>1 DEF Transfer!FeeForSuggestion
  <2>3. CASE f.fee.mode = "PERCENT" /\ f.fee.value > 0
    <3>1. PICK s \in Sides : f.fee.currency # "" /\ f.fee.currency = Transfer!CurrencyOf(f, s)
      BY <1>5, <2>3 DEF Transfer!FeeSides, Sides
    <3>2. \A t \in Sides : Transfer!CurrencyOf(f, t) = f.fee.currency
      BY <3>1, SameSets DEF Transfer!SameCurrency
    <3>3. /\ f.fee.currency = Transfer!CurrencyOf(f, f.first)
          /\ f.fee.currency = Transfer!CurrencyOf(g, g.first)
      BY <1>1, <1>2, <3>2
    <3>4. PICK x : x = Transfer!PercentOf(Transfer!Sum(f), f.fee.value)
      OBVIOUS
    <3>5. Transfer!FeeForSuggestion(f) = x
      BY <1>5, <2>1, <2>3, <3>1, <3>3, <3>4 DEF Transfer!FeeForSuggestion
    <3>6. Transfer!FeeForSuggestion(g) = x
      BY <1>3, <1>5, <2>1, <2>3, <3>1, <3>3, <3>4 DEF Transfer!FeeForSuggestion
    <3>7. QED BY <3>5, <3>6
  <2>4. CASE f.fee.mode = "PERCENT" /\ ~(f.fee.value > 0)
    <3>1. f.fee.value = 0
      BY <2>1, <2>4
    <3>2. \A k \in TransferForms, s \in Sides : Transfer!Abs(k.legs[s].amount) \in Nat
      BY TransferFields, TransferLegFields DEF Transfer!Abs, Transfer!Unset
    <3>3. \A k \in TransferForms, s \in Sides : Transfer!PercentOf(Transfer!Abs(k.legs[s].amount), 0) = 0
      BY <3>2, NoPercentOfAny
    <3>4. ASSUME NEW k \in TransferForms, k.fee = f.fee
          PROVE  Transfer!FeeForSuggestion(k) = 0
      <4>1. PICK s \in Sides : s = IF k.fee.currency = Transfer!CurrencyOf(k, "out") THEN "out" ELSE "in"
        BY SameSets
      <4>2. Transfer!PercentOf(Transfer!Abs(k.legs[s].amount), k.fee.value) = 0
        BY <3>1, <3>3, <3>4
      <4>3. k.fee.on /\ k.fee.mode # "FIXED"
        BY <1>5, <2>4, <3>4
      <4>4. Transfer!expectedFee(k) = 0
        BY <4>1, <4>2, <4>3 DEF Transfer!expectedFee
      <4>5. ~(k.fee.value > 0)
        BY <2>4, <3>4
      <4>6. QED BY <4>4, <4>5 DEF Transfer!FeeForSuggestion
    <3>5. QED BY <3>4
  <2>5. QED BY <2>1, <2>2, <2>3, <2>4
<1>6. CASE ~f.fee.on \/ f.fee.treatment = "INCLUIDA"
  BY <1>3, <1>6 DEF Transfer!computeSuggestedSecondLegAmount
<1>7. CASE f.fee.on /\ f.fee.treatment # "INCLUIDA"
  BY <1>1, <1>3, <1>4, <1>5, <1>7 DEF Transfer!computeSuggestedSecondLegAmount
<1>8. QED BY <1>6, <1>7

(* After a pass with the fee at rest the second amount is what the next    *)
(* one makes of it.                                                        *)
LEMMA AmountRests ==
  ASSUME NEW f \in TransferForms, NEW g \in TransferForms, SameBase(f, g), g.fee = f.fee,
         f.fee.on /\ f.fee.mode = "PERCENT" => Transfer!FeeSides(f) # {},
         g.legs = [f.legs EXCEPT ![Transfer!Second(f)] =
                      [f.legs[Transfer!Second(f)] EXCEPT !.amount = NextAmount(f)]]
  PROVE  NextAmount(g) = g.legs[Transfer!Second(g)].amount
<1>1. PICK s \in Sides : s = Transfer!Second(f) /\ s = Transfer!Second(g)
  <2>1. f.first \in Sides /\ g.first = f.first
    BY TransferFields DEF SameBase
  <2>2. QED BY <2>1, OtherSide DEF Transfer!Second
<1>2. g.legs[s].amount = NextAmount(f)
  <2>1. PICK n : n = NextAmount(f)
    OBVIOUS
  <2>2. f.legs \in [Sides -> Transfer!TransferLegs] /\ f.legs[s] \in Transfer!TransferLegs
    BY TransferFields
  <2>3. PICK leg : leg = [f.legs[s] EXCEPT !.amount = n]
    OBVIOUS
  <2>4. leg.amount = n
    BY <2>2, <2>3 DEF Transfer!TransferLegs
  <2>5. g.legs = [f.legs EXCEPT ![s] = leg]
    BY <1>1, <2>1, <2>3
  <2>6. g.legs[s] = leg
    BY <2>2, <2>5
  <2>7. QED BY <2>1, <2>4, <2>6
<1>3. \A t \in Sides : Transfer!CurrencyOf(g, t) = Transfer!CurrencyOf(f, t)
  BY DEF SameBase, Transfer!CurrencyOf
<1>4. Transfer!CurrencyOf(g, "out") = Transfer!CurrencyOf(f, "out")
      /\ Transfer!CurrencyOf(g, "in") = Transfer!CurrencyOf(f, "in")
  BY <1>3, SameSets
<1>5. Transfer!Sum(g) = Transfer!Sum(f)
  BY DEF SameBase, Transfer!Sum
<1>6. Transfer!Suggests(g) <=> Transfer!Suggests(f)
  BY <1>5 DEF Transfer!Suggests, SameBase
<1>7. Transfer!SameCurrency(g) <=> Transfer!SameCurrency(f)
  BY <1>4 DEF Transfer!SameCurrency
<1>8. Transfer!needsFxQuote(g) <=> Transfer!needsFxQuote(f)
  <2>1. {Transfer!CurrencyOf(g, t) : t \in Sides} = {Transfer!CurrencyOf(f, t) : t \in Sides}
    BY <1>3
  <2>2. g.functional = f.functional
    BY DEF SameBase
  <2>3. QED BY <1>7, <2>1, <2>2 DEF Transfer!needsFxQuote, Sides
<1>9. CASE Transfer!Suggests(f) /\ Transfer!SameCurrency(f)
  <2>1. Transfer!computeSuggestedSecondLegAmount(g) = Transfer!computeSuggestedSecondLegAmount(f)
    BY <1>9, SuggestionStays
  <2>2. QED BY <1>1, <1>2, <1>6, <1>7, <1>9, <2>1 DEF NextAmount
<1>10. CASE Transfer!Suggests(f) /\ ~Transfer!SameCurrency(f) /\ Transfer!needsFxQuote(f) /\ f.rate > 0
  <2>1. f.first \in Sides /\ g.first = f.first /\ g.rate = f.rate /\ g.mode = f.mode
        /\ g.functional = f.functional
    BY TransferFields DEF SameBase
  <2>2. Transfer!CurrencyOf(g, g.first) = Transfer!CurrencyOf(f, f.first)
    BY <1>3, <2>1
  <2>3. Transfer!computeCounterpartFromAnchor(g) = Transfer!computeCounterpartFromAnchor(f)
    BY <1>5, <2>1, <2>2 DEF Transfer!computeCounterpartFromAnchor
  <2>4. QED BY <1>1, <1>2, <1>6, <1>7, <1>8, <1>10, <2>1, <2>3 DEF NextAmount
<1>11. CASE ~(Transfer!Suggests(f) /\ Transfer!SameCurrency(f))
            /\ ~(Transfer!Suggests(f) /\ Transfer!needsFxQuote(f) /\ f.rate > 0)
  <2>1. g.rate = f.rate
    BY DEF SameBase
  <2>2. QED BY <1>1, <1>6, <1>7, <1>8, <1>11, <2>1 DEF NextAmount
<1>12. QED BY <1>9, <1>10, <1>11

LEMMA SameForm ==
  ASSUME NEW f \in TransferForms, NEW g \in TransferForms,
         g.legs = f.legs, g.fee = f.fee, g.rate = f.rate, g.mode = f.mode, g.first = f.first,
         g.edited = f.edited, g.functional = f.functional, g.fx = f.fx, g.lists = f.lists,
         g.asked = f.asked
  PROVE  g = f
<1>1. PICK A, B : A = [Sides -> Transfer!TransferLegs] /\ B = FeeShapes
  OBVIOUS
<1>2. PICK C, D, E : C = Nat /\ D = {"MULTIPLY", "DIVIDE"} /\ E = Sides
  OBVIOUS
<1>3. PICK F, G : F = BOOLEAN /\ G = {"", Functional}
  OBVIOUS
<1>4. PICK I, J : I = [Accounts -> {"absent", "here", "failed"}] /\ J = [Accounts -> 0..MaxAsked]
  OBVIOUS
<1>5. TransferForms = [legs : A, fee : B, rate : C, mode : D, first : E, edited : F,
                       functional : G, fx : F, lists : I, asked : J]
  BY <1>1, <1>2, <1>3, <1>4 DEF TransferForms
<1>6. QED BY <1>5

(* With fee and amount at rest a pass changes nothing.                     *)
LEMMA RestIsStill ==
  ASSUME NEW f \in Settled, FeeRests(f), NextAmount(f) = f.legs[Transfer!Second(f)].amount
  PROVE  Transfer!Pass(f, f) = f
<1>1. f \in TransferForms
  BY DEF Settled
<1>2. PICK g : g = Transfer!Pass(f, f)
  OBVIOUS
<1>3. /\ g \in TransferForms /\ SameBase(f, g) /\ FeeMoves(f, g) /\ SameSettings(f.fee, g.fee)
      /\ (g.fee.pending <=> f.fee.pending) /\ g.asked = f.asked
      /\ g.legs = [f.legs EXCEPT ![Transfer!Second(f)] =
                      [f.legs[Transfer!Second(f)] EXCEPT !.amount = NextAmount(f)]]
  <2>1. PassMakes(f, f, g)
    BY <1>1, <1>2, PassWrites
  <2>2. QED BY <2>1 DEF PassMakes
<1>4. g.fee = f.fee
  BY <1>1, <1>3, FeeStays
<1>5. g.legs = f.legs
  <2>1. PICK s \in Sides : s = Transfer!Second(f)
    <3>1. f.first \in Sides
      BY <1>1, TransferFields
    <3>2. QED BY <3>1, OtherSide DEF Transfer!Second
  <2>2. f.legs \in [Sides -> Transfer!TransferLegs] /\ f.legs[s] \in Transfer!TransferLegs
    BY <1>1, TransferFields
  <2>3. PICK n : n = NextAmount(f) /\ n = f.legs[s].amount
    BY <2>1
  <2>4. [f.legs[s] EXCEPT !.amount = n] = f.legs[s]
    BY <2>2, <2>3 DEF Transfer!TransferLegs
  <2>5. PICK leg : leg = [f.legs[s] EXCEPT !.amount = n]
    OBVIOUS
  <2>6. g.legs = [f.legs EXCEPT ![s] = leg]
    BY <1>3, <2>1, <2>3, <2>5
  <2>7. QED BY <2>2, <2>4, <2>5, <2>6
<1>6. /\ g.first = f.first /\ (g.edited <=> f.edited) /\ g.rate = f.rate /\ g.mode = f.mode
      /\ g.functional = f.functional /\ (g.fx <=> f.fx) /\ g.lists = f.lists
  BY <1>3 DEF SameBase
<1>7. g = f
  <2>1. g.edited = f.edited /\ g.fx = f.fx
    <3>1. /\ f.edited \in BOOLEAN /\ g.edited \in BOOLEAN /\ f.fx \in BOOLEAN /\ g.fx \in BOOLEAN
      BY <1>1, <1>3, TransferFields
    <3>2. QED BY <1>6, <3>1
  <2>2. QED BY <1>1, <1>3, <1>4, <1>5, <1>6, <2>1, SameForm
<1>8. QED BY <1>2, <1>7

(* The fee rests once it did, or is off, or was at home.                   *)
LEMMA PassBringsNearer ==
  ASSUME NEW old, NEW f \in TransferForms, NEW g, PassMakes(old, f, g)
  PROVE  /\ g \in TransferForms /\ g \in Settled
         /\ (g.fee.on <=> f.fee.on) /\ (LegsAreFit(g) <=> LegsAreFit(f))
         /\ ~f.fee.on => FeeRests(g)
         /\ f \in Settled /\ FeeRests(f) => FeeRests(g) /\ g.fee = f.fee
         /\ f.fee.on /\ LegsAreFit(f) =>
              /\ FeeRests(g) \/ NoCurrency(g) \/ OfFirst(g)
              /\ NoCurrency(f) => OfFirst(g)
              /\ NoCurrency(f) /\ AtHome(f) => OfFirst(g) /\ AtHome(g)
              /\ OfFirst(f) => FeeRests(g) \/ (NoCurrency(g) /\ AtHome(g))
              /\ OfFirst(f) /\ AtHome(f) => FeeRests(g)
<1>1. /\ g \in TransferForms /\ g \in Settled /\ SameBase(f, g) /\ FeeMoves(f, g)
      /\ SameSettings(f.fee, g.fee) /\ (f \in Settled => (g.fee.pending <=> f.fee.pending))
  BY DEF PassMakes
<1>2. (g.fee.on <=> f.fee.on) /\ (LegsAreFit(g) <=> LegsAreFit(f))
  BY <1>1, BaseStays DEF SameSettings
<1>3. ~f.fee.on => FeeRests(g)
  BY <1>1, FeeOffRests
<1>4. f \in Settled /\ FeeRests(f) => FeeRests(g) /\ g.fee = f.fee
  BY <1>1, FeeStays
<1>5. f.fee.on /\ LegsAreFit(f) =>
        /\ FeeRests(g) \/ NoCurrency(g) \/ OfFirst(g)
        /\ NoCurrency(f) => OfFirst(g)
        /\ NoCurrency(f) /\ AtHome(f) => OfFirst(g) /\ AtHome(g)
        /\ OfFirst(f) => FeeRests(g) \/ (NoCurrency(g) /\ AtHome(g))
        /\ OfFirst(f) /\ AtHome(f) => FeeRests(g)
  BY <1>1, FeeComesNearer
<1>6. QED BY <1>1, <1>2, <1>3, <1>4, <1>5

\* What keeps a transfer form from coming to rest.
Restless(f) ==
    f.fee.on /\ \/ ~LegsAreFit(f)
                \/ f.fee.mode = "PERCENT" /\ Transfer!FeeSides(f) = {}

(* The fee rests after five passes at most and the amount after one more.  *)
LEMMA SixPassesRest ==
  ASSUME NEW f0 \in TransferForms, NEW f1, NEW f2, NEW f3, NEW f4, NEW f5, NEW f6, NEW old,
         PassMakes(old, f0, f1), PassMakes(f0, f1, f2), PassMakes(f1, f2, f3),
         PassMakes(f2, f3, f4), PassMakes(f3, f4, f5), PassMakes(f4, f5, f6), ~Restless(f6)
  PROVE  Transfer!Pass(f6, f6) = f6
<1> DEFINE Nearer(f, g) ==
      /\ g \in TransferForms /\ g \in Settled
      /\ (g.fee.on <=> f.fee.on) /\ (LegsAreFit(g) <=> LegsAreFit(f))
      /\ ~f.fee.on => FeeRests(g)
      /\ f \in Settled /\ FeeRests(f) => FeeRests(g) /\ g.fee = f.fee
      /\ f.fee.on /\ LegsAreFit(f) =>
           /\ FeeRests(g) \/ NoCurrency(g) \/ OfFirst(g)
           /\ NoCurrency(f) => OfFirst(g)
           /\ NoCurrency(f) /\ AtHome(f) => OfFirst(g) /\ AtHome(g)
           /\ OfFirst(f) => FeeRests(g) \/ (NoCurrency(g) /\ AtHome(g))
           /\ OfFirst(f) /\ AtHome(f) => FeeRests(g)
<1>1. \A p, f, g : f \in TransferForms /\ PassMakes(p, f, g) => Nearer(f, g)
  BY PassBringsNearer
<1> HIDE DEF Nearer
<1>2. \A f, g : Nearer(f, g) => g \in TransferForms /\ g \in Settled
  BY DEF Nearer
<1>3. /\ Nearer(f0, f1) /\ f1 \in TransferForms /\ f1 \in Settled
  BY <1>1, <1>2
<1>4. /\ Nearer(f1, f2) /\ f2 \in TransferForms /\ f2 \in Settled
  BY <1>1, <1>2, <1>3
<1>5. /\ Nearer(f2, f3) /\ f3 \in TransferForms /\ f3 \in Settled
  BY <1>1, <1>2, <1>4
<1>6. /\ Nearer(f3, f4) /\ f4 \in TransferForms /\ f4 \in Settled
  BY <1>1, <1>2, <1>5
<1>7. /\ Nearer(f4, f5) /\ f5 \in TransferForms /\ f5 \in Settled
  BY <1>1, <1>2, <1>6
<1>8. /\ Nearer(f5, f6) /\ f6 \in TransferForms /\ f6 \in Settled
  BY <1>1, <1>2, <1>7
<1>9. \A f, g : Nearer(f, g) => (g.fee.on <=> f.fee.on) /\ (LegsAreFit(g) <=> LegsAreFit(f))
  BY DEF Nearer
<1>10. \A f, g : Nearer(f, g) /\ f \in Settled /\ FeeRests(f) => FeeRests(g)
  BY DEF Nearer
<1>11. FeeRests(f5)
  <2>1. CASE ~f0.fee.on
    <3>1. FeeRests(f1)
      BY <1>3, <2>1 DEF Nearer
    <3>2. FeeRests(f2)
      BY <1>3, <1>4, <1>10, <3>1
    <3>3. FeeRests(f3)
      BY <1>4, <1>5, <1>10, <3>2
    <3>4. FeeRests(f4)
      BY <1>5, <1>6, <1>10, <3>3
    <3>5. QED BY <1>6, <1>7, <1>10, <3>4
  <2>2. CASE f0.fee.on
    <3>1. f6.fee.on /\ f5.fee.on /\ f4.fee.on /\ f3.fee.on /\ f2.fee.on /\ f1.fee.on
      BY <1>3, <1>4, <1>5, <1>6, <1>7, <1>8, <1>9, <2>2
    <3>2. LegsAreFit(f6)
      BY <3>1 DEF Restless
    <3>3. LegsAreFit(f5) /\ LegsAreFit(f4) /\ LegsAreFit(f3) /\ LegsAreFit(f2) /\ LegsAreFit(f1)
          /\ LegsAreFit(f0)
      BY <1>3, <1>4, <1>5, <1>6, <1>7, <1>8, <1>9, <3>2
    <3>4. FeeRests(f1) \/ NoCurrency(f1) \/ OfFirst(f1)
      BY <1>3, <2>2, <3>3 DEF Nearer
    <3>5. FeeRests(f2) \/ OfFirst(f2) \/ (NoCurrency(f2) /\ AtHome(f2))
      BY <1>3, <1>4, <3>1, <3>3, <3>4 DEF Nearer
    <3>6. FeeRests(f3) \/ (OfFirst(f3) /\ AtHome(f3)) \/ (NoCurrency(f3) /\ AtHome(f3))
      BY <1>4, <1>5, <3>1, <3>3, <3>5 DEF Nearer
    <3>7. FeeRests(f4) \/ (OfFirst(f4) /\ AtHome(f4))
      BY <1>5, <1>6, <3>1, <3>3, <3>6 DEF Nearer
    <3>8. QED BY <1>6, <1>7, <3>1, <3>3, <3>7 DEF Nearer
  <2>3. QED BY <2>1, <2>2
<1>12. FeeRests(f6) /\ f6.fee = f5.fee
  BY <1>7, <1>8, <1>11 DEF Nearer
<1>13. /\ SameBase(f5, f6)
       /\ f6.legs = [f5.legs EXCEPT ![Transfer!Second(f5)] =
                       [f5.legs[Transfer!Second(f5)] EXCEPT !.amount = NextAmount(f5)]]
  BY DEF PassMakes
<1>14. f5.fee.on /\ f5.fee.mode = "PERCENT" => Transfer!FeeSides(f5) # {}
  <2>1. Transfer!FeeSides(f5) = Transfer!FeeSides(f6)
    BY <1>12, <1>13 DEF SameBase, Transfer!FeeSides, Transfer!CurrencyOf, Sides
  <2>2. QED BY <1>12, <2>1 DEF Restless
<1>15. NextAmount(f6) = f6.legs[Transfer!Second(f6)].amount
  BY <1>7, <1>8, <1>12, <1>13, <1>14, AmountRests
<1>16. QED BY <1>8, <1>12, <1>15, RestIsStill

LEMMA EarlierPass ==
  ASSUME NEW new \in TransferForms, NEW h, NEW k, k # 0, Reached(new, h, k), NEW p \in h[k]
  PROVE  /\ p[2] \in TransferForms
         /\ \E q \in h[k - 1] : p[1] = q[2] /\ p[2] = Transfer!Pass(q[1], q[2])
<1>1. PICK q \in h[k - 1] : p = AfterPass(q)
  BY DEF Reached
<1>2. p[1] = q[2] /\ p[2] = Transfer!Pass(q[1], q[2])
  BY <1>1 DEF AfterPass
<1>3. QED BY <1>2 DEF Reached

(* Six passes bring a form to rest.                                        *)
LEMMA RenderedRests ==
  ASSUME Passes >= 6, NEW old, NEW new \in TransferForms, NEW g \in Transfer!Rendered(old, new)
  PROVE  Restless(g) \/ Transfer!Pass(g, g) = g
<1>1. PICK h, n : /\ n \in {Passes, Passes + 1} /\ \E p \in h[n] : g = p[2]
                  /\ \A k \in 0..n : Reached(new, h, k)
  BY RenderedIsPassed
<1>2. n \in Nat /\ n >= 6
  <2>1. Passes \in Nat \ {0}
    BY TransferConstants, Zenon
  <2>2. QED BY <1>1, <2>1
<1>3. PICK n5, n4, n3, n2, n1, n0 : /\ n5 = n - 1 /\ n4 = n5 - 1 /\ n3 = n4 - 1
                                    /\ n2 = n3 - 1 /\ n1 = n2 - 1 /\ n0 = n1 - 1
  OBVIOUS
<1>4. /\ {n, n5, n4, n3, n2, n1, n0} \subseteq 0..n
      /\ n # 0 /\ n5 # 0 /\ n4 # 0 /\ n3 # 0 /\ n2 # 0 /\ n1 # 0
  BY <1>2, <1>3
<1>5. /\ Reached(new, h, n) /\ Reached(new, h, n5) /\ Reached(new, h, n4) /\ Reached(new, h, n3)
      /\ Reached(new, h, n2) /\ Reached(new, h, n1) /\ Reached(new, h, n0)
  BY <1>1, <1>4
<1>6. PICK p6 \in h[n] : g = p6[2]
  BY <1>1
<1>7. PICK p5 \in h[n5] : p6[1] = p5[2] /\ p6[2] = Transfer!Pass(p5[1], p5[2])
  BY <1>3, <1>4, <1>5, <1>6, EarlierPass
<1>8. PICK p4 \in h[n4] : p5[1] = p4[2] /\ p5[2] = Transfer!Pass(p4[1], p4[2])
  BY <1>3, <1>4, <1>5, <1>7, EarlierPass
<1>9. PICK p3 \in h[n3] : p4[1] = p3[2] /\ p4[2] = Transfer!Pass(p3[1], p3[2])
  BY <1>3, <1>4, <1>5, <1>8, EarlierPass
<1>10. PICK p2 \in h[n2] : p3[1] = p2[2] /\ p3[2] = Transfer!Pass(p2[1], p2[2])
  BY <1>3, <1>4, <1>5, <1>9, EarlierPass
<1>11. PICK p1 \in h[n1] : p2[1] = p1[2] /\ p2[2] = Transfer!Pass(p1[1], p1[2])
  BY <1>3, <1>4, <1>5, <1>10, EarlierPass
<1>12. PICK p0 \in h[n0] : p1[1] = p0[2] /\ p1[2] = Transfer!Pass(p0[1], p0[2])
  BY <1>3, <1>4, <1>5, <1>11, EarlierPass
<1>13. PICK f0, f1, f2, f3, f4, f5, o : /\ f0 = p0[2] /\ f1 = p1[2] /\ f2 = p2[2] /\ f3 = p3[2]
                                        /\ f4 = p4[2] /\ f5 = p5[2] /\ o = p0[1]
  OBVIOUS
<1>14. /\ f0 \in TransferForms /\ f1 \in TransferForms /\ f2 \in TransferForms
       /\ f3 \in TransferForms /\ f4 \in TransferForms /\ f5 \in TransferForms
  BY <1>5, <1>7, <1>8, <1>9, <1>10, <1>11, <1>12, <1>13 DEF Reached
<1>15. /\ f1 = Transfer!Pass(o, f0) /\ f2 = Transfer!Pass(f0, f1) /\ f3 = Transfer!Pass(f1, f2)
       /\ f4 = Transfer!Pass(f2, f3) /\ f5 = Transfer!Pass(f3, f4) /\ g = Transfer!Pass(f4, f5)
  BY <1>6, <1>7, <1>8, <1>9, <1>10, <1>11, <1>12, <1>13
<1>16. /\ PassMakes(o, f0, f1) /\ PassMakes(f0, f1, f2) /\ PassMakes(f1, f2, f3)
       /\ PassMakes(f2, f3, f4) /\ PassMakes(f3, f4, f5) /\ PassMakes(f4, f5, g)
  BY <1>14, <1>15, PassWrites
<1>17. QED BY <1>14, <1>16, SixPassesRest

LEMMA BlankRests == Transfer!Pass(Transfer!Blank, Transfer!Blank) = Transfer!Blank
<1>1. PICK b : b = Transfer!Blank
  OBVIOUS
<1>2. PICK leg, fee : leg = Transfer!BlankLeg /\ fee = Transfer!BlankFee
  OBVIOUS
<1>3. b.fee = fee /\ b.legs = [side \in Sides |-> leg] /\ b.first = "out"
  BY <1>1, <1>2 DEF Transfer!Blank, Sides
<1>4. ~fee.on /\ fee.currency = "" /\ leg.amount = Transfer!Unset
  BY <1>2 DEF Transfer!BlankFee, Transfer!BlankLeg
<1>5. FeeRests(b)
  BY <1>3, <1>4 DEF FeeRests, Drops, Defaults, FollowsLeg
<1>6. Transfer!Sum(b) = Transfer!Unset
  BY <1>3, <1>4, SameSets DEF Transfer!Sum
<1>7. ~Transfer!Suggests(b)
  BY <1>6 DEF Transfer!Suggests, Transfer!Unset
<1>8. NextAmount(b) = b.legs[Transfer!Second(b)].amount
  BY <1>7 DEF NextAmount
<1>9. b \in Settled
  BY <1>1, BlankIsForm
<1>10. QED BY <1>1, <1>5, <1>8, <1>9, RestIsStill

(* A step of the transfer form leaves what it shows, opens it again, or    *)
(* renders a form.                                                         *)
LEMMA TransferSteps ==
  ASSUME TransferInv, [FormsNext]_formsVars, IsTransfer'
  PROVE  /\ IsTransfer
         /\ \/ form' = form \/ form' = Transfer!Blank
            \/ \E g \in TransferForms : Transfer!Render(g)
<1>1. kind' = kind /\ IsTransfer /\ (Transfer!Next \/ UNCHANGED formsVars)
  <2>1. CASE UNCHANGED formsVars
    BY <2>1 DEF formsVars, operationVars, IsTransfer
  <2>2. CASE ~IsTransfer /\ OperationNext
    <3>1. kind' = kind
      BY <2>2 DEF OperationNext, Edit, Clear, Settle, Reopen, SaveDraft, Submit, Answers,
                  AnswerLists, AnswerList, AnswerLineList, AnswerLoad, AnswerSave, AnswerSubmit
    <3>2. QED BY <2>2, <3>1 DEF IsTransfer
  <2>3. CASE IsTransfer /\ Transfer!Next /\ UNCHANGED kind
    BY <2>3
  <2>4. QED BY <2>1, <2>2, <2>3 DEF FormsNext
<1>2. /\ form \in Settled /\ form \in TransferForms
      /\ cache \in TransferDrafts /\ local \in TransferDrafts
      /\ server \in [status : {"BORRADOR", "CONFIRMADA"}, draft : TransferDrafts]
  BY <1>1 DEF TransferInv, Settled
<1>3. SUFFICES ASSUME Transfer!Next
               PROVE  \/ form' = form \/ form' = Transfer!Blank
                      \/ \E g \in TransferForms : Transfer!Render(g)
  BY <1>1 DEF formsVars, operationVars
<1>4. CASE Transfer!Edit
  BY <1>2, <1>4, InputsAreForms DEF Transfer!Edit
<1>5. CASE Transfer!Clear
  BY <1>2, <1>5, BlankIsForm DEF Transfer!Clear, Settled
<1>6. CASE Transfer!Reopen \/ Transfer!SaveDraft \/ Transfer!Submit
  BY <1>6 DEF Transfer!Reopen, Transfer!SaveDraft, Transfer!Submit
<1>7. CASE \E a \in Accounts, ok \in BOOLEAN : Transfer!AnswerList(a, ok)
  <2>1. PICK a \in Accounts, ok \in BOOLEAN : Transfer!AnswerList(a, ok)
    BY <1>7
  <2>2. /\ form.asked[a] > 0
        /\ \E g : /\ g = [form EXCEPT !.asked[a] = @ - 1, !.lists[a] = IF ok THEN "here" ELSE "failed"]
                  /\ Transfer!Render(Transfer!Asking(g, g))
    BY <2>1 DEF Transfer!AnswerList
  <2>3. QED BY <1>2, <2>2, AnsweredIsForm DEF Settles, Settled
<1>8. CASE \E ok \in BOOLEAN : Transfer!AnswerFunctional(ok)
  <2>1. PICK ok \in BOOLEAN : Transfer!AnswerFunctional(ok)
    BY <1>8
  <2>2. \E g : /\ g = [form EXCEPT !.fx = FALSE, !.functional = IF ok THEN Functional ELSE ""]
               /\ Transfer!Render(g)
    BY <2>1 DEF Transfer!AnswerFunctional
  <2>3. QED BY <1>2, <2>2, AnsweredIsForm DEF Settles, Settled
<1>9. CASE \E ok \in BOOLEAN : Transfer!AnswerLoad(ok)
  <2>1. PICK ok \in BOOLEAN : Transfer!AnswerLoad(ok)
    BY <1>9
  <2>2. (Transfer!LoadDraft /\ server.draft # Transfer!NoData) \/ Transfer!LoadFails
    BY <2>1 DEF Transfer!AnswerLoad
  <2>3. server.draft \in TransferDrafts
    BY <1>2
  <2>4. \A s \in TransferDrafts :
           s # Transfer!NoData => Transfer!Restored(form, s.data) \in TransferForms
    BY <1>2, TransferDraftsAre, RestoredIsForm DEF Settled
  <2>5. CASE Transfer!LoadDraft /\ server.draft # Transfer!NoData
    BY <2>3, <2>4, <2>5 DEF Transfer!LoadDraft
  <2>6. CASE Transfer!LoadFails
    <3>1. PICK found \in TransferDrafts : found = IF cache # Transfer!NoData THEN cache ELSE local
      BY <1>2
    <3>2. \/ form' = form
          \/ found # Transfer!NoData /\ Transfer!Render(Transfer!Restored(form, found.data))
      BY <2>6, <3>1 DEF Transfer!LoadFails
    <3>3. QED BY <2>4, <3>1, <3>2
  <2>7. QED BY <2>2, <2>5, <2>6
<1>10. CASE \E ok \in BOOLEAN : Transfer!AnswerSave(ok) \/ Transfer!AnswerSubmit(ok)
  BY <1>10 DEF Transfer!AnswerSave, Transfer!AnswerSubmit
<1>11. QED BY <1>3, <1>4, <1>5, <1>6, <1>7, <1>8, <1>9, <1>10 DEF Transfer!Next, Transfer!Answers

RestInv == IsTransfer => Restless(form) \/ Transfer!Pass(form, form) = form

(* After an input or an answer six passes are enough for the effects of    *)
(* the transfer form, unless the fee is on and the first leg lacks its     *)
(* format, a list is missing, or a percentage is in no leg's currency      *)
(* (TransferenciaForm.tsx); the other nine screens are consistent too.     *)
THEOREM ScreensComeToRest ==
  ASSUME Passes >= 6
  PROVE  FormsSpec => []ScreensAreConsistent
<1>1. FormsInit => RestInv
  <2>1. SUFFICES ASSUME FormsInit, IsTransfer PROVE form = Transfer!Blank
    BY BlankRests DEF RestInv
  <2>2. OperationInit => kind \in Kinds
    BY DEF OperationInit
  <2>3. Transfer!Init
    BY <2>1, <2>2, NoTransfer DEF FormsInit
  <2>4. QED BY <2>3 DEF Transfer!Init
<1>2. TransferInv /\ RestInv /\ [FormsNext]_formsVars => RestInv'
  <2>1. SUFFICES ASSUME TransferInv, RestInv, [FormsNext]_formsVars, IsTransfer'
                 PROVE  (Restless(form) \/ Transfer!Pass(form, form) = form)'
    BY DEF RestInv
  <2>2. PICK f, g : f = form /\ g = form'
    OBVIOUS
  <2>3. /\ Restless(f) \/ Transfer!Pass(f, f) = f
        /\ \/ g = f \/ g = Transfer!Blank
           \/ \E new \in TransferForms : g \in Transfer!Rendered(f, new)
    BY <2>1, <2>2, TransferSteps DEF RestInv, Transfer!Render
  <2>4. Restless(g) \/ Transfer!Pass(g, g) = g
    BY <2>3, BlankRests, RenderedRests
  <2>5. QED BY <2>2, <2>4
<1>3. RestInv /\ IsTransfer => Transfer!EffectsComeToRest
  <2>1. SUFFICES ASSUME Restless(form)
                 PROVE  /\ form.fee.on
                        /\ \/ form.legs[form.first].format = ""
                           \/ \E a \in Transfer!Places(form) : form.lists[a] # "here"
                           \/ form.fee.mode = "PERCENT" /\ ~Transfer!feeAccountDerivesFromLeg(form)
    BY DEF RestInv, Transfer!EffectsComeToRest, Transfer!Stuck
  <2>2. \A s \in Sides : form.legs[s].account # "" => form.legs[s].account \in Transfer!Places(form)
    BY SameSets DEF Transfer!Places
  <2>3. QED BY <2>1, <2>2 DEF Restless, LegsAreFit, Transfer!feeAccountDerivesFromLeg
<1>4. FormsSpec => []RestInv
  BY <1>1, <1>2, TransferKeepsItsInvariant, PTL DEF FormsSpec
<1>5. RestInv /\ (IsTransfer => Transfer!TypeOK) /\ (~IsTransfer => ScreenIsConsistent)
        => ScreensAreConsistent
  BY <1>3 DEF ScreensAreConsistent, Transfer!ScreenComesToRest
<1>6. QED BY <1>4, <1>5, TransferKeepsItsTypes, NineScreensAreConsistent, PTL

-----------------------------------------------------------------------------
(* Drafts of the transfer form come back                                   *)

\* What an untouched form shows of a draft, on its way to rest.
BackFrom(f, d) ==
    /\ f.first = "out" /\ f.rate = d.rate /\ f.mode = d.mode
    /\ \A s \in Sides : /\ f.legs[s].account = d.legs[s].account
                        /\ f.legs[s].currency = d.legs[s].currency
                        /\ f.legs[s].format = d.legs[s].format
                        /\ (f.legs[s].pending <=> d.legs[s].pending)
    /\ Transfer!TwoAmounts(d) => f.edited /\ f.legs = d.legs
    /\ SameSettings(d.fee, f.fee) /\ (f.fee.pending <=> d.fee.pending)
    /\ Transfer!FeeOfOut(d) => f.fee.currency \in {"", d.legs["out"].currency}

LEMMA PassIsBack ==
  ASSUME NEW old, NEW f \in Settled, NEW d, BackFrom(f, d), NEW g, g = Transfer!Pass(old, f)
  PROVE  BackFrom(g, d)
<1>1. f \in TransferForms
  BY DEF Settled
<1>2. /\ SameBase(f, g) /\ FeeMoves(f, g) /\ SameSettings(f.fee, g.fee)
      /\ (g.fee.pending <=> f.fee.pending)
  BY <1>1, PassWrites DEF PassMakes
<1>3. f.edited => g.legs = f.legs
  BY <1>1, PassSettles DEF Settles, Keeps
<1>4. g.first = "out" /\ g.rate = d.rate /\ g.mode = d.mode
  BY <1>2 DEF SameBase, BackFrom
<1>5. \A s \in Sides : /\ g.legs[s].account = d.legs[s].account
                       /\ g.legs[s].currency = d.legs[s].currency
                       /\ g.legs[s].format = d.legs[s].format
                       /\ (g.legs[s].pending <=> d.legs[s].pending)
  BY <1>2 DEF SameBase, BackFrom
<1>6. Transfer!TwoAmounts(d) => g.edited /\ g.legs = d.legs
  BY <1>2, <1>3 DEF SameBase, BackFrom
<1>7. SameSettings(d.fee, g.fee) /\ (g.fee.pending <=> d.fee.pending)
  BY <1>2 DEF SameSettings, BackFrom
<1>8. Transfer!FeeOfOut(d) => g.fee.currency \in {"", d.legs["out"].currency}
  <2>1. FirstCurrency(f) = d.legs["out"].currency
    BY SameSets DEF FirstCurrency, BackFrom
  <2>2. QED BY <1>2, <2>1 DEF FeeMoves, BackFrom
<1>9. QED BY <1>4, <1>5, <1>6, <1>7, <1>8 DEF BackFrom

(* However many passes run, an untouched form shows its draft.             *)
LEMMA RenderedIsBack ==
  ASSUME NEW old, NEW new \in Settled, NEW d, BackFrom(new, d), NEW g \in Transfer!Rendered(old, new)
  PROVE  BackFrom(g, d)
<1>0. new \in TransferForms
  BY DEF Settled
<1>1. PICK h, n : /\ n \in {Passes, Passes + 1} /\ \E p \in h[n] : g = p[2]
                  /\ \A k \in 0..n : Reached(new, h, k)
  BY <1>0, RenderedIsPassed
<1>2. n \in Nat
  <2>1. Passes \in Nat \ {0}
    BY TransferConstants, Zenon
  <2>2. QED BY <1>1, <2>1
<1> DEFINE Bad == {k \in 0..n : \E p \in h[k] : ~BackFrom(p[2], d)}
<1>3. Bad = {}
  <2>1. SUFFICES ASSUME Bad # {} PROVE FALSE
    OBVIOUS
  <2>2. PICK m \in Bad : \A k \in Bad : m <= k
    <3>1. Bad \subseteq Nat
      OBVIOUS
    <3> HIDE DEF Bad
    <3>2. QED BY <2>1, <3>1, LeastNatural
  <2>3. PICK p \in h[m] : m \in 0..n /\ ~BackFrom(p[2], d)
    OBVIOUS
  <2>4. Reached(new, h, m)
    BY <1>1, <2>3
  <2>5. m # 0
    BY <2>3, <2>4 DEF Reached
  <2>6. m - 1 \in 0..n /\ m - 1 \notin Bad
    BY <1>2, <2>2, <2>3, <2>5
  <2>7. PICK q \in h[m - 1] : p[2] = Transfer!Pass(q[1], q[2])
    BY <1>0, <2>3, <2>4, <2>5, EarlierPass
  <2>8. Reached(new, h, m - 1)
    BY <1>1, <2>6
  <2>9. PICK f : f = q[2]
    OBVIOUS
  <2>10. f \in Settled
    BY <2>8, <2>9 DEF Reached
  <2>11. BackFrom(f, d)
    BY <2>6, <2>9
  <2>12. QED BY <2>3, <2>7, <2>9, <2>10, <2>11, PassIsBack
<1>4. n \in 0..n
  BY <1>2
<1>5. QED BY <1>1, <1>3, <1>4

LEMMA RestoredIsBack ==
  ASSUME NEW f \in TransferForms, NEW d \in Transfer!Drafts
  PROVE  BackFrom(Transfer!Restored(f, d), d)
<1>1. PICK edited : edited = Transfer!TwoAmounts(d)
  OBVIOUS
<1>2. PICK g : g = [f EXCEPT !.legs = d.legs, !.fee = d.fee, !.rate = d.rate, !.mode = d.mode,
                             !.first = "out", !.edited = edited]
  OBVIOUS
<1>3. Transfer!Restored(f, d) = g
  BY <1>1, <1>2 DEF Transfer!Restored, Transfer!WithDraft
<1>4. /\ g.legs = d.legs /\ g.fee = d.fee /\ g.rate = d.rate /\ g.mode = d.mode
      /\ g.first = "out" /\ g.edited = edited
  BY <1>2 DEF TransferForms
<1>5. Transfer!TwoAmounts(d) => edited
  BY <1>1
<1>6. SameSettings(d.fee, d.fee)
  BY DEF SameSettings
<1>7. QED BY <1>3, <1>4, <1>5, <1>6 DEF BackFrom, Transfer!FeeOfOut

\* The parts of a form a draft gives it.
SameShown(f, g) ==
    /\ g.legs = f.legs /\ g.fee = f.fee /\ g.rate = f.rate /\ g.mode = f.mode
    /\ g.first = f.first /\ g.edited = f.edited

LEMMA AnsweredIsSame ==
  ASSUME NEW f \in TransferForms
  PROVE  /\ \A a \in Accounts, ok \in BOOLEAN :
              \A g : g = [f EXCEPT !.asked[a] = @ - 1, !.lists[a] = IF ok THEN "here" ELSE "failed"]
                => SameShown(f, Transfer!Asking(g, g))
         /\ \A ok \in BOOLEAN :
              \A g : g = [f EXCEPT !.fx = FALSE, !.functional = IF ok THEN Functional ELSE ""]
                => SameShown(f, g)
<1>1. ASSUME NEW a \in Accounts, NEW ok \in BOOLEAN, NEW g,
             g = [f EXCEPT !.asked[a] = @ - 1, !.lists[a] = IF ok THEN "here" ELSE "failed"]
      PROVE  SameShown(f, Transfer!Asking(g, g))
  <2>1. PICK asked, lists : /\ asked = [f.asked EXCEPT ![a] = @ - 1]
                            /\ lists = [f.lists EXCEPT ![a] = IF ok THEN "here" ELSE "failed"]
    OBVIOUS
  <2>2. g = [f EXCEPT !.asked = asked, !.lists = lists]
    BY <1>1, <2>1 DEF TransferForms
  <2>3. PICK more : more = [b \in Accounts |->
          IF b \in Transfer!Places(g) /\ g.lists[b] = "absent" /\ g.asked[b] < MaxAsked
          THEN g.asked[b] + 1 ELSE g.asked[b]]
    OBVIOUS
  <2>4. Transfer!Asking(g, g) = [g EXCEPT !.asked = more]
    BY <2>3 DEF Transfer!Asking
  <2>5. [g EXCEPT !.asked = more] = [f EXCEPT !.asked = more, !.lists = lists]
    BY <2>2 DEF TransferForms
  <2>6. PICK h : h = [f EXCEPT !.asked = more, !.lists = lists]
    OBVIOUS
  <2>7. SameShown(f, h)
    BY <2>6 DEF TransferForms, SameShown
  <2>8. QED BY <2>4, <2>5, <2>6, <2>7
<1>2. ASSUME NEW ok \in BOOLEAN, NEW g,
             g = [f EXCEPT !.fx = FALSE, !.functional = IF ok THEN Functional ELSE ""]
      PROVE  SameShown(f, g)
  BY <1>2 DEF TransferForms, SameShown
<1>3. QED BY <1>1, <1>2

(* At rest a fee in the currency of an outgoing leg with its format is at  *)
(* home.                                                                   *)
LEMMA FeeOfOutIsAtHome ==
  ASSUME NEW f \in Settled, Transfer!Pass(f, f) = f
  PROVE  Transfer!FeeIsAtHome(f)
<1>1. SUFFICES ASSUME Transfer!FeeOfOut(f)
               PROVE  f.fee.account = f.legs["out"].account /\ f.fee.format = f.legs["out"].format
  BY DEF Transfer!FeeIsAtHome
<1>2. f \in TransferForms /\ "out" \in Sides
  BY SameSets DEF Settled
<1>3. FeeMoves(f, f)
  BY <1>2, PassWrites DEF PassMakes
<1>4. f.fee.on /\ f.fee.currency = f.legs["out"].currency /\ f.legs["out"].format # ""
  BY <1>1 DEF Transfer!FeeOfOut
<1>5. f.legs["out"].currency # "" /\ f.legs["out"].account # ""
  <2>1. PICK leg : leg = f.legs["out"]
    OBVIOUS
  <2>2. leg \in Transfer!TransferLegs
    BY <1>2, <2>1, TransferFields
  <2>3. QED BY <1>4, <2>1, <2>2, TransferLegFields
<1>6. "out" \in ReadySides(f)
  BY <1>2, <1>4, <1>5 DEF ReadySides, Transfer!FeeSides, Transfer!CurrencyOf, Transfer!Ready, Sides
<1>7. FollowsLeg(f) /\ Lead(f) = f.legs["out"]
  BY <1>4, <1>6 DEF FollowsLeg, Lead
<1>8. ~Drops(f) /\ ~Defaults(f)
  BY <1>3, <1>4, <1>5 DEF FeeMoves, Defaults
<1>9. QED BY <1>3, <1>7, <1>8 DEF FeeMoves

(* At rest, with the lists of its accounts, such a fee is that of the draft. *)
LEMMA FeeComesBack ==
  ASSUME NEW f \in Settled, Transfer!Pass(f, f) = f,
         \A a \in Transfer!Places(f) : f.lists[a] = "here",
         NEW d \in Transfer!Drafts, BackFrom(f, d), Transfer!FeeOfOut(d), Transfer!FeeIsAtHome(d)
  PROVE  f.fee = d.fee
<1>1. f \in TransferForms /\ "out" \in Sides
  BY SameSets DEF Settled
<1>2. PICK leg : leg = f.legs["out"]
  OBVIOUS
<1>3. /\ leg.account = d.legs["out"].account /\ leg.currency = d.legs["out"].currency
      /\ leg.format = d.legs["out"].format
  BY <1>1, <1>2 DEF BackFrom
<1>4. /\ d.fee.on /\ d.fee.currency = leg.currency /\ leg.format # ""
      /\ d.fee.account = leg.account /\ d.fee.format = leg.format
  BY <1>3 DEF Transfer!FeeOfOut, Transfer!FeeIsAtHome
<1>5. f.first = "out" /\ f.fee.on /\ f.fee.currency \in {"", leg.currency}
  BY <1>3, <1>4 DEF BackFrom, SameSettings
<1>6. LegsAreFit(f)
  <2>1. \A s \in Sides : f.legs[s].account # "" => f.legs[s].account \in Transfer!Places(f)
    BY SameSets DEF Transfer!Places
  <2>2. QED BY <1>2, <1>4, <1>5, <2>1 DEF LegsAreFit
<1>7. FirstCurrency(f) = leg.currency /\ leg.currency # ""
      /\ leg.currency \in Transfer!feeLegCurrencyOptions(f)
  BY <1>1, <1>2, <1>5, <1>6, FirstIsFollowed DEF FirstCurrency
<1>8. FeeMoves(f, f)
  BY <1>1, PassWrites DEF PassMakes
<1>9. f.fee.currency = leg.currency
  BY <1>5, <1>7, <1>8 DEF FeeMoves, Drops, Defaults
<1>10. f.fee.account = leg.account /\ f.fee.format = leg.format
  <2>1. Transfer!FeeOfOut(f)
    BY <1>2, <1>4, <1>5, <1>9 DEF Transfer!FeeOfOut
  <2>2. QED BY <1>2, <2>1, FeeOfOutIsAtHome DEF Transfer!FeeIsAtHome
<1>11. SameSettings(d.fee, f.fee) /\ (f.fee.pending <=> d.fee.pending)
  BY DEF BackFrom
<1>12. f.fee \in FeeShapes /\ d.fee \in FeeShapes
  BY <1>1, TransferFields, DraftFields
<1>13. QED BY <1>4, <1>9, <1>10, <1>11, <1>12, SameFee

\* A draft, or none; one saved at rest has its fee at home.
RestingDrafts ==
    {s \in TransferDrafts : s # Transfer!NoData /\ s.rest => Transfer!FeeIsAtHome(s.data)}

\* The drafts under way, and what the form shows of the one it loaded.
BackInv ==
    IsTransfer =>
        /\ saving \in RestingDrafts /\ server.draft \in RestingDrafts /\ loaded \in RestingDrafts
        /\ loaded # Transfer!NoData => load = "none" /\ BackFrom(form, loaded.data)

LEMMA NoDataRests == Transfer!NoData \in RestingDrafts
BY TransferDraftsAre DEF RestingDrafts

LEMMA BackIsRendered ==
  ASSUME NEW g \in Settled, NEW d, BackFrom(g, d), Transfer!Render(g)
  PROVE  BackFrom(form', d)
<1>1. PICK h : h = form'
  OBVIOUS
<1>2. h \in Transfer!Rendered(form, g)
  BY <1>1 DEF Transfer!Render
<1>3. QED BY <1>1, <1>2, RenderedIsBack

LEMMA SameIsBack ==
  ASSUME NEW f, NEW g, NEW d, BackFrom(f, d), SameShown(f, g)
  PROVE  BackFrom(g, d)
BY DEF BackFrom, SameShown

LEMMA SavedAtRestIsAtHome ==
  ASSUME NEW f \in Settled
  PROVE  /\ Transfer!buildDraftData(f) \in Transfer!Drafts
         /\ Transfer!Pass(f, f) = f => Transfer!FeeIsAtHome(Transfer!buildDraftData(f))
<1>1. PICK d : d = Transfer!buildDraftData(f)
  OBVIOUS
<1>2. d.legs = f.legs /\ d.fee = f.fee
  BY <1>1 DEF Transfer!buildDraftData
<1>3. Transfer!FeeIsAtHome(f) => Transfer!FeeIsAtHome(d)
  BY <1>2 DEF Transfer!FeeIsAtHome, Transfer!FeeOfOut
<1>4. QED BY <1>1, <1>3, FeeOfOutIsAtHome, DraftIsKept

LEMMA BackInitInv == FormsInit => BackInv
<1>1. SUFFICES ASSUME FormsInit, IsTransfer PROVE BackInv
  BY DEF BackInv
<1>2. Transfer!Init
  <2>1. OperationInit => kind \in Kinds
    BY DEF OperationInit
  <2>2. QED BY <1>1, <2>1, NoTransfer DEF FormsInit
<1>3. /\ saving = Transfer!NoData /\ loaded = Transfer!NoData
      /\ server.draft \in {Transfer!NoData} \cup
                            {Transfer!Saved(d, Transfer!FeeIsAtHome(d)) : d \in TransferStored}
  BY <1>2 DEF Transfer!Init
<1>4. ASSUME NEW d \in TransferStored
      PROVE  Transfer!Saved(d, Transfer!FeeIsAtHome(d)) \in RestingDrafts
  <2>1. d \in Transfer!Drafts
    <3>1. TransferStored \subseteq Transfer!Drafts
      BY TransferConstants, Zenon
    <3>2. QED BY <3>1
  <2>2. PICK rest \in BOOLEAN : rest = Transfer!FeeIsAtHome(d)
    <3>1. Transfer!FeeIsAtHome(d) \in BOOLEAN
      BY DEF Transfer!FeeIsAtHome
    <3>2. QED BY <3>1
  <2>3. PICK s : s = Transfer!Saved(d, rest)
    OBVIOUS
  <2>4. s.data = d /\ s.rest = rest /\ s \in TransferDrafts
    BY <2>1, <2>2, <2>3, TransferDraftsAre DEF Transfer!Saved
  <2>5. s \in RestingDrafts
    BY <2>2, <2>4 DEF RestingDrafts
  <2>6. QED BY <2>2, <2>3, <2>5
<1>5. server.draft \in RestingDrafts
  BY <1>3, <1>4, NoDataRests
<1>6. QED BY <1>3, <1>5, NoDataRests DEF BackInv

LEMMA BackStepInv == TransferInv /\ BackInv /\ [FormsNext]_formsVars => BackInv'
<1> SUFFICES ASSUME TransferInv, BackInv, [FormsNext]_formsVars, IsTransfer' PROVE BackInv'
  BY DEF BackInv
<1>1. kind' = kind /\ IsTransfer /\ (Transfer!Next \/ UNCHANGED formsVars)
  <2>1. CASE UNCHANGED formsVars
    BY <2>1 DEF formsVars, operationVars, IsTransfer
  <2>2. CASE ~IsTransfer /\ OperationNext
    <3>1. kind' = kind
      BY <2>2 DEF OperationNext, Edit, Clear, Settle, Reopen, SaveDraft, Submit, Answers,
                  AnswerLists, AnswerList, AnswerLineList, AnswerLoad, AnswerSave, AnswerSubmit
    <3>2. QED BY <2>2, <3>1 DEF IsTransfer
  <2>3. CASE IsTransfer /\ Transfer!Next /\ UNCHANGED kind
    BY <2>3
  <2>4. QED BY <2>1, <2>2, <2>3 DEF FormsNext
<1>2. /\ form \in Settled /\ form \in TransferForms
      /\ server \in [status : {"BORRADOR", "CONFIRMADA"}, draft : TransferDrafts]
  BY <1>1 DEF TransferInv, Settled
<1>3. /\ saving \in RestingDrafts /\ server.draft \in RestingDrafts /\ loaded \in RestingDrafts
      /\ loaded # Transfer!NoData => load = "none" /\ BackFrom(form, loaded.data)
  BY <1>1 DEF BackInv
<1>4. ASSUME saving' \in RestingDrafts, server'.draft \in RestingDrafts, loaded' \in RestingDrafts,
             loaded' # Transfer!NoData => load' = "none" /\ BackFrom(form', loaded'.data)
      PROVE  BackInv'
  BY <1>4 DEF BackInv
<1>5. ASSUME loaded' = Transfer!NoData, saving' = saving, server' = server
      PROVE  BackInv'
  BY <1>3, <1>4, <1>5, NoDataRests
<1>6. ASSUME loaded' = loaded, load' = load, form' = form,
             saving' \in RestingDrafts, server'.draft \in RestingDrafts
      PROVE  BackInv'
  BY <1>3, <1>4, <1>6
<1>7. ASSUME loaded' = loaded, load' = load, saving' = saving, server' = server,
             NEW g, SameShown(form, g), g \in Settled, Transfer!Render(g)
      PROVE  BackInv'
  <2>1. loaded # Transfer!NoData => BackFrom(g, loaded.data)
    BY <1>3, <1>7, SameIsBack
  <2>2. loaded # Transfer!NoData => BackFrom(form', loaded.data)
    BY <1>7, <2>1, BackIsRendered
  <2>3. QED BY <1>3, <1>4, <1>7, <2>2
<1>8. CASE UNCHANGED formsVars
  <2>1. /\ load' = load /\ form' = form /\ saving' = saving /\ server' = server /\ loaded' = loaded
    BY <1>8 DEF formsVars, operationVars
  <2>2. QED BY <1>3, <1>6, <2>1
<1>9. CASE Transfer!Edit \/ Transfer!Clear \/ Transfer!Reopen
  <2>1. loaded' = Transfer!NoData /\ saving' = saving /\ server' = server
    BY <1>9 DEF Transfer!Edit, Transfer!Clear, Transfer!Reopen
  <2>2. QED BY <1>5, <2>1
<1>10. CASE Transfer!SaveDraft
  <2>1. /\ load' = load /\ form' = form /\ server' = server /\ loaded' = loaded
        /\ saving' = Transfer!Saved(Transfer!buildDraftData(form), Transfer!AtRest)
    BY <1>10 DEF Transfer!SaveDraft
  <2>2. PICK f, d, rest : f = form /\ d = Transfer!buildDraftData(f) /\ rest = Transfer!AtRest
    OBVIOUS
  <2>3. rest \in BOOLEAN /\ (rest => Transfer!Pass(f, f) = f)
    BY <2>2 DEF Transfer!AtRest, Transfer!Stuck
  <2>4. d \in Transfer!Drafts /\ (rest => Transfer!FeeIsAtHome(d))
    BY <1>2, <2>2, <2>3, SavedAtRestIsAtHome
  <2>5. PICK s : s = Transfer!Saved(d, rest)
    OBVIOUS
  <2>6. s.data = d /\ (s.rest <=> rest)
    BY <2>5 DEF Transfer!Saved
  <2>7. s \in RestingDrafts
    BY <2>3, <2>4, <2>5, <2>6, TransferDraftsAre DEF RestingDrafts
  <2>8. QED BY <1>3, <1>6, <2>1, <2>2, <2>5, <2>7
<1>11. CASE Transfer!Submit
  <2>1. load' = load /\ form' = form /\ server' = server /\ loaded' = loaded /\ saving' = saving
    BY <1>11 DEF Transfer!Submit
  <2>2. QED BY <1>3, <1>6, <2>1
<1>12. CASE \E a \in Accounts, ok \in BOOLEAN : Transfer!AnswerList(a, ok)
  <2>1. PICK a \in Accounts, ok \in BOOLEAN : Transfer!AnswerList(a, ok)
    BY <1>12
  <2>2. PICK g : g = [form EXCEPT !.asked[a] = @ - 1, !.lists[a] = IF ok THEN "here" ELSE "failed"]
    OBVIOUS
  <2>3. /\ form.asked[a] > 0 /\ loaded' = loaded /\ load' = load /\ saving' = saving
        /\ server' = server /\ Transfer!Render(Transfer!Asking(g, g))
    BY <2>1, <2>2 DEF Transfer!AnswerList
  <2>4. Transfer!Asking(g, g) \in Settled
    BY <1>2, <2>2, <2>3, AnsweredIsForm DEF Settles
  <2>5. SameShown(form, Transfer!Asking(g, g))
    BY <1>2, <2>2, AnsweredIsSame
  <2>6. QED BY <1>7, <2>3, <2>4, <2>5
<1>13. CASE \E ok \in BOOLEAN : Transfer!AnswerFunctional(ok)
  <2>1. PICK ok \in BOOLEAN : Transfer!AnswerFunctional(ok)
    BY <1>13
  <2>2. PICK g : g = [form EXCEPT !.fx = FALSE, !.functional = IF ok THEN Functional ELSE ""]
    OBVIOUS
  <2>3. /\ loaded' = loaded /\ load' = load /\ saving' = saving /\ server' = server
        /\ Transfer!Render(g)
    BY <2>1, <2>2 DEF Transfer!AnswerFunctional
  <2>4. g \in Settled
    BY <1>2, <2>2, AnsweredIsForm DEF Settles
  <2>5. SameShown(form, g)
    BY <1>2, <2>2, AnsweredIsSame
  <2>6. QED BY <1>7, <2>3, <2>4, <2>5
<1>14. CASE \E ok \in BOOLEAN : Transfer!AnswerLoad(ok)
  <2>1. PICK ok \in BOOLEAN : Transfer!AnswerLoad(ok)
    BY <1>14
  <2>2. /\ load # "none" /\ saving' = saving /\ server' = server
        /\ (Transfer!LoadDraft /\ server.draft # Transfer!NoData) \/ Transfer!LoadFails
    BY <2>1 DEF Transfer!AnswerLoad
  <2>3. CASE Transfer!LoadDraft /\ server.draft # Transfer!NoData
    <3>1. PICK s, d : s = server.draft /\ d = s.data
      OBVIOUS
    <3>2. load' = "none" /\ loaded' = s /\ Transfer!Render(Transfer!Restored(form, d))
      BY <2>3, <3>1 DEF Transfer!LoadDraft
    <3>3. d \in Transfer!Drafts
      BY <1>2, <2>3, <3>1, TransferDraftsAre
    <3>4. Transfer!Restored(form, d) \in Settled /\ BackFrom(Transfer!Restored(form, d), d)
      BY <1>2, <3>3, RestoredIsForm, RestoredIsBack
    <3>5. BackFrom(form', d)
      BY <3>2, <3>4, BackIsRendered
    <3>6. QED BY <1>3, <1>4, <2>2, <3>1, <3>2, <3>5
  <2>4. CASE Transfer!LoadFails
    <3>1. loaded' = loaded /\ loaded = Transfer!NoData
      BY <1>3, <2>2, <2>4 DEF Transfer!LoadFails
    <3>2. QED BY <1>5, <2>2, <3>1
  <2>5. QED BY <2>2, <2>3, <2>4
<1>15. CASE \E ok \in BOOLEAN : Transfer!AnswerSave(ok)
  <2>1. PICK ok \in BOOLEAN : Transfer!AnswerSave(ok)
    BY <1>15
  <2>2. /\ saving' = Transfer!NoData /\ form' = form /\ load' = load /\ loaded' = loaded
        /\ server' = server \/ server' = [server EXCEPT !.draft = saving]
    BY <2>1 DEF Transfer!AnswerSave
  <2>3. server'.draft \in RestingDrafts
    BY <1>2, <1>3, <2>2
  <2>4. QED BY <1>6, <2>2, <2>3, NoDataRests
<1>16. CASE \E ok \in BOOLEAN : Transfer!AnswerSubmit(ok)
  <2>1. PICK ok \in BOOLEAN : Transfer!AnswerSubmit(ok)
    BY <1>16
  <2>2. /\ form' = form /\ load' = load /\ saving' = saving /\ loaded' = loaded
        /\ server' = server \/ server' = [server EXCEPT !.status = "CONFIRMADA"]
    BY <2>1 DEF Transfer!AnswerSubmit
  <2>3. server'.draft \in RestingDrafts
    BY <1>2, <1>3, <2>2
  <2>4. QED BY <1>3, <1>6, <2>2, <2>3
<1>17. QED BY <1>1, <1>8, <1>9, <1>10, <1>11, <1>12, <1>13, <1>14, <1>15, <1>16
           DEF Transfer!Next, Transfer!Answers

(* A draft of a transfer saved at rest comes back: its legs, its quote,    *)
(* two amounts that differ, and a fee in the currency of an outgoing leg   *)
(* that has its format (buildDraftData, TransferenciaForm.tsx:329).        *)
LEMMA TransferDraftsComeBack ==
  FormsSpec => [](IsTransfer => Transfer!DraftComesBack)
<1>1. TransferInv /\ BackInv => (IsTransfer => Transfer!DraftComesBack)
  <2>1. SUFFICES ASSUME TransferInv, BackInv, IsTransfer, loaded # Transfer!NoData, loaded.rest,
                        Transfer!AtRest
                 PROVE  /\ Transfer!SameButAmounts(loaded.data, form)
                        /\ form.rate = loaded.data.rate /\ form.mode = loaded.data.mode
                        /\ Transfer!TwoAmounts(loaded.data) => form.legs = loaded.data.legs
                        /\ Transfer!FeeOfOut(loaded.data) => form.fee = loaded.data.fee
    BY DEF Transfer!DraftComesBack
  <2>2. PICK f, d : f = form /\ d = loaded.data
    OBVIOUS
  <2>3. /\ f \in Settled /\ f \in TransferForms /\ BackFrom(f, d)
        /\ Transfer!FeeIsAtHome(d) /\ loaded \in TransferDrafts
    BY <2>1, <2>2 DEF TransferInv, BackInv, Settled, RestingDrafts
  <2>4. d \in Transfer!Drafts
    BY <2>1, <2>2, <2>3, TransferDraftsAre
  <2>5. Transfer!Pass(f, f) = f /\ \A a \in Transfer!Places(f) : f.lists[a] = "here"
    BY <2>1, <2>2 DEF Transfer!AtRest, Transfer!Stuck
  <2>6. Transfer!FeeOfOut(d) => f.fee = d.fee
    BY <2>3, <2>4, <2>5, FeeComesBack
  <2>7. ASSUME NEW s \in Sides
        PROVE  [d.legs[s] EXCEPT !.amount = 0] = [f.legs[s] EXCEPT !.amount = 0]
    <3>1. PICK p, q : p = d.legs[s] /\ q = f.legs[s]
      OBVIOUS
    <3>2. p \in Transfer!TransferLegs /\ q \in Transfer!TransferLegs
      BY <2>3, <2>4, <2>7, <3>1, DraftFields, TransferFields
    <3>3. /\ q.account = p.account /\ q.currency = p.currency /\ q.format = p.format
          /\ (q.pending <=> p.pending)
      BY <2>3, <2>7, <3>1 DEF BackFrom
    <3>4. [p EXCEPT !.amount = 0] = [q EXCEPT !.amount = 0]
      BY <3>2, <3>3 DEF Transfer!TransferLegs
    <3>5. QED BY <3>1, <3>4
  <2>8. Transfer!SameButAmounts(d, f)
    BY <2>7 DEF Transfer!SameButAmounts, Sides
  <2>9. QED BY <2>2, <2>3, <2>6, <2>8 DEF BackFrom
<1>2. FormsSpec => []BackInv
  BY BackInitInv, BackStepInv, TransferKeepsItsInvariant, PTL DEF FormsSpec
<1>3. QED BY <1>1, <1>2, TransferKeepsItsInvariant, PTL

(* A draft of any of the ten forms saved at rest and opened again comes    *)
(* back as it was, once the form is at rest and nobody touched it: what    *)
(* each form's buildDraftData keeps and its loading effect gives back      *)
(* (components/operations), whatever the order in which lists and answers  *)
(* arrive.  Left out, as in the properties: the profit of an arbitrage,    *)
(* the second of two equal amounts of a transfer, and a fee apart from its *)
(* outgoing leg.                                                           *)
THEOREM DraftsReturn == FormsSpec => []DraftsComeBack
<1>1. (IsTransfer => Transfer!DraftComesBack) /\ (~IsTransfer => DraftComesBack) => DraftsComeBack
  BY DEF DraftsComeBack
<1>2. QED BY <1>1, TransferDraftsComeBack, NineDraftsComeBack, PTL

(* No answer and no timer changes an amount the user typed into any of the *)
(* ten forms: in a transfer the first amount, and the second once it is    *)
(* typed (KeepsTyped of both modules).                                     *)
THEOREM TypedAmountsStayInAllForms == FormsSpec => AmountsStay
<1>1. FormsInv /\ TransferInv /\ [FormsNext]_formsVars
        => IF IsTransfer THEN Transfer!KeepsTyped ELSE KeepsTyped
  BY FormsStepKeepsTyped, TransferStepKeepsTyped
<1>2. QED BY <1>1, FormsKeepTheirInvariant, TransferKeepsItsInvariant, PTL DEF FormsSpec, AmountsStay
=============================================================================
