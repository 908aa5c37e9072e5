----------------------------- MODULE QuoteForms -----------------------------
(***************************************************************************)
(* The sale and the purchase (VentaForm.tsx, CompraForm.tsx): one leg in   *)
(* the traded currency, a quote, and lines in the currency of the quote.   *)
(* A sale's leg goes out and its lines come in; a purchase is its mirror,  *)
(* line by line.                                                           *)
(*                                                                         *)
(* With a single line the form fills its amount in by itself, as long as   *)
(* the user types none: first is AUTO.  It does so 300 ms after the last   *)
(* edit, from the equivalent settled by then.                              *)
(***************************************************************************)
EXTENDS QuoteAmounts

CONSTANTS Rates,      \* what a user may type as a rate
          MaxLines    \* bound on the lines of a form

ASSUME QuoteFormsAssumption == Rates \subseteq Nat \ {0} /\ MaxLines \in Nat \ {0}

BlankLine(key) == [key |-> key, account |-> "", format |-> "CASH", amount |-> 0,
                   pending |-> FALSE, list |-> "", asked |-> {}]

Lines == [key : Nat, account : Maybe(Accounts), format : Formats, amount : Nat,
          pending : BOOLEAN, list : Maybe(Accounts), asked : SUBSET Accounts]

QuoteForm == [legs : [1..1 -> Legs], rate : Nat, quote : Maybe(Currencies),
              mode : {"MULTIPLY", "DIVIDE"}, lines : Seq(Lines), first : {"AUTO", "MANUAL"},
              settled : Nat]

\* A key no line has, as a counter gives it.
NewKey(f) == CHOOSE k \in 1..(2 * MaxLines) : \A i \in DOMAIN f.lines : f.lines[i].key # k

VentaBlank == [legs |-> <<EmptyLeg>>, rate |-> 0, quote |-> "", mode |-> "MULTIPLY",
               lines |-> <<BlankLine(1)>>, first |-> "AUTO", settled |-> 0]

Worth(f) == calculateEquivalent(f.legs[1].amount, f.rate, f.mode)

----------------------------------------------------------------------------
(* Effects                                                                 *)

\* With one line and no amount the form fills it in again.
Mode(f) == IF Len(f.lines) = 1 /\ f.lines[1].amount = 0 THEN "AUTO" ELSE f.first

\* What the automatic amount depends on, in a mode.
FillsFrom(f, mode) == <<f.settled, mode, f.lines[1].key, Len(f.lines)>>

\* Mutant of Fills: an amount the user typed is filled in as well.
FillsAlways(old, new) ==
    Len(new.lines) = 1 /\ FillsFrom(old, old.first) # FillsFrom(new, Mode(new))

\* Mutant of Fills: the amount only follows the timer.
FillsOnSettling(old, new) ==
    Len(new.lines) = 1 /\ Mode(new) = "AUTO" /\ old.settled # new.settled

\* A single automatic line is filled in when what it depends on changed.
Fills(old, new) ==
    /\ Len(new.lines) = 1 /\ Mode(new) = "AUTO"
    /\ FillsFrom(old, old.first) # FillsFrom(new, Mode(new))

\* A line follows the currency of the quote.
LineRendered(old, new, i) ==
    LET line == AlignedTo(LineAsked(old.lines, new.lines, i), new.quote)
    IN IF Fills(old, new) THEN [line EXCEPT !.amount = new.settled] ELSE line

\* The form after a render in which old became new, and its effects ran.
VentaRendered(old, new) ==
    [new EXCEPT !.legs = <<Aligned(ListAsked(old.legs[1], @[1]))>>,
                !.lines = [i \in DOMAIN @ |-> LineRendered(old, new, i)],
                !.first = Mode(new)]

\* 300 ms without a change of the equivalent.
Settling(f) == [f EXCEPT !.settled = Worth(f)]

----------------------------------------------------------------------------
(* Inputs                                                                  *)

\* Another account: its list is forgotten until it is asked for.
LineAccounts(line) ==
    {[line EXCEPT !.account = a, !.list = ""] : a \in Maybe(Accounts) \ {line.account}}

LineInputs(f, i) ==
    LET line == f.lines[i]
        became(S) == {[f EXCEPT !.lines[i] = l] : l \in S}
    IN became(LineAccounts(line)) \cup became(TicksFor(line))
         \cup (IF line.account = "" THEN {} ELSE became(FormatsFor(line, f.quote)))

\* The amount of the first line decides who fills it in.
LineAmounts(f, i) ==
    {[f EXCEPT !.lines[i] = l,
               !.first = IF i # 1 THEN @ ELSE IF l.amount = 0 THEN "AUTO" ELSE "MANUAL"] :
        l \in AmountsFor(f.lines[i])}

AddLine(f) ==
    IF Len(f.lines) < MaxLines
    THEN {[f EXCEPT !.lines = Append(@, BlankLine(NewKey(f)))]} ELSE {}

RemoveLine(f) ==
    IF Len(f.lines) <= 1 THEN {}
    ELSE {[f EXCEPT !.lines = RemoveAt(@, i)] : i \in DOMAIN f.lines}

QuoteInputs(f) ==
    {[f EXCEPT !.rate = r] : r \in (Rates \cup {0}) \ {f.rate}}
      \cup {[f EXCEPT !.quote = c] :
              c \in Maybe(Currencies \ {f.legs[1].currency}) \ {f.quote}}
      \cup {[f EXCEPT !.mode = m] : m \in {"MULTIPLY", "DIVIDE"} \ {f.mode}}

VentaInputs(f) ==
    {[f EXCEPT !.legs = <<leg>>] : leg \in LegInputs(f.legs[1]) \cup TicksFor(f.legs[1])}
      \cup QuoteInputs(f) \cup AddLine(f) \cup RemoveLine(f)
      \cup UNION {LineInputs(f, i) \cup LineAmounts(f, i) : i \in DOMAIN f.lines}

----------------------------------------------------------------------------
(* Drafts and requests                                                     *)

\* What a draft keeps: everything shown but the lists, the keys and the timer.
QuoteData(f) ==
    [f EXCEPT !.legs = <<Kept(@[1])>>, !.settled = 0,
              !.lines = [i \in DOMAIN @ |-> [Kept(@[i]) EXCEPT !.key = 0]]]

VentaData(f) == QuoteData(f)

\* The lines of a draft get keys of their own; the list of the leg stays.
VentaRestored(f, d) ==
    LET key == NewKey(f)
    IN [d EXCEPT !.legs = <<Refilled(f.legs[1], @[1])>>, !.settled = f.settled,
                 !.lines = [i \in DOMAIN @ |-> [@[i] EXCEPT !.key =
                              IF i = 1 THEN key ELSE 2 * MaxLines + i]]]

\* What Limpiar leaves; requests under way for the leg still answer.
VentaCleared(f) ==
    [VentaBlank EXCEPT !.lines = <<BlankLine(NewKey(f))>>, !.settled = f.settled,
                       !.legs[1].asked = f.legs[1].asked]

\* Complete, and the amounts square.
QuoteSubmits(f) ==
    /\ f.legs[1].account # "" /\ f.legs[1].currency # "" /\ f.legs[1].amount > 0
    /\ f.rate > 0 /\ f.quote # ""
    /\ \A i \in DOMAIN f.lines : f.lines[i].account # "" /\ f.lines[i].amount > 0
    /\ CuadreOkForClient(f.legs[1].amount, SumOf(f.lines), f.rate, f.mode)

VentaSubmits(f) == QuoteSubmits(f)

\* What a leg or a line sends; the tick counts for cash only.
SentLeg(leg) == [account |-> leg.account, currency |-> leg.currency, format |-> leg.format,
                 amount |-> leg.amount, pending |-> leg.pending /\ leg.format = "CASH"]
SentLine(line) == [account |-> line.account, format |-> line.format, amount |-> line.amount,
                   pending |-> line.pending /\ line.format = "CASH"]
SentLines(f) == [i \in DOMAIN f.lines |-> SentLine(f.lines[i])]
SentQuote(f) == [rate |-> f.rate, currency |-> f.quote, mode |-> f.mode]

VentaRequest(f) == [out |-> SentLeg(f.legs[1]), quote |-> SentQuote(f), ins |-> SentLines(f)]

\* What the server demands of a leg, a quote and lines.
QuoteAccepts(leg, quote, lines) ==
    /\ leg.amount > 0 /\ quote.rate > 0 /\ lines # <<>>
    /\ \A i \in DOMAIN lines : lines[i].amount > 0
    /\ CuadreOk(leg.amount, SumOf(lines), quote.rate, quote.mode)
    /\ PairTakes(leg.account, leg.currency, leg.format)
    /\ \A i \in DOMAIN lines : PairTakes(lines[i].account, quote.currency, lines[i].format)

VentaAccepts(r) == QuoteAccepts(r.out, r.quote, r.ins)

----------------------------------------------------------------------------
(* The purchase: the leg comes in, the lines go out                        *)

CompraBlank == VentaBlank
CompraRendered(old, new) == VentaRendered(old, new)
CompraInputs(f) == VentaInputs(f)
CompraData(f) == QuoteData(f)
CompraRestored(f, d) == VentaRestored(f, d)
CompraCleared(f) == VentaCleared(f)
CompraSubmits(f) == QuoteSubmits(f)
CompraRequest(f) == [in |-> SentLeg(f.legs[1]), quote |-> SentQuote(f), outs |-> SentLines(f)]
CompraAccepts(r) == QuoteAccepts(r.in, r.quote, r.outs)
=============================================================================
