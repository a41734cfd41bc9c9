---------------------------- MODULE Calculations ----------------------------
(***************************************************************************)
(* What a line of an invoice, a draft, a purchase or a renewal amounts to, *)
(* and the totals and tax summaries of its lines.                          *)
(*                                                                         *)
(* Amounts are in cents, quantities in thousandths, percentages and rates  *)
(* in hundredths.  A tax code stands for its rate.                         *)
(***************************************************************************)
EXTENDS Integers, FiniteSetsExt, SequencesExt

Percentages == 0..10000
\* What is asked for: a product is a catalog item whose stock is tracked.
Order == [kind : {"PRODUCT", "SERVICE"}, quantity : Nat \ {0}, price : Nat,
          percent : Percentages, fixed : Nat, rate : Percentages]
Amounts == {"subtotal", "discount", "base", "tax", "total"}

\* Of n/d, half up.
RoundMoney(n, d) == (2 * n + d) \div (2 * d)

\* calculateInvoiceLine
CalculateLine(o) ==
    LET subtotal == RoundMoney(o.quantity * o.price, 1000)
        percent == RoundMoney(subtotal * o.percent, 10000)
        discount == percent + Min({o.fixed, subtotal - percent})
        base == subtotal - discount
        tax == RoundMoney(base * o.rate, 10000)
    IN [kind |-> o.kind, rate |-> o.rate, quantity |-> o.quantity,
        subtotal |-> subtotal, discount |-> discount, base |-> base, tax |-> tax,
        total |-> base + tax]

\* Of the lines of some positions, or of all of them.
PartSum(lines, positions, amount) ==
    SumFunctionOnSet([n \in DOMAIN lines |-> lines[n][amount]], positions)
Sum(lines, amount) == PartSum(lines, DOMAIN lines, amount)

\* calculateInvoiceTotals
Totals(lines) == [amount \in Amounts |-> Sum(lines, amount)]

\* The positions of the lines of a kind, or at a rate.
OfKind(lines, kind) == {n \in DOMAIN lines : lines[n].kind = kind}
AtRate(lines, rate) == {n \in DOMAIN lines : lines[n].rate = rate}

\* calculateInvoiceTaxSummaries
TaxSummaries(lines) ==
    [rate \in {lines[n].rate : n \in DOMAIN lines} |->
        [amount \in {"base", "tax", "total"} |-> PartSum(lines, AtRate(lines, rate), amount)]]
=============================================================================
