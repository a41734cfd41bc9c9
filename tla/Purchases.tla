------------------------------ MODULE Purchases ------------------------------
(***************************************************************************)
(* Purchases from one supplier: drafted, registered, paid, rectified by    *)
(* the supplier in full or by quantities, voided or replaced, with the     *)
(* credits that rectifications leave, what becomes of them, the stock of   *)
(* the product bought, the VAT register and the ledger.                    *)
(*                                                                         *)
(* Every operation is one serializable transaction that is tried again on  *)
(* a conflict, so one action.  What the database refuses when it commits   *)
(* is a guard as well.  A request also says which version of the purchase  *)
(* it has seen; that only refuses it, and whoever reads again asks again.  *)
(* Numbers, dates, accounts and the discount amount a line was asked with  *)
(* are left out: they only refuse requests.                                *)
(***************************************************************************)
EXTENDS Calculations

CONSTANTS Purchases,
          Bills,       \* the lines that may be bought together
          Quantities,  \* what may be returned of a line at a time
          Part,        \* an amount that is less than what is owed
          Refunds,     \* rows of supplier_credit_refunds
          Buyers       \* users

ASSUME PurchaseAssumption ==
    /\ Bills \subseteq Seq(Order)
    /\ \A bill \in Bills : bill # <<>>
    /\ Quantities \subseteq Nat \ {0}
    /\ Part \in Nat \ {0}

VARIABLES purchase,       \* each purchase, its due dates and what was returned of it
          supplierCredit, \* the credits, in the order they were created
          supplierRefund, \* refunds of credits
          stock,          \* of the product
          vat,            \* the VAT register: base and tax
          ledger         \* the ledger: supplier (owed), expense, tax, treasury

purchaseVars == <<purchase, supplierCredit, supplierRefund, stock, vat, ledger>>

Nothing == [amount \in Amounts \cup {"quantity"} |-> 0]
NoPurchase == [status |-> "ABSENT", payment |-> "PENDING", mode |-> "NONE", lines |-> <<>>,
               dues |-> <<>>, returned |-> <<>>]
NoRefund == [status |-> "ABSENT", credit |-> 0, amount |-> 0, by |-> {}]

PurchaseInit ==
    /\ purchase = [p \in Purchases |-> NoPurchase]
    /\ supplierCredit = <<>>
    /\ supplierRefund = [f \in Refunds |-> NoRefund]
    /\ stock = 0
    /\ vat = [base |-> 0, tax |-> 0]
    /\ ledger = [supplier |-> 0, expense |-> 0, tax |-> 0, treasury |-> 0]
-----------------------------------------------------------------------------
(* What the operations read and write.                                     *)

Calculated(bill) == [n \in DOMAIN bill |-> CalculateLine(bill[n])]
Owed(p) == Sum(purchase[p].lines, "total")
Stocked(lines) == PartSum(lines, OfKind(lines, "PRODUCT"), "quantity")
Paid(dues) == Sum(dues, "paid")
Credited(dues) == Sum(dues, "credited")
Unpaid(due) == IF due.status = "CANCELLED" THEN 0 ELSE due.amount - due.paid - due.credited
UnpaidOf(p) == [n \in DOMAIN purchase[p].dues |-> Unpaid(purchase[p].dues[n])]
NewDue(amount) == [amount |-> amount, paid |-> 0, credited |-> 0, status |-> "PENDING"]
DuesOf(total, first) ==
    IF first = total THEN <<NewDue(total)>> ELSE <<NewDue(first), NewDue(total - first)>>

DueStatus(due) ==
    IF due.paid + due.credited # due.amount THEN "PENDING"
    ELSE IF due.credited > 0 THEN "SETTLED" ELSE "PAID"

\* refreshPurchasePaymentStatus
PaymentStatus(dues, total) ==
    LET paid == Paid(dues)
        credited == Credited(dues) IN
    CASE paid + credited = 0 -> "PENDING"
      [] credited > 0 -> IF paid + credited >= total THEN "SETTLED" ELSE "PARTIALLY_SETTLED"
      [] OTHER -> IF paid + credited >= total THEN "PAID" ELSE "PARTIALLY_PAID"

WithDues(record, dues) ==
    [record EXCEPT !.dues = dues, !.payment = PaymentStatus(dues, Sum(record.lines, "total"))]

\* The entry, VAT records and stock movements of lines, or of their reversal.
Post(lines, sign) ==
    /\ ledger' = [ledger EXCEPT !.supplier = @ + sign * Sum(lines, "total"),
                                  !.expense = @ + sign * Sum(lines, "base"),
                                  !.tax = @ + sign * Sum(lines, "tax")]
    /\ vat' = [base |-> vat.base + sign * Sum(lines, "base"),
               tax |-> vat.tax + sign * Sum(lines, "tax")]
    /\ stock' = stock + sign * Stocked(lines)

\* mapCredit
RefundsOf(c, statuses) ==
    {f \in Refunds : supplierRefund[f].credit = c /\ supplierRefund[f].status \in statuses}
Refunded(c, statuses) ==
    SumFunction([f \in RefundsOf(c, statuses) |-> supplierRefund[f].amount])

AvailableCredit(c) ==
    supplierCredit[c].original - supplierCredit[c].applied
    - Refunded(c, {"REQUESTED", "APPROVED", "POSTED"})
-----------------------------------------------------------------------------
(* Drafts and their registration.                                          *)

CreatePurchase(p) ==
    /\ purchase[p].status = "ABSENT"
    /\ purchase' = [purchase EXCEPT ![p].status = "DRAFT"]
    /\ UNCHANGED <<supplierCredit, supplierRefund, stock, vat, ledger>>

\* The due dates stay as they are.
ReplacePurchaseLines(p, bill) ==
    /\ purchase[p].status = "DRAFT"
    /\ purchase' = [purchase EXCEPT ![p].lines = Calculated(bill)]
    /\ UNCHANGED <<supplierCredit, supplierRefund, stock, vat, ledger>>

ReplacePurchaseDueDates(p, first) ==
    /\ purchase[p].status = "DRAFT"
    /\ first \in 1..Owed(p)
    /\ purchase' = [purchase EXCEPT ![p].dues = DuesOf(Owed(p), first)]
    /\ UNCHANGED <<supplierCredit, supplierRefund, stock, vat, ledger>>

RegisterPurchase(p) ==
    /\ purchase[p].status = "DRAFT"
    /\ purchase[p].lines # <<>>
    /\ purchase[p].dues # <<>>
    /\ Sum(purchase[p].dues, "amount") = Owed(p)
    /\ purchase' = [purchase EXCEPT ![p].status = "REGISTERED",
                        ![p].returned = [n \in DOMAIN purchase[p].lines |-> Nothing]]
    /\ Post(purchase[p].lines, 1)
    /\ UNCHANGED <<supplierCredit, supplierRefund>>
-----------------------------------------------------------------------------
(* Rectification in full, voiding and replacement.                         *)

Untouched(p) == purchase[p].status = "REGISTERED" /\ purchase[p].mode = "NONE"
CleanUnpaid(p) ==
    /\ purchase[p].payment = "PENDING"
    /\ \A n \in DOMAIN purchase[p].dues : purchase[p].dues[n].status = "PENDING"
CleanPaid(p) ==
    /\ purchase[p].payment = "PAID"
    /\ Paid(purchase[p].dues) = Owed(p)
    /\ \A n \in DOMAIN purchase[p].dues : purchase[p].dues[n].status = "PAID"

Withdrawn(p, status) ==
    [purchase[p] EXCEPT !.status = status, !.payment = "NOT_APPLICABLE",
        !.dues = [n \in DOMAIN @ |-> [@[n] EXCEPT !.status = "CANCELLED"]]]

RectifyInFull(p) ==
    /\ Untouched(p)
    /\ Post(purchase[p].lines, -1)
    /\ \/ /\ CleanUnpaid(p)
          /\ purchase' = [purchase EXCEPT ![p] = [Withdrawn(p, "RECTIFIED") EXCEPT !.mode = "FULL"]]
          /\ UNCHANGED supplierCredit
       \/ /\ CleanPaid(p)
          /\ purchase' = [purchase EXCEPT ![p].status = "RECTIFIED", ![p].mode = "FULL"]
          /\ supplierCredit' = Append(supplierCredit, [original |-> Owed(p), applied |-> 0])
    /\ UNCHANGED supplierRefund

VoidPurchase(p) ==
    /\ Untouched(p)
    /\ CleanUnpaid(p)
    /\ purchase' = [purchase EXCEPT ![p] = Withdrawn(p, "VOIDED")]
    /\ Post(purchase[p].lines, -1)
    /\ UNCHANGED <<supplierCredit, supplierRefund>>

\* The entry of the replacement follows the reversal.
ReplacePurchase(p, r, bill, first) ==
    LET lines == Calculated(bill)
        Change(amount) == Sum(lines, amount) - Sum(purchase[p].lines, amount) IN
    /\ Untouched(p)
    /\ CleanUnpaid(p)
    /\ purchase[r].status = "ABSENT"
    /\ first \in 1..Sum(lines, "total")
    /\ purchase' = [purchase EXCEPT
           ![p] = Withdrawn(p, "SUPERSEDED"),
           ![r] = [NoPurchase EXCEPT !.status = "REGISTERED", !.lines = lines,
                       !.dues = DuesOf(Sum(lines, "total"), first),
                       !.returned = [n \in DOMAIN lines |-> Nothing]]]
    /\ ledger' = [ledger EXCEPT !.supplier = @ + Change("total"),
                       !.expense = @ + Change("base"), !.tax = @ + Change("tax")]
    /\ vat' = [base |-> vat.base + Change("base"), tax |-> vat.tax + Change("tax")]
    /\ stock' = stock + Stocked(lines) - Stocked(purchase[p].lines)
    /\ UNCHANGED <<supplierCredit, supplierRefund>>
-----------------------------------------------------------------------------
(* Rectification by quantities: take[n] is what line n returns, 0 nothing. *)

Left(p, n) ==
    [amount \in DOMAIN Nothing |-> purchase[p].lines[n][amount] - purchase[p].returned[n][amount]]

\* A mutant: the last return is prorated like the others.
Returned_NoResidual(p, n, quantity) ==
    LET line == purchase[p].lines[n] IN
    [field \in DOMAIN line |->
        IF field \in DOMAIN Nothing
        THEN RoundMoney(line[field] * quantity, line.quantity) ELSE line[field]]

\* The line with each amount prorated and rounded by itself; the last return takes the rest.
Returned(p, n, quantity) ==
    LET line == purchase[p].lines[n] IN
    [field \in DOMAIN line |->
        IF field \notin DOMAIN Nothing THEN line[field]
        ELSE IF quantity = Left(p, n).quantity THEN Left(p, n)[field]
        ELSE RoundMoney(line[field] * quantity, line.quantity)]

\* Rounding leaves something of every amount for the quantity that is left.
Proratable(p, n, quantity) ==
    LET share == Returned(p, n, quantity) IN
    /\ quantity <= Left(p, n).quantity
    /\ share.total > 0
    /\ quantity # Left(p, n).quantity =>
         /\ \A amount \in Amounts : share[amount] <= Left(p, n)[amount]
         /\ share.total < Left(p, n).total

Chosen(take) == {n \in DOMAIN take : take[n] > 0}
ReturnedLines(p, take) == [n \in Chosen(take) |-> Returned(p, n, take[n])]

ReturnedByNow(p, take) ==
    [n \in DOMAIN take |->
        IF take[n] = 0 THEN purchase[p].returned[n]
        ELSE [amount \in DOMAIN Nothing |->
                 purchase[p].returned[n][amount] + Returned(p, n, take[n])[amount]]]

\* Lines that return nothing this time count as never returned.
Exhausted(p, take) ==
    \A n \in DOMAIN take : take[n] > 0 /\ take[n] = Left(p, n).quantity

\* What the database finds when it commits.
Complete(p, take) == \A n \in DOMAIN take : take[n] = Left(p, n).quantity

Returnable(p, take) ==
    /\ purchase[p].status = "REGISTERED"
    /\ purchase[p].mode # "FULL"
    /\ Chosen(take) # {}
    /\ \A n \in Chosen(take) : Proratable(p, n, take[n])
    /\ LET lines == ReturnedLines(p, take) IN
       Sum(lines, "total") = Sum(lines, "base") + Sum(lines, "tax")
    /\ Exhausted(p, take) <=> Complete(p, take)

\* A credit goes to what is open, from the last due date to the first.
Compensated(dues, available) ==
    [n \in DOMAIN dues |->
        LET later == SumFunction([m \in (n + 1)..Len(dues) |-> Unpaid(dues[m])])
            amount == Min({Unpaid(dues[n]), Max({0, available - later})})
            due == [dues[n] EXCEPT !.credited = @ + amount]
        IN IF amount = 0 THEN due ELSE [due EXCEPT !.status = DueStatus(due)]]

RectifyInPart(p, take) ==
    /\ Returnable(p, take)
    /\ LET lines == ReturnedLines(p, take)
           credit == Sum(lines, "total")
           dues == Compensated(purchase[p].dues, credit)
       IN /\ purchase' = [purchase EXCEPT ![p] = [WithDues(purchase[p], dues) EXCEPT
                 !.status = IF Exhausted(p, take) THEN "RECTIFIED" ELSE @,
                 !.mode = "PARTIAL",
                 !.returned = ReturnedByNow(p, take)]]
          /\ Post(lines, -1)
          /\ supplierCredit' = Append(supplierCredit, [original |-> credit,
                 applied |-> Credited(dues) - Credited(purchase[p].dues)])
    /\ UNCHANGED supplierRefund
-----------------------------------------------------------------------------
(* Payments, and what becomes of a credit.                                 *)

\* One payment of several due dates: pays[p][n] of due date n of purchase p.
PaySupplier(pays) ==
    /\ \A p \in DOMAIN pays :
         /\ purchase[p].status = "REGISTERED"
         /\ \A n \in DOMAIN pays[p] : pays[p][n] <= Unpaid(purchase[p].dues[n])
    /\ purchase' = [p \in Purchases |->
           IF p \notin DOMAIN pays THEN purchase[p]
           ELSE WithDues(purchase[p], [n \in DOMAIN pays[p] |->
                    LET due == [purchase[p].dues[n] EXCEPT !.paid = @ + pays[p][n]]
                    IN IF pays[p][n] = 0 THEN due ELSE [due EXCEPT !.status = DueStatus(due)]])]
    /\ LET total == SumFunction([p \in DOMAIN pays |-> SumFunction(pays[p])]) IN
       /\ total > 0
       /\ ledger' = [ledger EXCEPT !.supplier = @ - total, !.treasury = @ - total]
    /\ UNCHANGED <<supplierCredit, supplierRefund, stock, vat>>

ApplySupplierCredit(c, p, n, amount) ==
    LET due == [purchase[p].dues[n] EXCEPT !.credited = @ + amount] IN
    /\ amount \in 1..AvailableCredit(c)
    /\ purchase[p].status = "REGISTERED"
    /\ purchase[p].dues[n].status = "PENDING"
    /\ amount <= Unpaid(purchase[p].dues[n])
    /\ purchase' = [purchase EXCEPT ![p] =
           WithDues(@, [@.dues EXCEPT ![n] = [due EXCEPT !.status = DueStatus(due)]])]
    /\ supplierCredit' = [supplierCredit EXCEPT ![c].applied = @ + amount]
    /\ UNCHANGED <<supplierRefund, stock, vat, ledger>>

RequestSupplierRefund(f, c, amount, u) ==
    /\ supplierRefund[f].status = "ABSENT"
    /\ amount \in 1..AvailableCredit(c)
    /\ supplierRefund' = [supplierRefund EXCEPT ![f] =
           [status |-> "REQUESTED", credit |-> c, amount |-> amount, by |-> {u}]]
    /\ UNCHANGED <<purchase, supplierCredit, stock, vat, ledger>>

ApproveSupplierRefund(f, u) ==
    /\ supplierRefund[f].status = "REQUESTED"
    /\ u \notin supplierRefund[f].by
    /\ supplierRefund' = [supplierRefund EXCEPT ![f].status = "APPROVED"]
    /\ UNCHANGED <<purchase, supplierCredit, stock, vat, ledger>>

CancelSupplierRefund(f, u) ==
    /\ supplierRefund[f].status = "REQUESTED"
    /\ u \in supplierRefund[f].by
    /\ supplierRefund' = [supplierRefund EXCEPT ![f].status = "CANCELLED"]
    /\ UNCHANGED <<purchase, supplierCredit, stock, vat, ledger>>

PostSupplierRefund(f) ==
    /\ supplierRefund[f].status = "APPROVED"
    /\ supplierRefund' = [supplierRefund EXCEPT ![f].status = "POSTED"]
    /\ ledger' = [ledger EXCEPT !.supplier = @ + supplierRefund[f].amount,
                                  !.treasury = @ + supplierRefund[f].amount]
    /\ UNCHANGED <<purchase, supplierCredit, stock, vat>>
-----------------------------------------------------------------------------
\* All of an amount, or a part of it.
Some(amount) == {Part, amount} \cap 1..amount
Takes(p) == [DOMAIN purchase[p].lines -> Quantities \cup {0}]
\* Something of some due dates of a purchase.
Payments(p) ==
    {pay \in [DOMAIN UnpaidOf(p) -> {0, Part} \cup Range(UnpaidOf(p))] :
        \A n \in DOMAIN pay : pay[n] \in {0} \cup Some(UnpaidOf(p)[n])}

PurchaseNext ==
    \/ \E p \in Purchases :
         \/ CreatePurchase(p) \/ RegisterPurchase(p) \/ RectifyInFull(p) \/ VoidPurchase(p)
         \/ \E bill \in Bills : ReplacePurchaseLines(p, bill)
         \/ \E first \in Some(Owed(p)) : ReplacePurchaseDueDates(p, first)
         \/ \E r \in Purchases \ {p}, bill \in Bills :
              ReplacePurchase(p, r, bill, Sum(Calculated(bill), "total"))
         \/ \E take \in Takes(p) : RectifyInPart(p, take)
    \/ \E targets \in SUBSET Purchases :
         \E pays \in [targets -> UNION {Payments(p) : p \in targets}] :
           /\ \A p \in targets : pays[p] \in Payments(p)
           /\ PaySupplier(pays)
    \/ \E c \in DOMAIN supplierCredit :
         \/ \E p \in Purchases : \E n \in DOMAIN purchase[p].dues :
              \E amount \in Some(Min({AvailableCredit(c), Unpaid(purchase[p].dues[n])})) :
                ApplySupplierCredit(c, p, n, amount)
         \/ \E f \in Refunds, u \in Buyers : \E amount \in Some(AvailableCredit(c)) :
              RequestSupplierRefund(f, c, amount, u)
    \/ \E f \in Refunds :
         \/ PostSupplierRefund(f)
         \/ \E u \in Buyers : ApproveSupplierRefund(f, u) \/ CancelSupplierRefund(f, u)

PurchaseSpec == PurchaseInit /\ [][PurchaseNext]_purchaseVars
-----------------------------------------------------------------------------
Standing == {p \in Purchases : purchase[p].status \in {"REGISTERED", "RECTIFIED"}}
\* What the supplier was not asked to take back.
Kept(p, amount) ==
    IF purchase[p].mode = "FULL" THEN 0
    ELSE Sum(purchase[p].lines, amount) - Sum(purchase[p].returned, amount)
KeptProducts(p) ==
    SumFunction([n \in DOMAIN purchase[p].lines |->
        IF purchase[p].mode # "FULL" /\ purchase[p].lines[n].kind = "PRODUCT"
        THEN Left(p, n).quantity ELSE 0])
KeptInAll(amount) == SumFunction([p \in Standing |-> Kept(p, amount)])
OpenInAll == SumFunction([p \in Standing |-> SumFunction(UnpaidOf(p))])
Unspent(c) == supplierCredit[c].original - supplierCredit[c].applied - Refunded(c, {"POSTED"})
UnspentInAll == SumFunction([c \in DOMAIN supplierCredit |-> Unspent(c)])

(* The books of purchases agree, whatever was paid, returned, voided or    *)
(* replaced: the ledger owes the supplier what is open on due dates less   *)
(* the credits that are left; no due date and no credit is used beyond its *)
(* amount, and their statuses say so; expense, VAT register and stock are  *)
(* what was kept of the purchases, to the cent; and nothing is kept of a   *)
(* purchase that is rectified, nor is anything open on it.                 *)
PurchasesAddUp ==
    /\ ledger.supplier = OpenInAll - UnspentInAll
    /\ \A p \in Standing : \A n \in DOMAIN purchase[p].dues :
         LET due == purchase[p].dues[n] IN
         /\ due.paid + due.credited <= due.amount
         /\ due.status # "CANCELLED" =>
              (due.status = "PENDING" <=> due.paid + due.credited < due.amount)
    /\ \A c \in DOMAIN supplierCredit : AvailableCredit(c) >= 0
    /\ ledger.expense = KeptInAll("base") /\ ledger.tax = KeptInAll("tax")
    /\ vat = [base |-> ledger.expense, tax |-> ledger.tax]
    /\ \A p \in Standing : purchase[p].status = "RECTIFIED" =>
         /\ \A amount \in Amounts : Kept(p, amount) = 0
         /\ \A n \in DOMAIN purchase[p].dues : Unpaid(purchase[p].dues[n]) = 0
    /\ stock = SumFunction([p \in Standing |-> KeptProducts(p)])
=============================================================================
