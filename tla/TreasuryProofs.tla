--------------------------- MODULE TreasuryProofs ---------------------------
(***************************************************************************)
(* The money of Treasury, for any number of due dates, payments, direct    *)
(* debits, credits, refunds and requests between two steps: the running    *)
(* totals are the sums that the code computes, nothing is collected,       *)
(* compensated or refunded twice, and the statuses follow from the sums.   *)
(* Then Banking: what is reconciled with the movements of the bank.        *)
(***************************************************************************)
EXTENDS Treasury, Banking, SumTheorems

\* What is left of the payments of a due date, of the refunds of a credit.
NetOf(d) ==
    [p \in Payments |->
        IF payment[p] # Absent /\ payment[p].due = d THEN payment[p].net ELSE 0]
InCourse(f) == refund[f] # Absent /\ refund[f].status \in {"REQUESTED", "APPROVED"}
HeldOf(c) ==
    [f \in Refunds |-> IF InCourse(f) /\ refund[f].credit = c THEN refund[f].amount ELSE 0]

\* The totals are sums over the rows.
SumsInv ==
    /\ \A d \in DueDates : collected[d] = SumFunctionOnSet(NetOf(d), Payments)
    /\ \A c \in Invoices : credit[c] # Absent =>
         credit[c].reserved = SumFunctionOnSet(HeldOf(c), Refunds)

LinkInv ==
    /\ \A c \in Invoices : credit[c] # Absent => invoice[c].status = "RECTIFIED"
    /\ \A f \in Refunds : refund[f] # Absent => credit[refund[f].credit] # Absent
    /\ \A d \in DueDates : due[d] = "CANCELLED" => invoice[InvoiceOf[d]].status # "ISSUED"

\* A compensation whose snapshot is not superseded would pass its checks now.
Fresh(q) == request[q].op = "apply" /\ request[q].fresh
FreshInv == \A q \in Requests : Fresh(q) =>
    /\ credit[request[q].credit] # Absent
    /\ request[q].amount <= Available(request[q].credit)
    /\ Collectable(request[q].due)
    /\ request[q].amount <= Pending(request[q].due)

TreasuryInv ==
    /\ TypeOK /\ SumsInv /\ LinkInv /\ FreshInv
    /\ CashWithinDue /\ CreditWithinOriginal /\ StatusFollowsMoney /\ CancelledIsClean
-----------------------------------------------------------------------------
(* Types.                                                                   *)

\* A row that exists has all its columns.
LEMMA RowsType ==
    ASSUME TypeOK
    PROVE  /\ \A p \in Payments : payment[p] # Absent => payment[p] \in PaymentRow
           /\ \A c \in Invoices : credit[c] # Absent => credit[c] \in CreditRow
           /\ \A f \in Refunds : refund[f] # Absent => refund[f] \in RefundRow
           /\ \A q \in Requests : request[q].op = "apply" => request[q] \in Application
<1>1. \A q \in Requests : request[q].op = "apply" => request[q] \in Application
  BY DEF TypeOK, RequestRow, Application, Idle
<1> QED BY <1>1 DEF TypeOK

\* What is left of a payment is a natural number.
LEMMA NetType ==
    ASSUME TypeOK, NEW d \in DueDates
    PROVE  \A p \in Payments : /\ NetOf(d)[p] \in Nat
                               /\ NetOf(d)[p] = IF payment[p] # Absent /\ payment[p].due = d
                                                THEN payment[p].net ELSE 0
BY RowsType DEF NetOf, PaymentRow

\* What a refund holds of a credit is a natural number.
LEMMA HeldType ==
    ASSUME TypeOK, NEW c \in Invoices
    PROVE  \A f \in Refunds : /\ HeldOf(c)[f] \in Nat
                              /\ HeldOf(c)[f] = IF InCourse(f) /\ refund[f].credit = c
                                                THEN refund[f].amount ELSE 0
BY RowsType DEF HeldOf, RefundRow, InCourse

\* Amounts are positive, and every due date has its invoice.
LEMMA AmountsType ==
    /\ \A x \in Amounts : x \in Nat \ {0}
    /\ \A d \in DueDates : Amount[d] \in Nat \ {0} /\ InvoiceOf[d] \in Invoices
    /\ \A d \in DueDates : \A x \in 1..Amount[d] : x \in Amounts
<1>1. \A d \in DueDates : Amount[d] \in Nat \ {0} /\ InvoiceOf[d] \in Invoices
  BY OwedAssumption DEF OwedAssumption
<1> QED BY <1>1 DEF Amounts

\* The total of an invoice is a natural number: its due dates are finitely many.
LEMMA TotalType ==
    ASSUME NEW i \in Invoices
    PROVE  Total(i) \in Nat
<1>1. IsFiniteSet(DueDatesOf(i)) BY RowsAssumption, FS_Subset DEF RowsAssumption, DueDatesOf
<1>2. \A d \in DueDatesOf(i) : Amount[d] \in Nat BY AmountsType DEF DueDatesOf
<1> QED BY <1>1, <1>2, SumType DEF Total

\* The bank answers about some of the lines, or every line is collected at once.
BankAnswers(m, paid) == Settle(m, paid) \/ (Process(m) /\ paid = remittance[m].active)

\* Both ways to collect a remittance go through CollectLines.
LEMMA BankAnswer ==
    ASSUME TypeOK, NEW m \in Remittances, NEW paid \in SUBSET remittance[m].active,
           BankAnswers(m, paid)
    PROVE  \E rejected \in SUBSET DueDates, status \in Collected \cup {"REJECTED"} :
             CollectLines(m, paid, rejected, status)
<1>1. remittance[m].active \subseteq DueDates BY DEF TypeOK, RemittanceRow
<1>2. CASE Settle(m, paid)
  <2>1. PICK status : status = CASE remittance[m].active \ paid = {} -> "PROCESSED"
                                 [] paid = {} -> "REJECTED"
                                 [] OTHER -> "PARTIALLY_PROCESSED" OBVIOUS
  <2>2. status \in Collected \cup {"REJECTED"} BY <2>1 DEF Collected
  <2>3. CollectLines(m, paid, remittance[m].active \ paid, status) BY <1>2, <2>1 DEF Settle
  <2> QED BY <1>1, <2>2, <2>3
<1>3. CASE Process(m) /\ paid = remittance[m].active
  <2>1. CollectLines(m, paid, {}, "PROCESSED") BY <1>3 DEF Process
  <2> QED BY <2>1 DEF Collected
<1> QED BY <1>2, <1>3 DEF BankAnswers

\* `row` names a new payment for each paid line of remittance `m`: no two lines
\* share one, each was free and now collects its line, and the others stay.
PostedRows(row, m, paid) ==
  /\ \A d \in paid :
       /\ payment[row[d]] = Absent
       /\ payment'[row[d]] = Posted(d, remittance[m].lines[d], "SEPA_REMITTANCE")
  /\ \A d, e \in paid : row[d] = row[e] => d = e
  /\ \A p \in Payments : (\A d \in paid : row[d] # p) => payment'[p] = payment[p]

\* Every paid line becomes one new payment, and the other payments stay.
LEMMA LinesPosted ==
    ASSUME TypeOK, NEW m \in Remittances, NEW paid \in SUBSET DueDates, NEW rejected, NEW status,
           CollectLines(m, paid, rejected, status)
    PROVE  \E row \in [paid -> Payments] : PostedRows(row, m, paid)
<1>1. PICK row \in [paid -> {p \in Payments : payment[p] = Absent}] :
        /\ \A d, e \in paid : row[d] = row[e] => d = e
        /\ payment' = [p \in Payments |->
              IF \E d \in paid : row[d] = p
              THEN LET d == CHOOSE d \in paid : row[d] = p IN
                   Posted(d, remittance[m].lines[d], "SEPA_REMITTANCE")
              ELSE payment[p]]
  BY DEF CollectLines
<1>2. row \in [paid -> Payments] OBVIOUS
<1>3. ASSUME NEW d \in paid
      PROVE  payment'[row[d]] = Posted(d, remittance[m].lines[d], "SEPA_REMITTANCE")
  <2>1. (CHOOSE e \in paid : row[e] = row[d]) = d BY <1>1
  <2> QED BY <1>1, <1>2, <2>1
<1>4. \A d \in paid : payment[row[d]] = Absent BY <1>1
<1>5. \A p \in Payments : (\A d \in paid : row[d] # p) => payment'[p] = payment[p] BY <1>1
<1>6. PostedRows(row, m, paid) BY <1>1, <1>3, <1>4, <1>5 DEF PostedRows
<1> QED BY <1>2, <1>6

\* A compensation that is still fresh was not superseded, and is as it was.
LEMMA SupersededIs ==
    ASSUME TypeOK, NEW is, NEW q \in Requests
    PROVE  /\ Superseded(is)[q] \in RequestRow
           /\ Superseded(is)[q].op = "apply" /\ Superseded(is)[q].fresh =>
                /\ Superseded(is)[q] = request[q]
                /\ request[q].credit \notin is /\ InvoiceOf[request[q].due] \notin is
<1>1. request[q] \in RequestRow BY DEF TypeOK
<1>2. Superseded(is)[q] =
        IF request[q].op = "apply" /\ {InvoiceOf[request[q].due], request[q].credit} \cap is # {}
        THEN [request[q] EXCEPT !.fresh = FALSE] ELSE request[q]
  BY DEF Superseded
<1>3. CASE request[q].op = "apply" /\ {InvoiceOf[request[q].due], request[q].credit} \cap is # {}
  <2>1. request[q] \in Application BY <1>3, RowsType
  <2>2. [request[q] EXCEPT !.fresh = FALSE] \in Application BY <2>1 DEF Application
  <2>3. [request[q] EXCEPT !.fresh = FALSE].fresh = FALSE BY <2>1 DEF Application
  <2> QED BY <1>2, <1>3, <2>2, <2>3 DEF RequestRow
<1>4. CASE ~ (request[q].op = "apply"
              /\ {InvoiceOf[request[q].due], request[q].credit} \cap is # {})
  BY <1>1, <1>2, <1>4
<1> QED BY <1>3, <1>4

\* Recomputing the payment status of an invoice leaves the rest of it alone.
LEMMA RefreshedIs ==
    ASSUME TypeOK, NEW is, NEW i \in Invoices
    PROVE  /\ Refreshed(is)[i] \in InvoiceRow
           /\ Refreshed(is)[i].status = invoice[i].status
           /\ Refreshed(is)[i].annulled = invoice[i].annulled
<1>1. invoice[i] \in InvoiceRow BY DEF TypeOK
<1>2. \A cash, credits, total : InvoiceStatus(cash, credits, total) \in
        {"PENDING", "PARTIALLY_PAID", "PAID", "PARTIALLY_SETTLED", "SETTLED"}
  BY DEF InvoiceStatus
<1> QED BY <1>1, <1>2 DEF Refreshed, InvoiceRow

\* Recomputed invoices and superseded requests keep their types.
LEMMA RewrittenType ==
    ASSUME TypeOK, NEW is
    PROVE  /\ Refreshed(is) \in [Invoices -> InvoiceRow]
           /\ Superseded(is) \in [Requests -> RequestRow]
<1>1. \A i \in Invoices : Refreshed(is)[i] \in InvoiceRow BY RefreshedIs
<1>2. \A q \in Requests : Superseded(is)[q] \in RequestRow BY SupersededIs
<1>3. Refreshed(is) = [i \in Invoices |-> Refreshed(is)[i]] BY DEF Refreshed
<1>4. Superseded(is) = [q \in Requests |-> Superseded(is)[q]] BY DEF Superseded
<1> QED BY <1>1, <1>2, <1>3, <1>4

\* The statuses computed from sums are statuses of the schema.
LEMMA StatusesAre ==
    \A cash, credits, amount :
        /\ DueStatus(cash, credits, amount) \in DueStatuses
        /\ PaidStatus(cash, credits, amount) \in DueStatuses
        /\ InvoiceStatus(cash, credits, amount) \in
             {"PENDING", "PARTIALLY_PAID", "PAID", "PARTIALLY_SETTLED", "SETTLED"}
BY DEF DueStatus, PaidStatus, DueStatuses, InvoiceStatus

\* What a bank answer, or a collection, writes line by line.
LEMMA LinesType ==
    ASSUME TypeOK, NEW m \in Remittances, NEW d \in remittance[m].active
    PROVE  d \in DueDates /\ remittance[m].lines[d] \in Nat \ {0}
<1>1. remittance[m] \in RemittanceRow BY DEF TypeOK
<1>2. PICK ds \in SUBSET DueDates : remittance[m].lines \in [ds -> Amounts]
  BY <1>1 DEF RemittanceRow
<1>3. d \in ds BY <1>2 DEF TypeOK
<1> QED BY <1>2, <1>3, AmountsType

\* Registering a payment keeps the types.
LEMMA CollectType ==
    ASSUME TypeOK, NEW p \in Payments, NEW d \in DueDates, NEW x \in Amounts,
           RegisterPayment(p, d, x)
    PROVE  TypeOK'
<1>1. x \in Nat BY AmountsType
<1>2. Collect(p, d, x) BY DEF RegisterPayment
<1>3. payment' \in [Payments -> {Absent} \cup PaymentRow]
  <2>1. Posted(d, x, "MANUAL") \in PaymentRow BY <1>1 DEF Posted, PaymentRow
  <2> QED BY <1>2, <2>1 DEF Collect, TypeOK
<1>4. collected' \in [DueDates -> Nat] BY <1>1, <1>2 DEF Collect, TypeOK
<1>5. due' \in [DueDates -> DueStatuses] BY <1>2, StatusesAre DEF Collect, TypeOK
<1>6. invoice' \in [Invoices -> InvoiceRow]
  BY <1>2, RewrittenType DEF Collect
<1>7. request' \in [Requests -> RequestRow]
  BY <1>2, RewrittenType DEF Collect
<1> QED BY <1>2, <1>3, <1>4, <1>5, <1>6, <1>7 DEF Collect, TypeOK

\* A return keeps the types: what is returned is at most what is left of the payment,
\* which is one of the terms of what is collected.
LEMMA ReturnType ==
    ASSUME TypeOK, SumsInv, NEW p \in Payments, NEW x \in Amounts, RegisterReturn(p, x)
    PROVE  /\ TypeOK'
           /\ payment[p] \in PaymentRow
           /\ payment[p].net - x \in Nat /\ collected[payment[p].due] - x \in Nat
<1> PICK d : d = payment[p].due OBVIOUS
<1>1. x \in Nat BY AmountsType
<1>2. payment[p] \in PaymentRow /\ TakeBack(p, x) /\ x <= payment[p].net
  BY RowsType DEF RegisterReturn
<1>3. d \in DueDates /\ payment[p].net \in Nat /\ payment[p].net - x \in Nat
  BY <1>1, <1>2 DEF PaymentRow
<1>4. collected[d] - x \in Nat
  <2>1. \A r \in Payments : NetOf(d)[r] \in Nat BY <1>3, NetType
  <2>2. NetOf(d)[p] <= SumFunctionOnSet(NetOf(d), Payments)
    BY <2>1, RowsAssumption, SumBounds DEF RowsAssumption
  <2>3. NetOf(d)[p] = payment[p].net BY <1>3, NetType DEF RegisterReturn
  <2>4. collected[d] \in Nat /\ collected[d] = SumFunctionOnSet(NetOf(d), Payments)
    BY <1>3 DEF TypeOK, SumsInv
  <2> QED BY <1>1, <1>2, <2>2, <2>3, <2>4, <1>3
<1>5. payment' \in [Payments -> {Absent} \cup PaymentRow]
  <2>1. payment' = [payment EXCEPT ![p].net = payment[p].net - x] BY <1>2 DEF TakeBack
  <2>2. payment[p].net - x \in Nat BY <1>3
  <2>3. [payment[p] EXCEPT !.net = payment[p].net - x] \in PaymentRow
    BY <1>2, <2>2 DEF PaymentRow
  <2>4. payment' = [payment EXCEPT ![p] = [payment[p] EXCEPT !.net = payment[p].net - x]]
    BY <2>1
  <2> QED BY <2>3, <2>4 DEF TypeOK
<1>6. collected' \in [DueDates -> Nat]
  <2>1. collected' = [collected EXCEPT ![d] = collected[d] - x] BY <1>2 DEF TakeBack
  <2> QED BY <1>3, <1>4, <2>1 DEF TypeOK
<1>7. due' \in [DueDates -> DueStatuses] BY <1>2, StatusesAre DEF TakeBack, TypeOK
<1>8. invoice' \in [Invoices -> InvoiceRow]
  <2>1. invoice' = Refreshed({InvoiceOf[d]}) BY <1>2 DEF TakeBack
  <2> QED BY <2>1, RewrittenType
<1>9. request' \in [Requests -> RequestRow]
  <2>1. request' = Superseded({InvoiceOf[d]}) BY <1>2 DEF TakeBack
  <2> QED BY <2>1, RewrittenType
<1>10. /\ remittance' \in [Remittances -> RemittanceRow]
       /\ \A m \in Remittances : remittance'[m].active \subseteq DOMAIN remittance'[m].lines
  <2>1. remittance' = MarkReturned(p) BY <1>2 DEF TakeBack
  <2>2. remittance \in [Remittances -> RemittanceRow]
        /\ \A m \in Remittances : remittance[m].active \subseteq DOMAIN remittance[m].lines
    BY DEF TypeOK
  <2>3. ASSUME NEW r \in RemittanceRow
        PROVE  /\ [r EXCEPT !.status = "PARTIALLY_RETURNED"] \in RemittanceRow
               /\ [r EXCEPT !.status = "PARTIALLY_RETURNED"].active = r.active
               /\ [r EXCEPT !.status = "PARTIALLY_RETURNED"].lines = r.lines
    BY DEF RemittanceRow, Collected
  <2> QED BY <2>1, <2>2, <2>3 DEF MarkReturned
<1> QED BY <1>2, <1>3, <1>4, <1>5, <1>6, <1>7, <1>8, <1>9, <1>10 DEF TakeBack, TypeOK

\* Collecting the lines of a remittance keeps the types.
LEMMA BankType ==
    ASSUME TypeOK, NEW m \in Remittances, NEW paid \in SUBSET remittance[m].active,
           NEW rejected, NEW status \in Collected \cup {"REJECTED"},
           CollectLines(m, paid, rejected, status)
    PROVE  TypeOK'
<1>1. \A d \in paid : d \in DueDates /\ remittance[m].lines[d] \in Nat \ {0} BY LinesType
<1>2. payment' \in [Payments -> {Absent} \cup PaymentRow]
  <2>1. PICK row \in [paid -> Payments] : PostedRows(row, m, paid)
    <3>1. paid \in SUBSET DueDates BY <1>1
    <3> QED BY <3>1, LinesPosted
  <2>2. \A d \in paid : Posted(d, remittance[m].lines[d], "SEPA_REMITTANCE") \in PaymentRow
    BY <1>1 DEF Posted, PaymentRow
  <2>3. \A p \in Payments : payment'[p] \in {Absent} \cup PaymentRow
    BY <2>1, <2>2 DEF TypeOK, PostedRows
  <2>4. payment' = [p \in Payments |-> payment'[p]] BY DEF CollectLines
  <2> QED BY <2>3, <2>4
<1>3. collected' \in [DueDates -> Nat] BY <1>1 DEF CollectLines, TypeOK
<1>4. due' \in [DueDates -> DueStatuses] BY StatusesAre DEF CollectLines, TypeOK
<1>5. invoice' \in [Invoices -> InvoiceRow]
  <2>1. \A i \in Invoices : invoice[i] \in InvoiceRow BY DEF TypeOK
  <2>2. \A i \in Invoices :
          invoice'[i] = invoice[i] \/
          \E cash, total : invoice'[i] = [invoice[i] EXCEPT !.pay = InvoiceStatus(cash, 0, total)]
    BY DEF CollectLines
  <2>3. \A i \in Invoices : \A cash, total :
          [invoice[i] EXCEPT !.pay = InvoiceStatus(cash, 0, total)] \in InvoiceRow
    BY <2>1, StatusesAre DEF InvoiceRow
  <2>4. invoice' = [i \in Invoices |-> invoice'[i]] BY DEF CollectLines
  <2> QED BY <2>1, <2>2, <2>3, <2>4
<1>6. request' \in [Requests -> RequestRow]
  BY RewrittenType DEF CollectLines
<1>7. /\ remittance' \in [Remittances -> RemittanceRow]
      /\ \A n \in Remittances : remittance'[n].active \subseteq DOMAIN remittance'[n].lines
  <2>1. remittance' = [remittance EXCEPT ![m] =
          [remittance[m] EXCEPT !.status = status, !.active = remittance[m].active \ rejected]]
    BY DEF CollectLines
  <2>2. remittance[m] \in RemittanceRow
        /\ remittance[m].active \subseteq DOMAIN remittance[m].lines
    BY DEF TypeOK
  <2> PICK r : r = [remittance[m] EXCEPT !.status = status,
                                         !.active = remittance[m].active \ rejected]
    OBVIOUS
  <2>3. r \in RemittanceRow /\ r.active \subseteq DOMAIN r.lines
    BY <2>2 DEF RemittanceRow
  <2> QED BY <2>1, <2>3 DEF TypeOK
<1> QED BY <1>2, <1>3, <1>4, <1>5, <1>6, <1>7 DEF CollectLines, TypeOK
-----------------------------------------------------------------------------
(* What each kind of step writes.                                           *)

StatusMoves(q, m) ==
    GenerateSepa(q, m) \/ MarkSent(q, m) \/ Reject(q, m) \/ CancelDraft(q, m) \/ Close(q, m)
Operations == {"generate", "send", "reject", "cancel", "close"}

\* The changes of a remittance without a lock write its status and active lines only.
LEMMA StatusStep ==
    ASSUME NEW q \in Requests, NEW m \in Remittances, StatusMoves(q, m)
    PROVE  /\ UNCHANGED <<invoice, due, collected, credited, payment, credit, refund>>
           /\ \/ /\ UNCHANGED remittance
                 /\ \E op \in Operations :
                      request' = [request EXCEPT ![q] = [op |-> op, remittance |-> m]]
              \/ /\ request' = [request EXCEPT ![q] = Idle]
                 /\ \E to \in {"GENERATED", "SENT", "REJECTED", "CANCELLED", "CLOSED"},
                       active \in {remittance[m].active, {}} :
                      remittance' = [remittance EXCEPT ![m] =
                        [remittance[m] EXCEPT !.status = to, !.active = active]]
<1>1. CASE GenerateSepa(q, m)
  BY <1>1 DEF GenerateSepa, ReadStatus, WriteStatus, Operations
<1>2. CASE MarkSent(q, m) BY <1>2 DEF MarkSent, ReadStatus, WriteStatus, Operations
<1>3. CASE Reject(q, m) BY <1>3 DEF Reject, ReadStatus, WriteStatus, Operations
<1>4. CASE CancelDraft(q, m) BY <1>4 DEF CancelDraft, ReadStatus, WriteStatus, Operations
<1>5. CASE Close(q, m) BY <1>5 DEF Close, ReadStatus, WriteStatus, Operations
<1> QED BY <1>1, <1>2, <1>3, <1>4, <1>5 DEF StatusMoves

\* The refunds that move.
RefundMoves(f) == (\E u \in Users : ApproveRefund(f, u)) \/ CancelRefund(f) \/ PostRefund(f)

RequestsMove(q) ==
    \/ \E m \in Remittances : StatusMoves(q, m)
    \/ \E d \in DueDates : ReadUnpaid(q, d) \/ WriteUnpaid(q, d)
    \/ \E c \in Invoices, d \in DueDates, x \in Amounts : ReadCredit(q, c, d, x)
    \/ ApplyCredit(q) \/ Serialization(q)

InvoiceMoves(i) == (\E held \in BOOLEAN : Rectify(i, held)) \/ Annul(i) \/ Void(i) \/ Release(i)

CashMoves ==
    \/ \E p \in Payments, d \in DueDates, x \in Amounts : RegisterPayment(p, d, x)
    \/ \E p \in Payments, x \in Amounts : RegisterReturn(p, x)
    \/ \E m \in Remittances : \E paid \in SUBSET remittance[m].active : BankAnswers(m, paid)

RefundsMove ==
    \/ \E f \in Refunds, c \in Invoices, x \in Amounts, u \in Users : RequestRefund(f, c, x, u)
    \/ \E f \in Refunds : RefundMoves(f)

\* The steps, by what they write.
LEMMA NextIs ==
    ASSUME [Next]_vars
    PROVE  \/ UNCHANGED vars
           \/ CashMoves \/ RefundsMove
           \/ \E q \in Requests : RequestsMove(q)
           \/ \E i \in Invoices : InvoiceMoves(i)
           \/ \E m \in Remittances, ds \in SUBSET DueDates \ {{}} : CreateDraft(m, ds)
<1>1. PaymentNext => CashMoves BY DEF PaymentNext, CashMoves
<1>2. RemittanceNext =>
        \/ CashMoves \/ \E q \in Requests : RequestsMove(q)
        \/ \E m \in Remittances, ds \in SUBSET DueDates \ {{}} : CreateDraft(m, ds)
  <2>1. (\E m \in Remittances : \E paid \in SUBSET remittance[m].active : Settle(m, paid))
          => CashMoves
    <3>1. ASSUME NEW m \in Remittances, NEW paid \in SUBSET remittance[m].active,
                 Settle(m, paid)
          PROVE  CashMoves
      <4>1. BankAnswers(m, paid) BY <3>1, Zenon DEF BankAnswers
      <4> QED BY <4>1 DEF CashMoves
    <3> QED BY <3>1
  <2>2. (\E m \in Remittances : Process(m)) => CashMoves
    <3> SUFFICES ASSUME NEW m \in Remittances, Process(m) PROVE CashMoves OBVIOUS
    <3>1. BankAnswers(m, remittance[m].active) BY DEF BankAnswers
    <3> QED BY <3>1 DEF CashMoves
  <2> QED BY <2>1, <2>2 DEF RemittanceNext, RequestsMove, StatusMoves
<1>3. InvoiceNext => \E i \in Invoices : InvoiceMoves(i) BY DEF InvoiceNext, InvoiceMoves
<1>4. CreditNext =>
        \/ RefundsMove \/ \E q \in Requests : RequestsMove(q)
        \/ \E i \in Invoices : InvoiceMoves(i)
  BY DEF CreditNext, RefundsMove, RefundMoves, RequestsMove, InvoiceMoves
<1> QED BY <1>1, <1>2, <1>3, <1>4 DEF Next
-----------------------------------------------------------------------------
(* Every step keeps the types.                                              *)

\* The steps of requests keep the types.
LEMMA RequestsType ==
    ASSUME TypeOK, NEW q \in Requests, RequestsMove(q)
    PROVE  TypeOK'
<1>1. ASSUME NEW m \in Remittances, StatusMoves(q, m) PROVE TypeOK'
  <2>1. UNCHANGED <<invoice, due, collected, credited, payment, credit, refund>>
    BY <1>1, StatusStep
  <2>2. CASE UNCHANGED remittance /\ \E op \in Operations :
                      request' = [request EXCEPT ![q] = [op |-> op, remittance |-> m]]
    BY <2>1, <2>2 DEF TypeOK, Operations, RequestRow
  <2>3. CASE /\ request' = [request EXCEPT ![q] = Idle]
             /\ \E to \in {"GENERATED", "SENT", "REJECTED", "CANCELLED", "CLOSED"},
                   active \in {remittance[m].active, {}} :
                  remittance' = [remittance EXCEPT ![m] =
                        [remittance[m] EXCEPT !.status = to, !.active = active]]
    <3>1. PICK to \in {"GENERATED", "SENT", "REJECTED", "CANCELLED", "CLOSED"},
               active \in {remittance[m].active, {}} :
                  remittance' = [remittance EXCEPT ![m] =
                        [remittance[m] EXCEPT !.status = to, !.active = active]]
      BY <2>3
    <3> PICK r : r = [remittance[m] EXCEPT !.status = to, !.active = active] OBVIOUS
    <3>2. remittance[m] \in RemittanceRow
          /\ remittance[m].active \subseteq DOMAIN remittance[m].lines
      BY DEF TypeOK
    <3>3. r \in RemittanceRow /\ r.active \subseteq DOMAIN r.lines
      BY <3>2 DEF RemittanceRow, Collected
    <3> QED BY <2>1, <2>3, <3>1, <3>3 DEF TypeOK, RequestRow
  <2> QED BY <1>1, <2>2, <2>3, StatusStep
<1>2. ASSUME NEW d \in DueDates, ReadUnpaid(q, d) PROVE TypeOK'
  BY <1>2 DEF ReadUnpaid, TypeOK, RequestRow
<1>3. ASSUME NEW d \in DueDates, WriteUnpaid(q, d) PROVE TypeOK'
  <2>1. request' \in [Requests -> RequestRow]
    <3>1. Superseded({InvoiceOf[d]}) \in [Requests -> RequestRow] BY RewrittenType
    <3> QED BY <1>3, <3>1 DEF WriteUnpaid, RequestRow
  <2>2. invoice' \in [Invoices -> InvoiceRow]
    <3>1. invoice[InvoiceOf[d]] \in InvoiceRow BY AmountsType DEF TypeOK
    <3>2. [invoice[InvoiceOf[d]] EXCEPT !.pay = "UNPAID"] \in InvoiceRow BY <3>1 DEF InvoiceRow
    <3> QED BY <1>3, <3>2 DEF WriteUnpaid, TypeOK
  <2> QED BY <1>3, <2>1, <2>2 DEF WriteUnpaid, TypeOK, DueStatuses
<1>4. ASSUME NEW c \in Invoices, NEW d \in DueDates, NEW x \in Amounts, ReadCredit(q, c, d, x)
      PROVE  TypeOK'
  <2>1. [op |-> "apply", credit |-> c, due |-> d, amount |-> x, fresh |-> TRUE] \in RequestRow
    BY AmountsType DEF RequestRow, Application
  <2> QED BY <1>4, <2>1 DEF ReadCredit, TypeOK
<1>5. ASSUME ApplyCredit(q) PROVE TypeOK'
  <2> PICK c : c = request[q].credit OBVIOUS
  <2> PICK d : d = request[q].due OBVIOUS
  <2> PICK x : x = request[q].amount OBVIOUS
  <2>1. c \in Invoices /\ d \in DueDates /\ x \in Nat \ {0}
    BY <1>5, RowsType DEF ApplyCredit, Application
  <2>2. /\ credited' = [credited EXCEPT ![d] = credited[d] + x]
        /\ credit' = [credit EXCEPT ![c].applied = credit[c].applied + x]
        /\ invoice' = Refreshed({InvoiceOf[d]})
        /\ request' = [Superseded({InvoiceOf[d], c}) EXCEPT ![q] = Idle]
    BY <1>5 DEF ApplyCredit
  <2>3. credited' \in [DueDates -> Nat] BY <2>1, <2>2 DEF TypeOK
  <2>4. credit' \in [Invoices -> {Absent} \cup CreditRow]
    <3>1. CASE credit[c] = Absent
      <4>1. [credit[c] EXCEPT !.applied = credit[c].applied + x] = Absent
        BY <3>1 DEF Absent
      <4> QED BY <2>1, <2>2, <4>1 DEF TypeOK
    <3>2. CASE credit[c] \in CreditRow
      <4>1. [credit[c] EXCEPT !.applied = credit[c].applied + x] \in CreditRow
        BY <2>1, <3>2 DEF CreditRow
      <4> QED BY <2>1, <2>2, <4>1 DEF TypeOK
    <3> QED BY <2>1, <3>1, <3>2 DEF TypeOK
  <2>5. invoice' \in [Invoices -> InvoiceRow] BY <2>2, RewrittenType
  <2>6. request' \in [Requests -> RequestRow]
    <3>1. Superseded({InvoiceOf[d], c}) \in [Requests -> RequestRow] BY RewrittenType
    <3> QED BY <2>2, <3>1 DEF RequestRow
  <2>7. due' \in [DueDates -> DueStatuses] BY <1>5, StatusesAre DEF ApplyCredit, TypeOK
  <2> QED BY <1>5, <2>3, <2>4, <2>5, <2>6, <2>7 DEF ApplyCredit, TypeOK
<1>6. ASSUME Serialization(q) PROVE TypeOK'
  BY <1>6 DEF Serialization, TypeOK, RequestRow
<1> QED BY <1>1, <1>2, <1>3, <1>4, <1>5, <1>6 DEF RequestsMove

\* Rectifying, annulling, voiding and releasing keep the types.
LEMMA InvoicesType ==
    ASSUME TypeOK, NEW i \in Invoices, InvoiceMoves(i)
    PROVE  TypeOK'
<1>0. invoice[i] \in InvoiceRow BY DEF TypeOK
<1>1. ASSUME NEW held \in BOOLEAN, Rectify(i, held) PROVE TypeOK'
  <2>1. invoice' \in [Invoices -> InvoiceRow]
    <3>1. \A pay \in {"CANCELLED", "PAID"} :
            [invoice[i] EXCEPT !.status = "RECTIFIED", !.pay = pay] \in InvoiceRow
      BY <1>0 DEF InvoiceRow
    <3>2. invoice' = [invoice EXCEPT ![i] = [invoice[i] EXCEPT !.status = "RECTIFIED",
                        !.pay = IF CleanUnpaid(i) THEN "CANCELLED" ELSE "PAID"]]
      BY <1>1 DEF Rectify
    <3> QED BY <3>1, <3>2 DEF TypeOK
  <2>2. due' \in [DueDates -> DueStatuses] BY <1>1 DEF Rectify, TypeOK, DueStatuses
  <2>3. credit' \in [Invoices -> {Absent} \cup CreditRow]
    BY <1>1 DEF Rectify, TypeOK, CreditRow
  <2>4. request' \in [Requests -> RequestRow] BY <1>1, RewrittenType DEF Rectify
  <2> QED BY <1>1, <2>1, <2>2, <2>3, <2>4 DEF Rectify, TypeOK
<1>2. ASSUME Annul(i) PROVE TypeOK'
  <2>1. invoice' \in [Invoices -> InvoiceRow]
    <3>1. [invoice[i] EXCEPT !.annulled = TRUE] \in InvoiceRow BY <1>0 DEF InvoiceRow
    <3> QED BY <1>2, <3>1 DEF Annul, TypeOK
  <2>2. request' \in [Requests -> RequestRow] BY <1>2, RewrittenType DEF Annul
  <2> QED BY <1>2, <2>1, <2>2 DEF Annul, TypeOK
<1>3. ASSUME Void(i) PROVE TypeOK'
  <2>1. invoice' \in [Invoices -> InvoiceRow]
    <3>1. [invoice[i] EXCEPT !.status = "VOIDED", !.pay = "CANCELLED"] \in InvoiceRow
      BY <1>0 DEF InvoiceRow
    <3> QED BY <1>3, <3>1 DEF Void, TypeOK
  <2>2. due' \in [DueDates -> DueStatuses] BY <1>3 DEF Void, TypeOK, DueStatuses
  <2>3. request' \in [Requests -> RequestRow] BY <1>3, RewrittenType DEF Void
  <2> QED BY <1>3, <2>1, <2>2, <2>3 DEF Void, TypeOK
<1>4. ASSUME Release(i) PROVE TypeOK'
  <2>1. credit[i] \in CreditRow BY <1>4, RowsType DEF Release
  <2>2. [credit[i] EXCEPT !.held = FALSE] \in CreditRow BY <2>1 DEF CreditRow
  <2> QED BY <1>4, <2>2 DEF Release, TypeOK
<1> QED BY <1>1, <1>2, <1>3, <1>4 DEF InvoiceMoves

\* A refund that is asked for and one that moves, with its credit.
LEMMA HeldBound ==
    ASSUME TypeOK, SumsInv, NEW f \in Refunds, InCourse(f), credit[refund[f].credit] # Absent
    PROVE  /\ refund[f] \in RefundRow /\ credit[refund[f].credit] \in CreditRow
           /\ credit[refund[f].credit].reserved - refund[f].amount \in Nat
<1> PICK c : c = refund[f].credit OBVIOUS
<1>1. refund[f] \in RefundRow BY RowsType DEF InCourse
<1>2. c \in Invoices /\ refund[f].amount \in Nat BY <1>1 DEF RefundRow
<1>3. credit[c] \in CreditRow BY <1>2, RowsType
<1>4. \A g \in Refunds : HeldOf(c)[g] \in Nat BY <1>2, HeldType
<1>5. HeldOf(c)[f] <= SumFunctionOnSet(HeldOf(c), Refunds)
  BY <1>4, RowsAssumption, SumBounds DEF RowsAssumption
<1>6. HeldOf(c)[f] = refund[f].amount BY <1>2, HeldType
<1>7. credit[c].reserved \in Nat /\ credit[c].reserved = SumFunctionOnSet(HeldOf(c), Refunds)
  BY <1>2, <1>3 DEF SumsInv, CreditRow
<1> QED BY <1>1, <1>2, <1>3, <1>5, <1>6, <1>7

\* A posted refund writes its credit twice: once in the end.
LEMMA PostWrites ==
    ASSUME TypeOK, SumsInv, NEW f \in Refunds, InCourse(f), credit[refund[f].credit] # Absent,
           PostRefund(f)
    PROVE  credit' = [credit EXCEPT ![refund[f].credit] =
                        [credit[refund[f].credit] EXCEPT
                           !.reserved = credit[refund[f].credit].reserved - refund[f].amount,
                           !.posted = credit[refund[f].credit].posted + refund[f].amount]]
<1> PICK c : c = refund[f].credit OBVIOUS
<1>0. c \in Invoices /\ credit[c] \in CreditRow BY HeldBound DEF RefundRow
<1> PICK a : a = refund[f].amount OBVIOUS
<1> PICK k : k = [credit[c] EXCEPT !.reserved = credit[c].reserved - a] OBVIOUS
<1>1. credit' = [[credit EXCEPT ![c].reserved = credit[c].reserved - a] EXCEPT ![c].posted =
                   [credit EXCEPT ![c].reserved = credit[c].reserved - a][c].posted + a]
  BY DEF PostRefund
<1>2. [credit EXCEPT ![c].reserved = credit[c].reserved - a] = [credit EXCEPT ![c] = k]
  OBVIOUS
<1>3. [credit EXCEPT ![c] = k][c] = k BY <1>0 DEF TypeOK
<1>4. credit' = [[credit EXCEPT ![c] = k] EXCEPT ![c] = [k EXCEPT !.posted = k.posted + a]]
  BY <1>1, <1>2, <1>3
<1>5. k.posted = credit[c].posted BY <1>0 DEF CreditRow
<1> PICK z : z = [k EXCEPT !.posted = k.posted + a] OBVIOUS
<1>6. z = [credit[c] EXCEPT !.reserved = credit[c].reserved - refund[f].amount,
                            !.posted = credit[c].posted + refund[f].amount]
  BY <1>5
<1>7. \A y : [[credit EXCEPT ![c] = k] EXCEPT ![c] = y] = [credit EXCEPT ![c] = y]
  OBVIOUS
<1>8. credit' = [credit EXCEPT ![c] = z]
  BY <1>4, <1>7
<1> QED BY <1>6, <1>8

\* Refunds keep the types: a refund in course is one of the terms of what is reserved.
LEMMA RefundsType ==
    ASSUME TypeOK, SumsInv, LinkInv, RefundsMove
    PROVE  TypeOK'
<1>1. ASSUME NEW f \in Refunds, NEW c \in Invoices, NEW x \in Amounts, NEW u \in Users,
             RequestRefund(f, c, x, u)
      PROVE  TypeOK'
  <2>1. x \in Nat /\ credit[c] \in CreditRow
    BY <1>1, AmountsType, RowsType DEF RequestRefund, Usable
  <2>2. [credit[c] EXCEPT !.reserved = credit[c].reserved + x] \in CreditRow
    BY <2>1 DEF CreditRow
  <2>3. credit' \in [Invoices -> {Absent} \cup CreditRow]
    BY <1>1, <2>2 DEF RequestRefund, TypeOK
  <2>4. refund' \in [Refunds -> {Absent} \cup RefundRow]
    BY <1>1, <2>1 DEF RequestRefund, TypeOK, RefundRow
  <2>5. request' \in [Requests -> RequestRow] BY <1>1, RewrittenType DEF RequestRefund
  <2> QED BY <1>1, <2>3, <2>4, <2>5 DEF RequestRefund, TypeOK
<1>2. ASSUME NEW f \in Refunds, NEW from \in {"REQUESTED", "APPROVED"},
             NEW to \in {"APPROVED", "CANCELLED", "POSTED"}, MoveRefund(f, from, to)
      PROVE  /\ refund' \in [Refunds -> {Absent} \cup RefundRow]
             /\ request' \in [Requests -> RequestRow]
             /\ UNCHANGED <<invoice, due, collected, credited, payment, remittance>>
             /\ InCourse(f) /\ credit[refund[f].credit] # Absent
  <2>1. refund[f] # Absent BY <1>2 DEF MoveRefund, Absent
  <2>2. refund[f] \in RefundRow /\ [refund[f] EXCEPT !.status = to] \in RefundRow
    BY <2>1, RowsType DEF RefundRow
  <2>3. refund' \in [Refunds -> {Absent} \cup RefundRow]
    BY <1>2, <2>2 DEF MoveRefund, TypeOK
  <2>4. request' \in [Requests -> RequestRow] BY <1>2, RewrittenType DEF MoveRefund
  <2> QED BY <1>2, <2>1, <2>3, <2>4 DEF MoveRefund, InCourse, LinkInv
<1>3. ASSUME NEW f \in Refunds, NEW u \in Users, ApproveRefund(f, u) PROVE TypeOK'
  <2>1. MoveRefund(f, "REQUESTED", "APPROVED") /\ UNCHANGED credit BY <1>3 DEF ApproveRefund
  <2> QED BY <1>2, <2>1 DEF TypeOK
<1>4. ASSUME NEW f \in Refunds, CancelRefund(f) PROVE TypeOK'
  <2> PICK c : c = refund[f].credit OBVIOUS
  <2>1. MoveRefund(f, "REQUESTED", "CANCELLED") BY <1>4 DEF CancelRefund
  <2>2. InCourse(f) /\ credit[c] # Absent BY <1>2, <2>1
  <2>3. /\ refund[f] \in RefundRow /\ credit[c] \in CreditRow
        /\ credit[c].reserved - refund[f].amount \in Nat
    BY <2>2, HeldBound
  <2>4. credit' = [credit EXCEPT ![c] =
                     [credit[c] EXCEPT !.reserved = credit[c].reserved - refund[f].amount]]
    BY <1>4 DEF CancelRefund
  <2>5. [credit[c] EXCEPT !.reserved = credit[c].reserved - refund[f].amount] \in CreditRow
    BY <2>3 DEF CreditRow
  <2>6. credit' \in [Invoices -> {Absent} \cup CreditRow] BY <2>4, <2>5 DEF TypeOK
  <2> QED BY <1>2, <2>1, <2>6 DEF TypeOK
<1>5. ASSUME NEW f \in Refunds, PostRefund(f) PROVE TypeOK'
  <2> PICK c : c = refund[f].credit OBVIOUS
  <2>1. MoveRefund(f, "APPROVED", "POSTED") BY <1>5 DEF PostRefund
  <2>2. InCourse(f) /\ credit[c] # Absent BY <1>2, <2>1
  <2>3. /\ refund[f] \in RefundRow /\ credit[c] \in CreditRow
        /\ credit[c].reserved - refund[f].amount \in Nat /\ c \in Invoices
    BY <2>2, HeldBound DEF RefundRow
  <2>4. credit' = [credit EXCEPT ![c] =
                     [credit[c] EXCEPT !.reserved = credit[c].reserved - refund[f].amount,
                                       !.posted = credit[c].posted + refund[f].amount]]
    BY <1>5, <2>2, PostWrites
  <2>5. [credit[c] EXCEPT !.reserved = credit[c].reserved - refund[f].amount,
                          !.posted = credit[c].posted + refund[f].amount] \in CreditRow
    <3>1. refund[f].amount \in Nat BY <2>3 DEF RefundRow
    <3>2. \A x, y \in Nat : [credit[c] EXCEPT !.reserved = x, !.posted = y] \in CreditRow
      BY <2>3 DEF CreditRow
    <3>3. credit[c].posted + refund[f].amount \in Nat BY <2>3, <3>1 DEF CreditRow
    <3> QED BY <2>3, <3>2, <3>3
  <2>6. credit' \in [Invoices -> {Absent} \cup CreditRow] BY <2>4, <2>5 DEF TypeOK
  <2> QED BY <1>2, <2>1, <2>6 DEF TypeOK
<1> QED BY <1>1, <1>3, <1>4, <1>5 DEF RefundsMove, RefundMoves

\* A draft asks for what is pending, which is an amount.
LEMMA DraftType ==
    ASSUME TypeOK, NEW m \in Remittances, NEW ds \in SUBSET DueDates, CreateDraft(m, ds)
    PROVE  TypeOK'
<1>1. \A d \in ds : Pending(d) \in Amounts
  <2> SUFFICES ASSUME NEW d \in ds PROVE Pending(d) \in Amounts OBVIOUS
  <2>1. Amount[d] \in Nat /\ collected[d] \in Nat /\ credited[d] \in Nat
    BY AmountsType DEF TypeOK
  <2>2. Pending(d) > 0 BY DEF CreateDraft
  <2>3. Pending(d) \in 1..Amount[d] BY <2>1, <2>2 DEF Pending
  <2> QED BY <2>3, AmountsType
<1> PICK r : r = [status |-> "DRAFT", lines |-> [d \in ds |-> Pending(d)], active |-> ds] OBVIOUS
<1>2. r \in RemittanceRow /\ r.active \subseteq DOMAIN r.lines BY <1>1 DEF RemittanceRow
<1> QED BY <1>2 DEF CreateDraft, TypeOK

\* Every step keeps the types.
LEMMA TypeStep ==
    ASSUME TypeOK, SumsInv, LinkInv, [Next]_vars
    PROVE  TypeOK'
<1>1. CASE UNCHANGED vars BY <1>1 DEF vars, TypeOK
<1>2. CASE CashMoves
  <2>1. ASSUME NEW m \in Remittances, NEW paid \in SUBSET remittance[m].active,
               BankAnswers(m, paid)
        PROVE  TypeOK'
    <3>1. PICK rejected \in SUBSET DueDates, status \in Collected \cup {"REJECTED"} :
             CollectLines(m, paid, rejected, status)
      BY <2>1, BankAnswer
    <3> QED BY <3>1, BankType
  <2> QED BY <1>2, <2>1, CollectType, ReturnType DEF CashMoves
<1>3. CASE RefundsMove BY <1>3, RefundsType
<1>4. ASSUME NEW q \in Requests, RequestsMove(q) PROVE TypeOK' BY <1>4, RequestsType
<1>5. ASSUME NEW i \in Invoices, InvoiceMoves(i) PROVE TypeOK' BY <1>5, InvoicesType
<1>6. ASSUME NEW m \in Remittances, NEW ds \in SUBSET DueDates, CreateDraft(m, ds) PROVE TypeOK'
  BY <1>6, DraftType
<1> QED BY <1>1, <1>2, <1>3, <1>4, <1>5, <1>6, NextIs
-----------------------------------------------------------------------------
(* The totals stay the sums of the rows.                                    *)

\* The same of the payments after a step.
LEMMA NetTypeNext ==
    ASSUME TypeOK', NEW d \in DueDates, NEW p \in Payments
    PROVE  /\ NetOf(d)'[p] \in Nat
           /\ NetOf(d)'[p] = IF payment'[p] # Absent /\ payment'[p].due = d
                             THEN payment'[p].net ELSE 0
<1>1. payment'[p] # Absent => payment'[p] \in PaymentRow BY DEF TypeOK
<1> QED BY <1>1 DEF NetOf, PaymentRow

\* The sum follows when one payment changes.
LEMMA NetChanges ==
    ASSUME TypeOK, TypeOK', NEW d \in DueDates, NEW p \in Payments,
           collected[d] = SumFunctionOnSet(NetOf(d), Payments),
           \A r \in Payments \ {p} : NetOf(d)'[r] = NetOf(d)[r],
           collected'[d] = collected[d] + NetOf(d)'[p] - NetOf(d)[p]
    PROVE  collected'[d] = SumFunctionOnSet(NetOf(d)', Payments)
<1> PICK f : f = NetOf(d) OBVIOUS
<1> PICK g : g = NetOf(d)' OBVIOUS
<1>1. \A r \in Payments : f[r] \in Int /\ g[r] \in Int BY NetType, NetTypeNext
<1>2. \A r \in Payments \ {p} : f[r] = g[r] OBVIOUS
<1>3. SumFunctionOnSet(g, Payments) = SumFunctionOnSet(f, Payments) + g[p] - f[p]
  BY <1>1, <1>2, RowsAssumption, SumChanges DEF RowsAssumption
<1> QED BY <1>3

\* The sum stays when no payment changes.
LEMMA NetSame ==
    ASSUME NEW d \in DueDates, collected[d] = SumFunctionOnSet(NetOf(d), Payments),
           \A r \in Payments : NetOf(d)'[r] = NetOf(d)[r], collected'[d] = collected[d]
    PROVE  collected'[d] = SumFunctionOnSet(NetOf(d)', Payments)
<1> PICK f : f = NetOf(d) OBVIOUS
<1> PICK g : g = NetOf(d)' OBVIOUS
<1>1. SumFunctionOnSet(f, Payments) = SumFunctionOnSet(g, Payments)
  BY RowsAssumption, SumAgrees DEF RowsAssumption
<1> QED BY <1>1

\* What a step writes of payments and their totals.
LEMMA CashWrites ==
    ASSUME [Next]_vars
    PROVE  CashMoves \/ UNCHANGED <<collected, payment>>
<1>1. ASSUME NEW q \in Requests, RequestsMove(q) PROVE UNCHANGED <<collected, payment>>
  BY <1>1, StatusStep DEF RequestsMove, ReadUnpaid, WriteUnpaid, ReadCredit, ApplyCredit,
     Serialization
<1>2. ASSUME NEW i \in Invoices, InvoiceMoves(i) PROVE UNCHANGED <<collected, payment>>
  BY <1>2 DEF InvoiceMoves, Rectify, Annul, Void, Release
<1>3. RefundsMove => UNCHANGED <<collected, payment>>
  BY DEF RefundsMove, RefundMoves, RequestRefund, ApproveRefund, CancelRefund, PostRefund,
     MoveRefund
<1> QED BY <1>1, <1>2, <1>3, NextIs DEF vars, CreateDraft

\* What is collected of a due date stays the sum of its payments, less the returns.
LEMMA CollectedStep ==
    ASSUME TypeOK, TypeOK', SumsInv, [Next]_vars, NEW d \in DueDates
    PROVE  collected'[d] = SumFunctionOnSet(NetOf(d)', Payments)
<1>0. collected[d] = SumFunctionOnSet(NetOf(d), Payments) /\ collected[d] \in Nat
  BY DEF SumsInv, TypeOK
<1>1. CASE UNCHANGED <<collected, payment>>
  BY <1>0, <1>1, NetSame DEF NetOf
<1>2. ASSUME NEW p \in Payments, NEW e \in DueDates, NEW x \in Amounts, RegisterPayment(p, e, x)
      PROVE  collected'[d] = SumFunctionOnSet(NetOf(d)', Payments)
  <2>1. x \in Nat BY AmountsType
  <2>2. payment[p] = Absent /\ payment' = [payment EXCEPT ![p] = Posted(e, x, "MANUAL")]
        /\ collected' = [collected EXCEPT ![e] = collected[e] + x]
    BY <1>2 DEF RegisterPayment, Collect
  <2>3. Posted(e, x, "MANUAL").due = e /\ Posted(e, x, "MANUAL").net = x
        /\ Posted(e, x, "MANUAL") # Absent
    BY DEF Posted, Absent
  <2>4. \A r \in Payments \ {p} : payment'[r] = payment[r] BY <2>2
  <2>5. \A r \in Payments \ {p} : NetOf(d)'[r] = NetOf(d)[r] BY <2>4, NetType, NetTypeNext
  <2>6. payment'[p] = Posted(e, x, "MANUAL") BY <2>2 DEF TypeOK
  <2>7. NetOf(d)[p] = 0 /\ NetOf(d)'[p] = IF e = d THEN x ELSE 0
    BY <2>2, <2>3, <2>6, NetType, NetTypeNext
  <2>8. collected'[d] = IF e = d THEN collected[d] + x ELSE collected[d]
    BY <2>2 DEF TypeOK
  <2>9. collected'[d] = collected[d] + NetOf(d)'[p] - NetOf(d)[p]
    BY <1>0, <2>1, <2>7, <2>8
  <2> QED BY <1>0, <2>5, <2>9, NetChanges
<1>3. ASSUME NEW p \in Payments, NEW x \in Amounts, RegisterReturn(p, x)
      PROVE  collected'[d] = SumFunctionOnSet(NetOf(d)', Payments)
  <2> PICK e : e = payment[p].due OBVIOUS
  <2>1. x \in Nat /\ payment[p] # Absent BY <1>3, AmountsType DEF RegisterReturn
  <2>2. payment[p] \in PaymentRow /\ payment[p].net - x \in Nat /\ collected[e] - x \in Nat
    BY <1>3, ReturnType
  <2>3. /\ payment' = [payment EXCEPT ![p].net = payment[p].net - x]
        /\ collected' = [collected EXCEPT ![e] = collected[e] - x]
    BY <1>3 DEF RegisterReturn, TakeBack
  <2>4. \A r \in Payments \ {p} : payment'[r] = payment[r] BY <2>3
  <2>5. \A r \in Payments \ {p} : NetOf(d)'[r] = NetOf(d)[r] BY <2>4, NetType, NetTypeNext
  <2>6. payment'[p] = [payment[p] EXCEPT !.net = payment[p].net - x] BY <2>3 DEF TypeOK
  <2>7. /\ payment'[p] # Absent /\ payment'[p].due = e /\ payment'[p].net = payment[p].net - x
        /\ payment[p].net \in Nat
    BY <2>2, <2>6 DEF PaymentRow, Absent
  <2>8. /\ NetOf(d)[p] = IF e = d THEN payment[p].net ELSE 0
        /\ NetOf(d)'[p] = IF e = d THEN payment[p].net - x ELSE 0
    BY <2>1, <2>7, NetType, NetTypeNext
  <2>9. collected'[d] = IF e = d THEN collected[d] - x ELSE collected[d]
    BY <2>3 DEF TypeOK
  <2>10. collected'[d] = collected[d] + NetOf(d)'[p] - NetOf(d)[p]
    BY <1>0, <2>1, <2>7, <2>8, <2>9
  <2> QED BY <1>0, <2>5, <2>10, NetChanges
<1>4. ASSUME NEW m \in Remittances, NEW paid \in SUBSET remittance[m].active, BankAnswers(m, paid)
      PROVE  collected'[d] = SumFunctionOnSet(NetOf(d)', Payments)
  <2>1. PICK rejected \in SUBSET DueDates, status \in Collected \cup {"REJECTED"} :
           CollectLines(m, paid, rejected, status)
    BY <1>4, BankAnswer
  <2>2. \A e \in paid : e \in DueDates /\ remittance[m].lines[e] \in Nat BY LinesType
  <2>3. paid \in SUBSET DueDates BY <2>2
  <2> PICK row \in [paid -> Payments] : PostedRows(row, m, paid) BY <2>1, <2>3, LinesPosted
  <2>4. /\ \A e \in paid :
             /\ payment[row[e]] = Absent
             /\ payment'[row[e]] = Posted(e, remittance[m].lines[e], "SEPA_REMITTANCE")
        /\ \A e, g \in paid : row[e] = row[g] => e = g
        /\ \A p \in Payments : (\A e \in paid : row[e] # p) => payment'[p] = payment[p]
    BY DEF PostedRows
  <2>5. \A e, x, source : /\ Posted(e, x, source).due = e /\ Posted(e, x, source).net = x
                          /\ Posted(e, x, source) # Absent
    BY DEF Posted, Absent
  <2>6. ASSUME NEW r \in Payments, d \in paid => row[d] # r
        PROVE  NetOf(d)'[r] = NetOf(d)[r]
    <3>1. CASE \A e \in paid : row[e] # r
      <4>1. payment'[r] = payment[r] BY <2>4, <3>1
      <4> QED BY <4>1, NetType, NetTypeNext
    <3>2. ASSUME NEW e \in paid, row[e] = r PROVE NetOf(d)'[r] = NetOf(d)[r]
      <4>1. e # d BY <2>6, <3>2
      <4>2. NetOf(d)[r] = 0 BY <2>4, <3>2, NetType
      <4>3. payment'[r] = Posted(e, remittance[m].lines[e], "SEPA_REMITTANCE") BY <2>4, <3>2
      <4>4. NetOf(d)'[r] = 0 BY <2>5, <4>1, <4>3, NetTypeNext
      <4> QED BY <4>2, <4>4
    <3> QED BY <3>1, <3>2
  <2>7. collected'[d] = IF d \in paid THEN collected[d] + remittance[m].lines[d] ELSE collected[d]
    BY <2>1 DEF CollectLines
  <2>8. CASE d \notin paid
    <3>1. \A r \in Payments : NetOf(d)'[r] = NetOf(d)[r] BY <2>6, <2>8
    <3> QED BY <1>0, <2>7, <2>8, <3>1, NetSame
  <2>9. CASE d \in paid
    <3> PICK p : p = row[d] OBVIOUS
    <3>1. p \in Payments BY <2>9
    <3>2. \A r \in Payments \ {p} : NetOf(d)'[r] = NetOf(d)[r] BY <2>6
    <3>3. NetOf(d)[p] = 0 BY <2>4, <2>9, <3>1, NetType
    <3>4. payment'[p] = Posted(d, remittance[m].lines[d], "SEPA_REMITTANCE") BY <2>4, <2>9
    <3>5. NetOf(d)'[p] = remittance[m].lines[d] BY <2>5, <3>1, <3>4, NetTypeNext
    <3>6. collected'[d] = collected[d] + NetOf(d)'[p] - NetOf(d)[p]
      BY <1>0, <2>2, <2>7, <2>9, <3>3, <3>5
    <3> QED BY <1>0, <3>1, <3>2, <3>6, NetChanges
  <2> QED BY <2>8, <2>9
<1> QED BY <1>1, <1>2, <1>3, <1>4, CashWrites DEF CashMoves

\* The same of the refunds after a step.
LEMMA HeldTypeNext ==
    ASSUME TypeOK', NEW c \in Invoices, NEW f \in Refunds
    PROVE  /\ HeldOf(c)'[f] \in Nat
           /\ HeldOf(c)'[f] = IF InCourse(f)' /\ refund'[f].credit = c
                              THEN refund'[f].amount ELSE 0
<1>1. refund'[f] # Absent => refund'[f] \in RefundRow BY DEF TypeOK
<1> QED BY <1>1 DEF HeldOf, RefundRow, InCourse

\* The reserved amount follows when one refund changes.
LEMMA HeldChanges ==
    ASSUME TypeOK, TypeOK', NEW c \in Invoices, NEW f \in Refunds,
           credit[c].reserved = SumFunctionOnSet(HeldOf(c), Refunds),
           \A r \in Refunds \ {f} : refund'[r] = refund[r],
           credit'[c].reserved = credit[c].reserved + HeldOf(c)'[f] - HeldOf(c)[f]
    PROVE  credit'[c].reserved = SumFunctionOnSet(HeldOf(c)', Refunds)
<1>1. \A r \in Refunds : HeldOf(c)[r] \in Int /\ HeldOf(c)'[r] \in Int
  BY HeldType, HeldTypeNext
<1>2. \A r \in Refunds \ {f} : HeldOf(c)'[r] = HeldOf(c)[r] BY DEF HeldOf, InCourse
<1> PICK g : g = HeldOf(c) OBVIOUS
<1> PICK h : h = HeldOf(c)' OBVIOUS
<1>3. SumFunctionOnSet(h, Refunds) = SumFunctionOnSet(g, Refunds) + h[f] - g[f]
  BY <1>1, <1>2, RowsAssumption, SumChanges DEF RowsAssumption
<1> QED BY <1>3

\* What a step writes of refunds, and of what they hold of the credits.
LEMMA RefundWrites ==
    ASSUME TypeOK, [Next]_vars
    PROVE  \/ RefundsMove
           \/ /\ UNCHANGED refund
              /\ \A c \in Invoices : credit[c] # Absent =>
                   \/ invoice[c].status = "ISSUED"
                   \/ credit'[c] # Absent /\ credit'[c].reserved = credit[c].reserved
                                          /\ credit'[c].posted = credit[c].posted
              /\ \A c \in Invoices : credit[c] = Absent /\ credit'[c] # Absent =>
                   credit'[c].reserved = 0
<1>1. CASE UNCHANGED <<credit, refund>> BY <1>1
<1>2. ASSUME NEW q \in Requests, RequestsMove(q), ~ ApplyCredit(q)
      PROVE  UNCHANGED <<credit, refund>>
  BY <1>2, StatusStep DEF RequestsMove, ReadUnpaid, WriteUnpaid, ReadCredit, Serialization
<1>3. CashMoves => UNCHANGED <<credit, refund>>
  <2>1. ASSUME NEW m \in Remittances, NEW paid \in SUBSET remittance[m].active,
               BankAnswers(m, paid)
        PROVE  UNCHANGED <<credit, refund>>
    BY <2>1, BankAnswer DEF CollectLines
  <2> QED BY <2>1 DEF CashMoves, RegisterPayment, Collect, RegisterReturn, TakeBack
<1>4. ASSUME NEW q \in Requests, ApplyCredit(q)
      PROVE  /\ UNCHANGED refund
             /\ \A c \in Invoices :
                  /\ credit[c] # Absent =>
                       credit'[c] # Absent /\ credit'[c].reserved = credit[c].reserved
                                           /\ credit'[c].posted = credit[c].posted
                  /\ credit[c] = Absent => credit'[c] = Absent
  <2> PICK e : e = request[q].credit OBVIOUS
  <2> PICK x : x = request[q].amount OBVIOUS
  <2>1. credit' = [credit EXCEPT ![e] = [credit[e] EXCEPT !.applied = credit[e].applied + x]]
    BY <1>4 DEF ApplyCredit
  <2>2. e \in Invoices BY <1>4, RowsType DEF ApplyCredit, Application
  <2>3. \A c \in Invoices : c # e => credit'[c] = credit[c] BY <2>1
  <2>4. credit'[e] = [credit[e] EXCEPT !.applied = credit[e].applied + x]
    BY <2>1, <2>2 DEF TypeOK
  <2>5. credit[e] # Absent => credit'[e] # Absent /\ credit'[e].reserved = credit[e].reserved
                              /\ credit'[e].posted = credit[e].posted
    BY <2>2, <2>4, RowsType DEF CreditRow, Absent
  <2>6. credit[e] = Absent => credit'[e] = Absent BY <2>4 DEF Absent
  <2>7. UNCHANGED refund BY <1>4 DEF ApplyCredit
  <2> QED BY <2>3, <2>5, <2>6, <2>7
<1>5. ASSUME NEW i \in Invoices, NEW held \in BOOLEAN, Rectify(i, held)
      PROVE  /\ UNCHANGED refund /\ invoice[i].status = "ISSUED"
             /\ \A c \in Invoices : c # i => credit'[c] = credit[c]
             /\ credit'[i] # Absent => credit'[i].reserved = 0
  BY <1>5 DEF Rectify, TypeOK
<1>6. ASSUME NEW i \in Invoices, Release(i)
      PROVE  /\ UNCHANGED refund /\ credit[i] # Absent
             /\ \A c \in Invoices : c # i => credit'[c] = credit[c]
             /\ credit'[i] # Absent /\ credit'[i].reserved = credit[i].reserved
                                    /\ credit'[i].posted = credit[i].posted
  <2>1. credit[i] \in CreditRow BY <1>6, RowsType DEF Release
  <2>2. credit'[i] = [credit[i] EXCEPT !.held = FALSE] BY <1>6 DEF Release, TypeOK
  <2> QED BY <1>6, <2>1, <2>2 DEF Release, CreditRow, Absent
<1>7. ASSUME NEW i \in Invoices, InvoiceMoves(i), ~ Release(i),
             ~ \E held \in BOOLEAN : Rectify(i, held)
      PROVE  UNCHANGED <<credit, refund>>
  BY <1>7 DEF InvoiceMoves, Annul, Void
<1>8. ASSUME NEW q \in Requests, RequestsMove(q)
      PROVE  \/ UNCHANGED <<credit, refund>>
             \/ /\ UNCHANGED refund
                /\ \A c \in Invoices :
                     /\ credit[c] # Absent =>
                          credit'[c] # Absent /\ credit'[c].reserved = credit[c].reserved
                                              /\ credit'[c].posted = credit[c].posted
                     /\ credit[c] = Absent => credit'[c] = Absent
  BY <1>2, <1>4, <1>8
<1>9. ASSUME NEW i \in Invoices, InvoiceMoves(i)
      PROVE  /\ UNCHANGED refund
             /\ \A c \in Invoices : credit[c] # Absent =>
                   \/ invoice[c].status = "ISSUED"
                   \/ credit'[c] # Absent /\ credit'[c].reserved = credit[c].reserved
                                          /\ credit'[c].posted = credit[c].posted
             /\ \A c \in Invoices : credit[c] = Absent /\ credit'[c] # Absent =>
                   credit'[c].reserved = 0
  BY <1>5, <1>6, <1>7, <1>9 DEF InvoiceMoves
<1>10. (\E m \in Remittances, ds \in SUBSET DueDates \ {{}} : CreateDraft(m, ds))
         => UNCHANGED <<credit, refund>>
  BY DEF CreateDraft
<1> QED BY <1>1, <1>3, <1>8, <1>9, <1>10, NextIs DEF vars

\* A refund that moves: what it writes of itself and of its credit.
LEMMA RefundStep ==
    ASSUME TypeOK, SumsInv, LinkInv, NEW f \in Refunds, RefundMoves(f)
    PROVE  /\ InCourse(f) /\ refund[f].credit \in Invoices /\ refund[f].amount \in Nat
           /\ \A g \in Refunds \ {f} : refund'[g] = refund[g]
           /\ refund'[f] # Absent /\ refund'[f].credit = refund[f].credit
           /\ refund'[f].amount = refund[f].amount
           /\ \A k \in Invoices \ {refund[f].credit} : credit'[k] = credit[k]
           /\ credit[refund[f].credit] # Absent /\ credit'[refund[f].credit] # Absent
           /\ \/ /\ refund'[f].status = "APPROVED"
                 /\ credit'[refund[f].credit] = credit[refund[f].credit]
              \/ /\ refund'[f].status \in {"CANCELLED", "POSTED"}
                 /\ credit'[refund[f].credit].reserved =
                      credit[refund[f].credit].reserved - refund[f].amount
                 /\ credit'[refund[f].credit].applied = credit[refund[f].credit].applied
                 /\ credit'[refund[f].credit].posted \in
                      {credit[refund[f].credit].posted,
                       credit[refund[f].credit].posted + refund[f].amount}
           /\ request' = Superseded({refund[f].credit})
           /\ UNCHANGED <<invoice, due, collected, credited, payment, remittance>>
<1> PICK e : e = refund[f].credit OBVIOUS
<1> PICK a : a = refund[f].amount OBVIOUS
<1>1. PICK from \in {"REQUESTED", "APPROVED"}, to \in {"APPROVED", "CANCELLED", "POSTED"} :
         /\ MoveRefund(f, from, to)
         /\ \/ to = "APPROVED" /\ UNCHANGED credit
            \/ to = "CANCELLED" /\ CancelRefund(f)
            \/ to = "POSTED" /\ PostRefund(f)
  BY DEF RefundMoves, ApproveRefund, CancelRefund, PostRefund
<1>2. refund[f] # Absent BY <1>1 DEF MoveRefund, Absent
<1>3. refund[f] \in RefundRow BY <1>2, RowsType
<1>4. InCourse(f) BY <1>1, <1>2 DEF MoveRefund, InCourse
<1>5. e \in Invoices /\ a \in Nat BY <1>3 DEF RefundRow
<1>6. credit[e] # Absent BY <1>2 DEF LinkInv
<1>7. credit[e] \in CreditRow BY <1>5, <1>6, RowsType
<1>8. refund' = [refund EXCEPT ![f] = [refund[f] EXCEPT !.status = to]]
  BY <1>1 DEF MoveRefund
<1>9. refund'[f] = [refund[f] EXCEPT !.status = to] BY <1>8 DEF TypeOK
<1>10. /\ refund'[f] # Absent /\ refund'[f].credit = e /\ refund'[f].amount = a
       /\ refund'[f].status = to
  BY <1>3, <1>9 DEF RefundRow, Absent
<1>11. \A g \in Refunds \ {f} : refund'[g] = refund[g] BY <1>8 DEF TypeOK
<1>12. /\ request' = Superseded({e})
       /\ UNCHANGED <<invoice, due, collected, credited, payment, remittance>>
  BY <1>1 DEF MoveRefund
<1>13. CASE to = "APPROVED" /\ UNCHANGED credit
  BY <1>4, <1>5, <1>6, <1>10, <1>11, <1>12, <1>13
<1>14. CASE to = "CANCELLED" /\ CancelRefund(f)
  <2>1. credit' = [credit EXCEPT ![e] = [credit[e] EXCEPT !.reserved = credit[e].reserved - a]]
    BY <1>14 DEF CancelRefund
  <2>2. \A k \in Invoices \ {e} : credit'[k] = credit[k] BY <2>1 DEF TypeOK
  <2>3. credit'[e] = [credit[e] EXCEPT !.reserved = credit[e].reserved - a]
    BY <1>5, <2>1 DEF TypeOK
  <2>4. /\ credit'[e] # Absent /\ credit'[e].reserved = credit[e].reserved - a
        /\ credit'[e].applied = credit[e].applied /\ credit'[e].posted = credit[e].posted
    BY <1>7, <2>3 DEF CreditRow, Absent
  <2> QED BY <1>4, <1>5, <1>6, <1>10, <1>11, <1>12, <1>14, <2>2, <2>4
<1>15. CASE to = "POSTED" /\ PostRefund(f)
  <2>1. credit' = [credit EXCEPT ![e] = [credit[e] EXCEPT !.reserved = credit[e].reserved - a,
                                                         !.posted = credit[e].posted + a]]
    BY <1>4, <1>6, <1>15, PostWrites
  <2>2. \A k \in Invoices \ {e} : credit'[k] = credit[k] BY <2>1 DEF TypeOK
  <2>3. credit'[e] = [credit[e] EXCEPT !.reserved = credit[e].reserved - a,
                                       !.posted = credit[e].posted + a]
    BY <1>5, <2>1 DEF TypeOK
  <2>4. /\ credit'[e] # Absent /\ credit'[e].reserved = credit[e].reserved - a
        /\ credit'[e].applied = credit[e].applied /\ credit'[e].posted = credit[e].posted + a
    BY <1>7, <2>3 DEF CreditRow, Absent
  <2> QED BY <1>4, <1>5, <1>6, <1>10, <1>11, <1>12, <1>15, <2>2, <2>4
<1> QED BY <1>1, <1>13, <1>14, <1>15

\* What is reserved of a credit stays the sum of its refunds in course.
LEMMA ReservedStep ==
    ASSUME TypeOK, TypeOK', SumsInv, LinkInv, [Next]_vars, NEW c \in Invoices, credit'[c] # Absent
    PROVE  credit'[c].reserved = SumFunctionOnSet(HeldOf(c)', Refunds)
<1>1. CASE UNCHANGED refund /\ ~ RefundsMove
  <2>1. HeldOf(c)' = HeldOf(c) BY <1>1 DEF HeldOf, InCourse
  <2> PICK h : h = HeldOf(c) OBVIOUS
  <2>2. CASE credit[c] # Absent
    <3>1. credit[c].reserved = SumFunctionOnSet(h, Refunds) BY <2>2 DEF SumsInv
    <3>2. credit'[c].reserved = credit[c].reserved BY <1>1, <2>2, RefundWrites DEF LinkInv
    <3> QED BY <2>1, <3>1, <3>2
  <2>3. CASE credit[c] = Absent
    <3>1. \A f \in Refunds : h[f] = 0 BY <2>3, HeldType DEF LinkInv, InCourse
    <3>2. SumFunctionOnSet(h, Refunds) = 0 BY <3>1, RowsAssumption, SumOfZeros DEF RowsAssumption
    <3>3. credit'[c].reserved = 0 BY <1>1, <2>3, RefundWrites
    <3> QED BY <2>1, <3>2, <3>3
  <2> QED BY <2>2, <2>3
<1>2. ASSUME NEW f \in Refunds, NEW e \in Invoices, NEW x \in Amounts, NEW u \in Users,
             RequestRefund(f, e, x, u)
      PROVE  credit'[c].reserved = SumFunctionOnSet(HeldOf(c)', Refunds)
  <2> PICK r : r = [status |-> "REQUESTED", credit |-> e, amount |-> x, by |-> u] OBVIOUS
  <2>1. /\ refund[f] = Absent /\ refund' = [refund EXCEPT ![f] = r]
        /\ credit[e] # Absent
        /\ credit' = [credit EXCEPT ![e] = [credit[e] EXCEPT !.reserved = credit[e].reserved + x]]
    BY <1>2 DEF RequestRefund, Usable
  <2>2. refund'[f] = r /\ \A g \in Refunds \ {f} : refund'[g] = refund[g] BY <2>1 DEF TypeOK
  <2>3. r # Absent /\ r.status = "REQUESTED" /\ r.credit = e /\ r.amount = x BY DEF Absent
  <2>4. InCourse(f)' BY <2>2, <2>3 DEF InCourse
  <2>5. HeldOf(c)[f] = 0 BY <2>1, HeldType DEF InCourse
  <2>6. HeldOf(c)'[f] = IF e = c THEN x ELSE 0 BY <2>2, <2>3, <2>4, HeldTypeNext
  <2>7. credit[c] # Absent BY <2>1 DEF TypeOK
  <2>8. credit[c] \in CreditRow BY <2>7, RowsType
  <2>9. credit'[c] = IF e = c THEN [credit[c] EXCEPT !.reserved = credit[c].reserved + x]
                     ELSE credit[c]
    BY <2>1 DEF TypeOK
  <2>10. credit'[c].reserved = IF e = c THEN credit[c].reserved + x ELSE credit[c].reserved
    BY <2>8, <2>9 DEF CreditRow
  <2>11. x \in Nat /\ credit[c].reserved \in Nat BY <2>8, AmountsType DEF CreditRow
  <2>12. credit'[c].reserved = credit[c].reserved + HeldOf(c)'[f] - HeldOf(c)[f]
    BY <2>5, <2>6, <2>10, <2>11
  <2>13. credit[c].reserved = SumFunctionOnSet(HeldOf(c), Refunds) BY <2>7 DEF SumsInv
  <2> QED BY <2>2, <2>12, <2>13, HeldChanges
<1>3. ASSUME NEW f \in Refunds, RefundMoves(f)
      PROVE  credit'[c].reserved = SumFunctionOnSet(HeldOf(c)', Refunds)
  <2> PICK e : e = refund[f].credit OBVIOUS
  <2> PICK a : a = refund[f].amount OBVIOUS
  <2>1. /\ InCourse(f) /\ e \in Invoices /\ a \in Nat
        /\ \A g \in Refunds \ {f} : refund'[g] = refund[g]
        /\ refund'[f] # Absent /\ refund'[f].credit = e /\ refund'[f].amount = a
        /\ \A k \in Invoices \ {e} : credit'[k] = credit[k]
        /\ credit[e] # Absent
        /\ \/ refund'[f].status = "APPROVED" /\ credit'[e] = credit[e]
           \/ /\ refund'[f].status \in {"CANCELLED", "POSTED"}
              /\ credit'[e].reserved = credit[e].reserved - a
    BY <1>3, RefundStep
  <2>2. HeldOf(c)[f] = IF e = c THEN a ELSE 0 BY <2>1, HeldType
  <2>3. HeldOf(c)'[f] = IF refund'[f].status = "APPROVED" /\ e = c THEN a ELSE 0
    BY <2>1, HeldTypeNext DEF InCourse
  <2>4. credit[c] # Absent BY <2>1
  <2>5. credit[c] \in CreditRow BY <2>4, RowsType
  <2>6. credit[c].reserved \in Nat BY <2>5 DEF CreditRow
  <2>7. credit'[c].reserved = credit[c].reserved + HeldOf(c)'[f] - HeldOf(c)[f]
    BY <2>1, <2>2, <2>3, <2>6
  <2>8. credit[c].reserved = SumFunctionOnSet(HeldOf(c), Refunds) BY <2>4 DEF SumsInv
  <2> QED BY <2>1, <2>7, <2>8, HeldChanges
<1> QED BY <1>1, <1>2, <1>3, RefundWrites DEF RefundsMove

\* Both totals stay the sums of their rows.
LEMMA SumsStep ==
    ASSUME TypeOK, TypeOK', SumsInv, LinkInv, [Next]_vars
    PROVE  SumsInv'
BY CollectedStep, ReservedStep DEF SumsInv
-----------------------------------------------------------------------------
(* What steps write of the money and of the statuses.                       *)

\* What is collected grows up to the amount, or is taken back.
Collects(d) ==
    /\ collected'[d] > collected[d] /\ collected'[d] <= Amount[d]
    /\ due[d] = "PENDING"
    /\ \/ /\ due'[d] = PaidStatus(collected'[d], credited[d], Amount[d])
          /\ collected'[d] + credited[d] <= Amount[d]
       \/ due'[d] = PaidStatus(collected'[d], 0, Amount[d])
TakesBack(d) ==
    /\ collected'[d] < collected[d]
    /\ due'[d] = DueStatus(collected'[d], credited[d], Amount[d])

\* The due dates ds, and their invoices, are all a cash movement writes.
CashOf(ds) ==
    /\ request' = Superseded({InvoiceOf[d] : d \in ds})
    /\ UNCHANGED <<credited, credit, refund>>
    /\ \A d \in DueDates \ ds : collected'[d] = collected[d] /\ due'[d] = due[d]
    /\ \A i \in Invoices : invoice'[i].status = invoice[i].status
    /\ \A m \in Remittances : remittance'[m].active \subseteq remittance[m].active
    /\ \A d \in ds : invoice[InvoiceOf[d]].status = "ISSUED" /\ (Collects(d) \/ TakesBack(d))

\* Payments, returns and collected remittances write what CashOf says.
LEMMA CashStep ==
    ASSUME TypeOK, SumsInv, CashMoves
    PROVE  \E ds \in SUBSET DueDates : CashOf(ds)
<1>1. ASSUME NEW p \in Payments, NEW d \in DueDates, NEW x \in Amounts, RegisterPayment(p, d, x)
      PROVE  CashOf({d})
  <2>1. x \in Nat \ {0} /\ Collectable(d) /\ x <= Pending(d) /\ Collect(p, d, x)
    BY <1>1, AmountsType DEF RegisterPayment
  <2>2. collected[d] \in Nat /\ credited[d] \in Nat /\ Amount[d] \in Nat
    BY AmountsType DEF TypeOK
  <2>3. collected'[d] = collected[d] + x
        /\ due'[d] = PaidStatus(collected[d] + x, credited[d], Amount[d])
    BY <2>1 DEF Collect, TypeOK
  <2>4. Collects(d) BY <2>1, <2>2, <2>3 DEF Collects, Pending, Collectable
  <2>5. \A e \in DueDates \ {d} : collected'[e] = collected[e] /\ due'[e] = due[e]
    BY <2>1 DEF Collect, TypeOK
  <2>6. \A i \in Invoices : invoice'[i].status = invoice[i].status
    BY <2>1, RefreshedIs DEF Collect
  <2>7. {InvoiceOf[e] : e \in {d}} = {InvoiceOf[d]} OBVIOUS
  <2> QED BY <2>1, <2>4, <2>5, <2>6, <2>7 DEF CashOf, Collect, Collectable
<1>2. ASSUME NEW p \in Payments, NEW x \in Amounts, RegisterReturn(p, x)
      PROVE  \E ds \in SUBSET DueDates : CashOf(ds)
  <2> PICK d : d = payment[p].due OBVIOUS
  <2>1. /\ x \in Nat \ {0} /\ TakeBack(p, x) /\ payment[p] \in PaymentRow
        /\ invoice[InvoiceOf[d]].status = "ISSUED"
    BY <1>2, ReturnType, AmountsType DEF RegisterReturn
  <2>2. d \in DueDates BY <2>1 DEF PaymentRow
  <2>3. collected[d] \in Nat BY <2>2 DEF TypeOK
  <2>4. /\ collected' = [collected EXCEPT ![d] = collected[d] - x]
        /\ due' = [due EXCEPT ![d] = DueStatus(collected[d] - x, credited[d], Amount[d])]
        /\ invoice' = Refreshed({InvoiceOf[d]}) /\ request' = Superseded({InvoiceOf[d]})
        /\ remittance' = MarkReturned(p)
        /\ UNCHANGED <<credited, credit, refund>>
    BY <2>1 DEF TakeBack
  <2>5. TakesBack(d) BY <2>1, <2>2, <2>3, <2>4 DEF TakesBack, TypeOK
  <2>6. \A e \in DueDates \ {d} : collected'[e] = collected[e] /\ due'[e] = due[e]
    BY <2>4 DEF TypeOK
  <2>7. \A i \in Invoices : invoice'[i].status = invoice[i].status
    BY <2>4, RefreshedIs
  <2>8. \A m \in Remittances : remittance'[m].active = remittance[m].active
    <3>1. \A m \in Remittances :
            [remittance[m] EXCEPT !.status = "PARTIALLY_RETURNED"].active = remittance[m].active
      BY DEF TypeOK, RemittanceRow
    <3> QED BY <2>4, <3>1 DEF MarkReturned
  <2>9. {InvoiceOf[e] : e \in {d}} = {InvoiceOf[d]} OBVIOUS
  <2>10. CashOf({d}) BY <2>1, <2>4, <2>5, <2>6, <2>7, <2>8, <2>9 DEF CashOf
  <2> QED BY <2>2, <2>10
<1>3. ASSUME NEW m \in Remittances, NEW paid \in SUBSET remittance[m].active, BankAnswers(m, paid)
      PROVE  \E ds \in SUBSET DueDates : CashOf(ds)
  <2>1. PICK rejected \in SUBSET DueDates, status \in Collected \cup {"REJECTED"} :
           CollectLines(m, paid, rejected, status)
    BY <1>3, BankAnswer
  <2>2. \A d \in paid : d \in DueDates /\ remittance[m].lines[d] \in Nat \ {0} BY LinesType
  <2>3. ASSUME NEW d \in paid
        PROVE  invoice[InvoiceOf[d]].status = "ISSUED" /\ Collects(d)
    <3>1. Collectable(d) /\ Covered(m, d) BY <2>1 DEF CollectLines
    <3>2. collected[d] \in Nat /\ Amount[d] \in Nat BY <2>2, AmountsType DEF TypeOK
    <3>3. collected'[d] = collected[d] + remittance[m].lines[d]
          /\ due'[d] = PaidStatus(collected'[d], 0, Amount[d])
      BY <2>1, <2>2 DEF CollectLines
    <3> QED BY <2>2, <3>1, <3>2, <3>3 DEF Collects, Covered, Collectable
  <2>4. \A d \in DueDates \ paid : collected'[d] = collected[d] /\ due'[d] = due[d]
    BY <2>1 DEF CollectLines
  <2>5. \A i \in Invoices : invoice'[i].status = invoice[i].status
    BY <2>1 DEF CollectLines, TypeOK, InvoiceRow
  <2>6. \A n \in Remittances : remittance'[n].active \subseteq remittance[n].active
    <3>1. remittance' = [remittance EXCEPT ![m] =
            [remittance[m] EXCEPT !.status = status, !.active = remittance[m].active \ rejected]]
      BY <2>1 DEF CollectLines
    <3>2. [remittance[m] EXCEPT !.status = status, !.active = remittance[m].active \ rejected].active
            = remittance[m].active \ rejected
      BY DEF TypeOK, RemittanceRow
    <3> QED BY <3>1, <3>2 DEF TypeOK
  <2>7. CashOf(paid) BY <2>1, <2>3, <2>4, <2>5, <2>6 DEF CashOf, CollectLines
  <2> QED BY <2>2, <2>7
<1> QED BY <1>1, <1>2, <1>3 DEF CashMoves

\* A compensation that goes through, as its snapshot saw the rows.
Compensates(q, c, d, x) ==
    /\ credit[c] \in CreditRow /\ x <= Available(c)
    /\ Collectable(d) /\ x <= Pending(d)
    /\ credit' = [credit EXCEPT ![c] = [credit[c] EXCEPT !.applied = credit[c].applied + x]]
    /\ credited' = [credited EXCEPT ![d] = credited[d] + x]
    /\ \A e \in DueDates : due'[e] =
         IF InvoiceOf[e] = InvoiceOf[d] /\ collected[e] + credited'[e] = Amount[e]
         THEN PaidStatus(collected[e], credited'[e], Amount[e]) ELSE due[e]
    /\ \A i \in Invoices : invoice'[i].status = invoice[i].status
    /\ request' = [Superseded({InvoiceOf[d], c}) EXCEPT ![q] = Idle]
    /\ UNCHANGED <<collected, payment, remittance, refund>>

\* A compensation that is fresh passes now the checks it made on its snapshot.
LEMMA ApplyStep ==
    ASSUME TypeOK, FreshInv, NEW q \in Requests, ApplyCredit(q)
    PROVE  \E c \in Invoices, d \in DueDates, x \in Nat \ {0} : Compensates(q, c, d, x)
<1> PICK c : c = request[q].credit OBVIOUS
<1> PICK d : d = request[q].due OBVIOUS
<1> PICK x : x = request[q].amount OBVIOUS
<1>1. request[q].op = "apply" /\ request[q].fresh BY DEF ApplyCredit
<1>2. c \in Invoices /\ d \in DueDates /\ x \in Nat \ {0}
  BY <1>1, RowsType DEF Application
<1>3. /\ credit[c] # Absent /\ x <= Available(c) /\ Collectable(d) /\ x <= Pending(d)
  BY <1>1 DEF FreshInv, Fresh
<1>4. credit[c] \in CreditRow BY <1>2, <1>3, RowsType
<1>5. \A i \in Invoices : invoice'[i].status = invoice[i].status
  BY RefreshedIs DEF ApplyCredit
<1>6. /\ credit' = [credit EXCEPT ![c] = [credit[c] EXCEPT !.applied = credit[c].applied + x]]
      /\ credited' = [credited EXCEPT ![d] = credited[d] + x]
      /\ \A e \in DueDates : due'[e] =
           IF InvoiceOf[e] = InvoiceOf[d] /\ collected[e] + credited'[e] = Amount[e]
           THEN PaidStatus(collected[e], credited'[e], Amount[e]) ELSE due[e]
      /\ request' = [Superseded({InvoiceOf[d], c}) EXCEPT ![q] = Idle]
      /\ UNCHANGED <<collected, payment, remittance, refund>>
  BY DEF ApplyCredit
<1>7. Compensates(q, c, d, x) BY <1>3, <1>4, <1>5, <1>6 DEF Compensates
<1> QED BY <1>2, <1>7

\* An issued invoice stays so until it is rectified or voided; the others stay.
Withdraws(i) == (\E held \in BOOLEAN : Rectify(i, held)) \/ Void(i)

\* What rectifying or voiding an invoice writes.
LEMMA WithdrawStep ==
    ASSUME TypeOK, NEW i \in Invoices, Withdraws(i)
    PROVE  /\ invoice[i].status = "ISSUED"
           /\ invoice'[i].status \in {"RECTIFIED", "VOIDED"}
           /\ (\E held \in BOOLEAN : Rectify(i, held)) => invoice'[i].status = "RECTIFIED"
           /\ \A j \in Invoices \ {i} : invoice'[j] = invoice[j] /\ credit'[j] = credit[j]
           /\ \A d \in DueDates : \/ due'[d] = due[d]
                                  \/ due'[d] = "CANCELLED" /\ InvoiceOf[d] = i
           /\ request' = Superseded({i})
           /\ UNCHANGED <<collected, credited, payment, remittance, refund>>
<1>1. ASSUME NEW held \in BOOLEAN, Rectify(i, held)
      PROVE  invoice'[i].status = "RECTIFIED"
  <2>1. invoice' = [invoice EXCEPT ![i] = [invoice[i] EXCEPT !.status = "RECTIFIED",
                        !.pay = IF CleanUnpaid(i) THEN "CANCELLED" ELSE "PAID"]]
    BY <1>1 DEF Rectify
  <2>2. \A pay : [invoice[i] EXCEPT !.status = "RECTIFIED", !.pay = pay].status = "RECTIFIED"
    BY DEF TypeOK, InvoiceRow
  <2> QED BY <2>1, <2>2 DEF TypeOK
<1>2. ASSUME Void(i)
      PROVE  invoice'[i].status = "VOIDED"
  BY <1>2 DEF Void, TypeOK, InvoiceRow
<1>3. \A j \in Invoices \ {i} : invoice'[j] = invoice[j] /\ credit'[j] = credit[j]
  BY DEF Withdraws, Rectify, Void, TypeOK
<1>4. \A d \in DueDates : due'[d] = due[d] \/ (due'[d] = "CANCELLED" /\ InvoiceOf[d] = i)
  BY DEF Withdraws, Rectify, Void, TypeOK
<1>5. /\ invoice[i].status = "ISSUED" /\ request' = Superseded({i})
      /\ UNCHANGED <<collected, credited, payment, remittance, refund>>
  BY DEF Withdraws, Rectify, Void
<1> QED BY <1>1, <1>2, <1>3, <1>4, <1>5 DEF Withdraws

\* What a step is, by what it may write.
Kept == UNCHANGED <<invoice, due, collected, credited, credit, refund>>

\* Every step is one of these.
LEMMA StepIs ==
    ASSUME TypeOK, SumsInv, LinkInv, [Next]_vars
    PROVE  \/ \E ds \in SUBSET DueDates : CashOf(ds)
           \/ \E f \in Refunds, c \in Invoices, x \in Amounts, u \in Users :
                RequestRefund(f, c, x, u)
           \/ \E f \in Refunds : RefundMoves(f)
           \/ \E q \in Requests : ApplyCredit(q)
           \/ \E q \in Requests, d \in DueDates : WriteUnpaid(q, d)
           \/ \E i \in Invoices : Withdraws(i) \/ Annul(i) \/ Release(i)
           \/ /\ Kept
              /\ \A d \in DueDates : due[d] = "CANCELLED" /\ ~ Debited(d) => ~ Debited(d)'
              /\ \/ UNCHANGED request
                 \/ \E q \in Requests : /\ \A r \in Requests \ {q} : request'[r] = request[r]
                                        /\ ~ Fresh(q)' \/ \E c \in Invoices, d \in DueDates,
                                                             x \in Amounts : ReadCredit(q, c, d, x)
<1>1. CASE UNCHANGED vars BY <1>1 DEF vars, Kept, Debited
<1>2. CASE CashMoves BY <1>2, CashStep
<1>3. CASE RefundsMove BY <1>3 DEF RefundsMove
<1>4. ASSUME NEW q \in Requests, NEW m \in Remittances, StatusMoves(q, m)
      PROVE  /\ Kept /\ \A d \in DueDates : ~ Debited(d) => ~ Debited(d)'
             /\ \A r \in Requests \ {q} : request'[r] = request[r]
             /\ ~ Fresh(q)'
  <2>1. UNCHANGED <<invoice, due, collected, credited, payment, credit, refund>>
    BY <1>4, StatusStep
  <2>2. CASE UNCHANGED remittance /\ \E op \in Operations :
                      request' = [request EXCEPT ![q] = [op |-> op, remittance |-> m]]
    <3>1. \A d \in DueDates : ~ Debited(d) => ~ Debited(d)' BY <2>2 DEF Debited
    <3>2. request'[q].op # "apply" BY <2>2 DEF Operations, TypeOK
    <3> QED BY <2>1, <2>2, <3>1, <3>2 DEF Kept, Fresh
  <2>3. CASE /\ request' = [request EXCEPT ![q] = Idle]
             /\ \E to \in {"GENERATED", "SENT", "REJECTED", "CANCELLED", "CLOSED"},
                   active \in {remittance[m].active, {}} :
                  remittance' = [remittance EXCEPT ![m] =
                        [remittance[m] EXCEPT !.status = to, !.active = active]]
    <3>1. \A to, active :
            [remittance[m] EXCEPT !.status = to, !.active = active].active = active
      BY DEF TypeOK, RemittanceRow
    <3>2. \A n \in Remittances : remittance'[n].active \subseteq remittance[n].active
      BY <2>3, <3>1 DEF TypeOK
    <3>3. \A d \in DueDates : ~ Debited(d) => ~ Debited(d)' BY <3>2 DEF Debited
    <3>4. request'[q].op # "apply" BY <2>3 DEF Idle, TypeOK
    <3> QED BY <2>1, <2>3, <3>3, <3>4 DEF Kept, Fresh
  <2> QED BY <1>4, <2>2, <2>3, StatusStep
<1>5. ASSUME NEW q \in Requests, NEW d \in DueDates, ReadUnpaid(q, d)
      PROVE  /\ Kept /\ UNCHANGED remittance
             /\ \A r \in Requests \ {q} : request'[r] = request[r]
             /\ ~ Fresh(q)'
  BY <1>5 DEF ReadUnpaid, Kept, Fresh, TypeOK
<1>6. ASSUME NEW q \in Requests, NEW c \in Invoices, NEW d \in DueDates, NEW x \in Amounts,
             ReadCredit(q, c, d, x)
      PROVE  /\ Kept /\ UNCHANGED remittance
             /\ \A r \in Requests \ {q} : request'[r] = request[r]
  BY <1>6 DEF ReadCredit, Kept, TypeOK
<1>7. ASSUME NEW q \in Requests, Serialization(q)
      PROVE  /\ Kept /\ UNCHANGED remittance
             /\ \A r \in Requests \ {q} : request'[r] = request[r]
             /\ ~ Fresh(q)'
  BY <1>7 DEF Serialization, Kept, Fresh, Idle, TypeOK
<1>8. ASSUME NEW m \in Remittances, NEW ds \in SUBSET DueDates, CreateDraft(m, ds)
      PROVE  /\ Kept /\ UNCHANGED request
             /\ \A d \in DueDates : due[d] = "CANCELLED" /\ ~ Debited(d) => ~ Debited(d)'
  <2>1. Kept /\ UNCHANGED request BY <1>8 DEF CreateDraft, Kept
  <2>2. remittance' = [remittance EXCEPT ![m] =
           [status |-> "DRAFT", lines |-> [d \in ds |-> Pending(d)], active |-> ds]]
    BY <1>8 DEF CreateDraft
  <2>3. \A d \in ds : due[d] # "CANCELLED" BY <1>8 DEF CreateDraft, Collectable
  <2>4. \A n \in Remittances \ {m} : remittance'[n] = remittance[n] BY <2>2 DEF TypeOK
  <2>5. remittance'[m].active = ds BY <2>2 DEF TypeOK
  <2>6. ASSUME NEW d \in DueDates, due[d] = "CANCELLED", ~ Debited(d)
        PROVE  ~ Debited(d)'
    <3>1. \A n \in Remittances : d \notin remittance'[n].active
      BY <2>3, <2>4, <2>5, <2>6 DEF Debited
    <3> QED BY <3>1 DEF Debited
  <2> QED BY <2>1, <2>6
<1>9. ASSUME UNCHANGED remittance PROVE \A d \in DueDates : ~ Debited(d) => ~ Debited(d)'
  BY <1>9 DEF Debited
<1>10. ASSUME NEW q \in Requests, RequestsMove(q)
       PROVE  \/ ApplyCredit(q) \/ \E d \in DueDates : WriteUnpaid(q, d)
              \/ /\ Kept /\ \A d \in DueDates : ~ Debited(d) => ~ Debited(d)'
                 /\ \A r \in Requests \ {q} : request'[r] = request[r]
                 /\ ~ Fresh(q)' \/ \E c \in Invoices, d \in DueDates,
                                      x \in Amounts : ReadCredit(q, c, d, x)
  BY <1>4, <1>5, <1>6, <1>7, <1>9, <1>10 DEF RequestsMove
<1>11. ASSUME NEW i \in Invoices, InvoiceMoves(i)
       PROVE  Withdraws(i) \/ Annul(i) \/ Release(i)
  BY <1>11 DEF InvoiceMoves, Withdraws
<1> QED BY <1>1, <1>2, <1>3, <1>8, <1>10, <1>11, NextIs
-----------------------------------------------------------------------------
(* The rest of the invariant, conjunct by conjunct.                         *)

\* No computed status is that of a cancelled due date.
LEMMA StatusValues ==
    \A cash, credits, amount :
        DueStatus(cash, credits, amount) # "CANCELLED"
        /\ PaidStatus(cash, credits, amount) # "CANCELLED"
BY DEF DueStatus, PaidStatus

\* A requested refund, and what it reserves.
LEMMA RequestRefundStep ==
    ASSUME TypeOK, NEW f \in Refunds, NEW c \in Invoices, NEW x \in Amounts, NEW u \in Users,
           RequestRefund(f, c, x, u)
    PROVE  /\ x \in Nat \ {0} /\ credit[c] \in CreditRow /\ x <= Available(c)
           /\ refund[f] = Absent /\ refund'[f] # Absent /\ refund'[f].credit = c
           /\ \A g \in Refunds \ {f} : refund'[g] = refund[g]
           /\ credit' = [credit EXCEPT ![c] = [credit[c] EXCEPT !.reserved = credit[c].reserved + x]]
           /\ request' = Superseded({c})
           /\ UNCHANGED <<invoice, due, collected, credited, payment, remittance>>
<1>1. credit[c] \in CreditRow BY RowsType DEF RequestRefund, Usable
<1>2. refund'[f] = [status |-> "REQUESTED", credit |-> c, amount |-> x, by |-> u]
  BY DEF RequestRefund, TypeOK
<1>3. refund'[f] # Absent /\ refund'[f].credit = c BY <1>2 DEF Absent
<1> QED BY <1>1, <1>3, AmountsType DEF RequestRefund, TypeOK

\* The credits of rectified invoices stay, whatever is written of them.
LEMMA CreditsStay ==
    ASSUME TypeOK, SumsInv, LinkInv, FreshInv, [Next]_vars, NEW c \in Invoices
    PROVE  /\ credit[c] # Absent => credit'[c] # Absent
           /\ credit'[c] # Absent =>
                credit[c] # Absent \/ \E held \in BOOLEAN : Rectify(c, held)
<1> DEFINE Stays == /\ credit[c] # Absent => credit'[c] # Absent
                    /\ credit'[c] # Absent =>
                         credit[c] # Absent \/ \E held \in BOOLEAN : Rectify(c, held)
<1>1. ASSUME NEW e \in Invoices, NEW r, r # Absent, credit[e] # Absent,
             credit' = [credit EXCEPT ![e] = r]
      PROVE  Stays
  BY <1>1 DEF TypeOK
<1>2. ASSUME NEW r \in CreditRow
      PROVE  \A x : /\ [r EXCEPT !.reserved = x] # Absent /\ [r EXCEPT !.applied = x] # Absent
                    /\ [r EXCEPT !.held = x] # Absent
  BY DEF CreditRow, Absent
<1>3. ASSUME NEW r \in CreditRow PROVE r # Absent BY DEF CreditRow, Absent
<1>4. ASSUME NEW f \in Refunds, NEW e \in Invoices, NEW x \in Amounts, NEW u \in Users,
             RequestRefund(f, e, x, u)
      PROVE  Stays
  <2>1. credit[e] \in CreditRow
        /\ credit' = [credit EXCEPT ![e] = [credit[e] EXCEPT !.reserved = credit[e].reserved + x]]
    BY <1>4, RequestRefundStep
  <2> PICK r : r = [credit[e] EXCEPT !.reserved = credit[e].reserved + x] OBVIOUS
  <2>2. r # Absent /\ credit[e] # Absent BY <1>2, <1>3, <2>1
  <2> QED BY <1>1, <2>1, <2>2
<1>5. ASSUME NEW f \in Refunds, RefundMoves(f) PROVE Stays
  BY <1>5, RefundStep
<1>6. ASSUME NEW q \in Requests, ApplyCredit(q) PROVE Stays
  <2>1. PICK e \in Invoices, x \in Nat \ {0} :
          /\ credit[e] \in CreditRow
          /\ credit' = [credit EXCEPT ![e] = [credit[e] EXCEPT !.applied = credit[e].applied + x]]
    BY <1>6, ApplyStep DEF Compensates
  <2> PICK r : r = [credit[e] EXCEPT !.applied = credit[e].applied + x] OBVIOUS
  <2>2. r # Absent /\ credit[e] # Absent BY <1>2, <1>3, <2>1
  <2> QED BY <1>1, <2>1, <2>2
<1>7. ASSUME NEW i \in Invoices, Withdraws(i) PROVE Stays
  <2>1. CASE i = c
    <3>1. credit[c] = Absent BY <1>7, <2>1, WithdrawStep DEF LinkInv
    <3>2. Void(c) => credit' = credit BY DEF Void
    <3> QED BY <1>7, <2>1, <3>1, <3>2 DEF Withdraws
  <2>2. CASE i # c
    <3>1. \A j \in Invoices \ {i} : invoice'[j] = invoice[j] /\ credit'[j] = credit[j]
      BY <1>7, WithdrawStep
    <3> QED BY <2>2, <3>1
  <2> QED BY <2>1, <2>2
<1>8. ASSUME NEW i \in Invoices, Release(i) PROVE Stays
  <2>1. credit[i] \in CreditRow BY <1>8, RowsType DEF Release
  <2>2. credit' = [credit EXCEPT ![i] = [credit[i] EXCEPT !.held = FALSE]]
    BY <1>8 DEF Release
  <2> QED BY <1>1, <1>2, <1>3, <2>1, <2>2
<1>9. UNCHANGED credit => Stays OBVIOUS
<1>10. ASSUME NEW q \in Requests, NEW d \in DueDates, WriteUnpaid(q, d) PROVE UNCHANGED credit
  BY <1>10 DEF WriteUnpaid
<1>11. ASSUME NEW i \in Invoices, Annul(i) PROVE UNCHANGED credit BY <1>11 DEF Annul
<1> QED BY <1>4, <1>5, <1>6, <1>7, <1>8, <1>9, <1>10, <1>11, StepIs DEF CashOf, Kept

\* Statuses of invoices, and what a cancelled due date says of its invoice.
LEMMA StatusesStay ==
    ASSUME TypeOK, SumsInv, LinkInv, FreshInv, [Next]_vars
    PROVE  /\ \A i \in Invoices : \/ invoice'[i].status = invoice[i].status
                                  \/ Withdraws(i)
           /\ \A d \in DueDates : due'[d] = "CANCELLED" =>
                due[d] = "CANCELLED" \/ Withdraws(InvoiceOf[d])
<1> DEFINE Stay ==
      /\ \A i \in Invoices : invoice'[i].status = invoice[i].status \/ Withdraws(i)
      /\ \A d \in DueDates : due'[d] = "CANCELLED" =>
           due[d] = "CANCELLED" \/ Withdraws(InvoiceOf[d])
<1>1. ASSUME NEW ds \in SUBSET DueDates, CashOf(ds) PROVE Stay
  BY <1>1, StatusValues DEF CashOf, Collects, TakesBack
<1>2. UNCHANGED <<invoice, due>> => Stay OBVIOUS
<1>3. ASSUME NEW q \in Requests, ApplyCredit(q) PROVE Stay
  <2>1. /\ \A i \in Invoices : invoice'[i].status = invoice[i].status
        /\ \A e \in DueDates : \/ due'[e] = due[e]
                               \/ due'[e] = PaidStatus(collected[e], credited'[e], Amount[e])
    BY <1>3, ApplyStep DEF Compensates
  <2> QED BY <2>1, StatusValues
<1>4. ASSUME NEW q \in Requests, NEW d \in DueDates, WriteUnpaid(q, d) PROVE Stay
  <2>1. \A i \in Invoices : [invoice[i] EXCEPT !.pay = "UNPAID"].status = invoice[i].status
    BY DEF TypeOK, InvoiceRow
  <2>2. invoice' = [invoice EXCEPT ![InvoiceOf[d]] =
                      [invoice[InvoiceOf[d]] EXCEPT !.pay = "UNPAID"]]
        /\ due' = [due EXCEPT ![d] = "UNPAID"]
    BY <1>4 DEF WriteUnpaid
  <2> QED BY <2>1, <2>2 DEF TypeOK
<1>5. ASSUME NEW i \in Invoices, Withdraws(i) PROVE Stay
  <2>1. /\ \A j \in Invoices \ {i} : invoice'[j] = invoice[j] /\ credit'[j] = credit[j]
        /\ \A d \in DueDates : \/ due'[d] = due[d]
                               \/ due'[d] = "CANCELLED" /\ InvoiceOf[d] = i
    BY <1>5, WithdrawStep
  <2> QED BY <1>5, <2>1
<1>6. ASSUME NEW i \in Invoices, Annul(i) PROVE Stay
  BY <1>6 DEF Annul, TypeOK, InvoiceRow
<1>7. ASSUME NEW i \in Invoices, Release(i) PROVE UNCHANGED <<invoice, due>>
  BY <1>7 DEF Release
<1>8. ASSUME NEW f \in Refunds, NEW c \in Invoices, NEW x \in Amounts, NEW u \in Users,
             RequestRefund(f, c, x, u)
      PROVE  UNCHANGED <<invoice, due>>
  BY <1>8 DEF RequestRefund
<1>9. ASSUME NEW f \in Refunds, RefundMoves(f) PROVE UNCHANGED <<invoice, due>>
  BY <1>9, RefundStep
<1> QED BY <1>1, <1>2, <1>3, <1>4, <1>5, <1>6, <1>7, <1>8, <1>9, StepIs DEF Kept

\* Credits stay tied to rectified invoices, refunds to credits, cancelled due dates to
\* withdrawn invoices.
LEMMA LinkStep ==
    ASSUME TypeOK, TypeOK', SumsInv, LinkInv, FreshInv, [Next]_vars
    PROVE  LinkInv'
<1>1. ASSUME NEW c \in Invoices, credit'[c] # Absent PROVE invoice'[c].status = "RECTIFIED"
  <2>1. CASE \E held \in BOOLEAN : Rectify(c, held)
    BY <2>1, WithdrawStep DEF Withdraws
  <2>2. CASE ~ \E held \in BOOLEAN : Rectify(c, held)
    <3>1. invoice[c].status = "RECTIFIED" BY <1>1, <2>2, CreditsStay DEF LinkInv
    <3>2. ~ Withdraws(c) BY <3>1, WithdrawStep
    <3> QED BY <3>1, <3>2, StatusesStay
  <2> QED BY <2>1, <2>2
<1>2. ASSUME NEW f \in Refunds, refund'[f] # Absent PROVE credit'[refund'[f].credit] # Absent
  <2>1. ASSUME refund'[f] = refund[f] PROVE credit'[refund'[f].credit] # Absent
    <3>1. refund[f] \in RefundRow BY <1>2, <2>1, RowsType
    <3>2. refund[f].credit \in Invoices BY <3>1 DEF RefundRow
    <3> QED BY <1>2, <2>1, <3>2, CreditsStay DEF LinkInv
  <2>2. ASSUME NEW g \in Refunds, NEW c \in Invoices, NEW x \in Amounts, NEW u \in Users,
               RequestRefund(g, c, x, u)
        PROVE  credit'[refund'[f].credit] # Absent
    <3>1. /\ credit[c] \in CreditRow /\ refund'[g].credit = c
          /\ \A h \in Refunds \ {g} : refund'[h] = refund[h]
      BY <2>2, RequestRefundStep
    <3>2. credit'[c] # Absent BY <3>1, CreditsStay DEF CreditRow, Absent
    <3> QED BY <2>1, <3>1, <3>2
  <2>3. ASSUME NEW g \in Refunds, RefundMoves(g) PROVE credit'[refund'[f].credit] # Absent
    <3>1. /\ refund'[g].credit = refund[g].credit /\ credit'[refund[g].credit] # Absent
          /\ \A h \in Refunds \ {g} : refund'[h] = refund[h]
      BY <2>3, RefundStep
    <3> QED BY <2>1, <3>1
  <2> QED BY <2>1, <2>2, <2>3, RefundWrites DEF RefundsMove
<1>3. ASSUME NEW d \in DueDates, due'[d] = "CANCELLED"
      PROVE  invoice'[InvoiceOf[d]].status # "ISSUED"
  <2>1. InvoiceOf[d] \in Invoices BY AmountsType
  <2>2. CASE Withdraws(InvoiceOf[d]) BY <2>1, <2>2, WithdrawStep
  <2>3. CASE ~ Withdraws(InvoiceOf[d])
    BY <1>3, <2>1, <2>3, StatusesStay DEF LinkInv
  <2> QED BY <2>2, <2>3
<1> QED BY <1>1, <1>2, <1>3 DEF LinkInv

\* A snapshot that survives a step saw rows that the step left alone.
Untold(c, d) ==
    /\ credit'[c] # Absent
    /\ credit'[c].applied = credit[c].applied /\ credit'[c].reserved = credit[c].reserved
    /\ credit'[c].posted = credit[c].posted
    /\ due'[d] = due[d] /\ collected'[d] = collected[d] /\ credited'[d] = credited[d]
    /\ invoice'[InvoiceOf[d]].status = invoice[InvoiceOf[d]].status

\* What the invariant says of one request.
Passes(q) ==
    /\ credit[request[q].credit] # Absent
    /\ request[q].amount <= Available(request[q].credit)
    /\ Collectable(request[q].due)
    /\ request[q].amount <= Pending(request[q].due)

\* A request whose rows were left alone still passes its checks.
LEMMA StillPasses ==
    ASSUME FreshInv, NEW q \in Requests, Fresh(q), request'[q] = request[q],
           Untold(request[q].credit, request[q].due)
    PROVE  Passes(q)'
BY DEF FreshInv, Passes, Untold, Available, Collectable, Pending

\* A request that stays fresh is about none of the superseded invoices.
LEMMA SurvivesIs ==
    ASSUME TypeOK, NEW is, request' = Superseded(is), NEW q \in Requests, Fresh(q)'
    PROVE  /\ Fresh(q) /\ request'[q] = request[q]
           /\ request[q].credit \in Invoices \ is /\ request[q].due \in DueDates
           /\ InvoiceOf[request[q].due] \in Invoices \ is
<1>1. /\ Superseded(is)[q] = request[q]
      /\ request[q].credit \notin is /\ InvoiceOf[request[q].due] \notin is
  BY SupersededIs DEF Fresh
<1>2. Fresh(q) /\ request'[q] = request[q] BY <1>1 DEF Fresh
<1>3. request[q] \in Application BY <1>2, RowsType DEF Fresh
<1> QED BY <1>1, <1>2, <1>3, AmountsType DEF Application

\* The same, when another request ends in the step.
LEMMA SurvivesOne ==
    ASSUME TypeOK, NEW is, NEW r \in Requests, request' = [Superseded(is) EXCEPT ![r] = Idle],
           NEW q \in Requests, Fresh(q)'
    PROVE  /\ Fresh(q) /\ request'[q] = request[q]
           /\ request[q].credit \in Invoices \ is /\ request[q].due \in DueDates
           /\ InvoiceOf[request[q].due] \in Invoices \ is
<1>0. Superseded(is) \in [Requests -> RequestRow] BY RewrittenType
<1>1. q # r BY <1>0 DEF Fresh, Idle
<1>2. request'[q] = Superseded(is)[q] BY <1>0, <1>1
<1>3. /\ Superseded(is)[q] = request[q]
      /\ request[q].credit \notin is /\ InvoiceOf[request[q].due] \notin is
  BY <1>2, SupersededIs DEF Fresh
<1>4. Fresh(q) /\ request'[q] = request[q] BY <1>2, <1>3 DEF Fresh
<1>5. request[q] \in Application BY <1>4, RowsType DEF Fresh
<1> QED BY <1>3, <1>4, <1>5, AmountsType DEF Application

\* A snapshot that is not superseded stays true of the rows.
LEMMA FreshStep ==
    ASSUME TypeOK, TypeOK', SumsInv, LinkInv, FreshInv, [Next]_vars
    PROVE  FreshInv'
<1> SUFFICES ASSUME NEW q \in Requests, Fresh(q)' PROVE Passes(q)' BY DEF FreshInv, Passes
<1> PICK c : c = request[q].credit OBVIOUS
<1> PICK d : d = request[q].due OBVIOUS
<1>0. Fresh(q) => credit[c] # Absent BY DEF FreshInv
<1>1. ASSUME NEW ds \in SUBSET DueDates, CashOf(ds) PROVE Passes(q)'
  <2> PICK is : is = {InvoiceOf[e] : e \in ds} OBVIOUS
  <2>1. request' = Superseded(is) BY <1>1 DEF CashOf
  <2>2. /\ Fresh(q) /\ request'[q] = request[q]
        /\ c \in Invoices \ is /\ d \in DueDates /\ InvoiceOf[d] \in Invoices \ is
    BY <2>1, SurvivesIs
  <2>3. d \notin ds BY <2>2
  <2>4. Untold(c, d) BY <1>0, <1>1, <2>2, <2>3 DEF CashOf, Untold
  <2> QED BY <2>2, <2>4, StillPasses
<1>2. ASSUME NEW f \in Refunds, NEW e \in Invoices, NEW x \in Amounts, NEW u \in Users,
             RequestRefund(f, e, x, u)
      PROVE  Passes(q)'
  <2>1. /\ request' = Superseded({e})
        /\ UNCHANGED <<invoice, due, collected, credited>>
        /\ credit' = [credit EXCEPT ![e] = [credit[e] EXCEPT !.reserved = credit[e].reserved + x]]
    BY <1>2, RequestRefundStep
  <2>2. /\ Fresh(q) /\ request'[q] = request[q] /\ c \in Invoices \ {e}
    BY <2>1, SurvivesIs
  <2>3. credit'[c] = credit[c] BY <2>1, <2>2 DEF TypeOK
  <2>4. Untold(c, d) BY <1>0, <2>1, <2>2, <2>3 DEF Untold
  <2> QED BY <2>2, <2>4, StillPasses
<1>3. ASSUME NEW f \in Refunds, RefundMoves(f) PROVE Passes(q)'
  <2> PICK e : e = refund[f].credit OBVIOUS
  <2>1. /\ request' = Superseded({e})
        /\ UNCHANGED <<invoice, due, collected, credited>>
        /\ \A k \in Invoices \ {e} : credit'[k] = credit[k]
    BY <1>3, RefundStep
  <2>2. /\ Fresh(q) /\ request'[q] = request[q] /\ c \in Invoices \ {e}
    BY <2>1, SurvivesIs
  <2>3. credit'[c] = credit[c] BY <2>1, <2>2
  <2>4. Untold(c, d) BY <1>0, <2>1, <2>2, <2>3 DEF Untold
  <2> QED BY <2>2, <2>4, StillPasses
<1>4. ASSUME NEW r \in Requests, ApplyCredit(r) PROVE Passes(q)'
  <2>0. PICK e \in Invoices, b \in DueDates, x \in Nat \ {0} : Compensates(r, e, b, x)
    BY <1>4, ApplyStep
  <2>1. /\ credit' = [credit EXCEPT ![e] = [credit[e] EXCEPT !.applied = credit[e].applied + x]]
        /\ credited' = [credited EXCEPT ![b] = credited[b] + x]
        /\ \A a \in DueDates : due'[a] = due[a] \/ InvoiceOf[a] = InvoiceOf[b]
        /\ \A i \in Invoices : invoice'[i].status = invoice[i].status
        /\ request' = [Superseded({InvoiceOf[b], e}) EXCEPT ![r] = Idle]
        /\ UNCHANGED collected
    BY <2>0 DEF Compensates
  <2> PICK is : is = {InvoiceOf[b], e} OBVIOUS
  <2>2. /\ Fresh(q) /\ request'[q] = request[q]
        /\ c \in Invoices \ is /\ d \in DueDates /\ InvoiceOf[d] \in Invoices \ is
    BY <2>1, SurvivesOne
  <2>3. c # e /\ InvoiceOf[d] # InvoiceOf[b] /\ d # b BY <2>2
  <2>4. /\ credit'[c] = credit[c] /\ credited'[d] = credited[d] /\ due'[d] = due[d]
        /\ invoice'[InvoiceOf[d]].status = invoice[InvoiceOf[d]].status
    <3>1. credit'[c] = credit[c] BY <2>1, <2>2, <2>3 DEF TypeOK
    <3>2. credited'[d] = credited[d] BY <2>1, <2>2, <2>3 DEF TypeOK
    <3>3. due'[d] = due[d] BY <2>1, <2>2, <2>3
    <3> QED BY <2>1, <2>2, <3>1, <3>2, <3>3
  <2>5. Untold(c, d) BY <1>0, <2>1, <2>2, <2>4 DEF Untold
  <2> QED BY <2>2, <2>5, StillPasses
<1>5. ASSUME NEW r \in Requests, NEW b \in DueDates, WriteUnpaid(r, b) PROVE Passes(q)'
  <2>1. /\ due' = [due EXCEPT ![b] = "UNPAID"]
        /\ invoice' = [invoice EXCEPT ![InvoiceOf[b]] =
                         [invoice[InvoiceOf[b]] EXCEPT !.pay = "UNPAID"]]
        /\ request' = [Superseded({InvoiceOf[b]}) EXCEPT ![r] = Idle]
        /\ UNCHANGED <<collected, credited, credit>>
    BY <1>5 DEF WriteUnpaid
  <2> PICK is : is = {InvoiceOf[b]} OBVIOUS
  <2>2. /\ Fresh(q) /\ request'[q] = request[q]
        /\ c \in Invoices \ is /\ d \in DueDates /\ InvoiceOf[d] \in Invoices \ is
    BY <2>1, SurvivesOne
  <2>3. InvoiceOf[d] # InvoiceOf[b] /\ d # b BY <2>2
  <2>4. due'[d] = due[d] /\ invoice'[InvoiceOf[d]] = invoice[InvoiceOf[d]]
    BY <2>1, <2>2, <2>3 DEF TypeOK
  <2>5. Untold(c, d) BY <1>0, <2>1, <2>2, <2>4 DEF Untold
  <2> QED BY <2>2, <2>5, StillPasses
<1>6. ASSUME NEW i \in Invoices, Withdraws(i) PROVE Passes(q)'
  <2>1. /\ \A j \in Invoices \ {i} : invoice'[j] = invoice[j] /\ credit'[j] = credit[j]
        /\ \A e \in DueDates : due'[e] = due[e] \/ InvoiceOf[e] = i
        /\ request' = Superseded({i})
        /\ UNCHANGED <<collected, credited>>
    BY <1>6, WithdrawStep
  <2>2. /\ Fresh(q) /\ request'[q] = request[q]
        /\ c \in Invoices \ {i} /\ d \in DueDates /\ InvoiceOf[d] \in Invoices \ {i}
    BY <2>1, SurvivesIs
  <2>3. Untold(c, d) BY <1>0, <2>1, <2>2 DEF Untold
  <2> QED BY <2>2, <2>3, StillPasses
<1>7. ASSUME NEW i \in Invoices, Annul(i) PROVE Passes(q)'
  <2>1. /\ invoice' = [invoice EXCEPT ![i] = [invoice[i] EXCEPT !.annulled = TRUE]]
        /\ request' = Superseded({i})
        /\ UNCHANGED <<due, collected, credited, credit>>
    BY <1>7 DEF Annul
  <2>2. /\ Fresh(q) /\ request'[q] = request[q]
        /\ c \in Invoices \ {i} /\ d \in DueDates /\ InvoiceOf[d] \in Invoices \ {i}
    BY <2>1, SurvivesIs
  <2>3. invoice'[InvoiceOf[d]] = invoice[InvoiceOf[d]] BY <2>1, <2>2 DEF TypeOK
  <2>4. Untold(c, d) BY <1>0, <2>1, <2>2, <2>3 DEF Untold
  <2> QED BY <2>2, <2>4, StillPasses
<1>8. ASSUME NEW i \in Invoices, Release(i) PROVE Passes(q)'
  <2>1. /\ credit' = [credit EXCEPT ![i] = [credit[i] EXCEPT !.held = FALSE]]
        /\ UNCHANGED <<invoice, due, collected, credited, request>>
    BY <1>8 DEF Release
  <2>2. Fresh(q) /\ request'[q] = request[q] BY <2>1 DEF Fresh
  <2>3. request[q] \in Application BY <2>2, RowsType DEF Fresh
  <2>4. c \in Invoices /\ credit[c] \in CreditRow BY <1>0, <2>2, <2>3, RowsType DEF Application
  <2>5. [credit[c] EXCEPT !.held = FALSE] \in CreditRow
        /\ [credit[c] EXCEPT !.held = FALSE].applied = credit[c].applied
        /\ [credit[c] EXCEPT !.held = FALSE].reserved = credit[c].reserved
        /\ [credit[c] EXCEPT !.held = FALSE].posted = credit[c].posted
    BY <2>4 DEF CreditRow
  <2>6. credit'[c] \in {credit[c], [credit[c] EXCEPT !.held = FALSE]}
    BY <2>1, <2>4 DEF TypeOK
  <2>7. credit'[c] # Absent BY <2>4, <2>5, <2>6 DEF CreditRow, Absent
  <2>8. Untold(c, d) BY <2>1, <2>5, <2>6, <2>7 DEF Untold
  <2> QED BY <2>2, <2>8, StillPasses
<1>9. ASSUME Kept, request'[q] = request[q] PROVE Passes(q)'
  <2>1. Fresh(q) BY <1>9 DEF Fresh
  <2>2. Untold(c, d) BY <1>0, <1>9, <2>1 DEF Untold, Kept
  <2> QED BY <1>9, <2>1, <2>2, StillPasses
<1>10. ASSUME NEW e \in Invoices, NEW b \in DueDates, NEW x \in Amounts, ReadCredit(q, e, b, x)
       PROVE  Passes(q)'
  <2>1. request'[q] = [op |-> "apply", credit |-> e, due |-> b, amount |-> x, fresh |-> TRUE]
    BY <1>10 DEF ReadCredit, TypeOK
  <2>2. /\ credit[e] # Absent /\ x <= Available(e) /\ Collectable(b) /\ x <= Pending(b)
        /\ UNCHANGED <<invoice, due, collected, credited, credit>>
    BY <1>10 DEF ReadCredit, Usable
  <2> QED BY <2>1, <2>2 DEF Passes, Available, Collectable, Pending
<1>11. ASSUME NEW r \in Requests, \A s \in Requests \ {r} : request'[s] = request[s], Kept,
              ~ Fresh(r)' \/ \E e \in Invoices, b \in DueDates, x \in Amounts :
                               ReadCredit(r, e, b, x)
       PROVE  Passes(q)'
  BY <1>9, <1>10, <1>11
<1>12. (Kept /\ UNCHANGED request) => Passes(q)' BY <1>9
<1> QED BY <1>1, <1>2, <1>3, <1>4, <1>5, <1>6, <1>7, <1>8, <1>11, <1>12, StepIs

\* An invoice is withdrawn unpaid only when nothing was ever collected of it and
\* no remittance holds it.
LEMMA CleanWhenWithdrawn ==
    ASSUME TypeOK, SumsInv, NEW i \in Invoices, Withdraws(i), NEW d \in DueDates,
           due'[d] = "CANCELLED", due[d] # "CANCELLED"
    PROVE  collected[d] = 0 /\ ~ Debited(d)
<1>1. InvoiceOf[d] = i BY WithdrawStep
<1>2. Untouched(i) /\ ~ Debited(d)
  <2>1. ASSUME NEW held \in BOOLEAN, Rectify(i, held) PROVE Untouched(i) /\ ~ Debited(d)
    <3>1. CleanUnpaid(i) BY <2>1 DEF Rectify
    <3> QED BY <1>1, <3>1 DEF CleanUnpaid, DueDatesOf
  <2>2. ASSUME Void(i) PROVE Untouched(i) /\ ~ Debited(d)
    <3>1. \A m \in Remittances : d \notin DOMAIN remittance[m].lines
      BY <1>1, <2>2 DEF Void, DueDatesOf
    <3>2. \A m \in Remittances : d \notin remittance[m].active BY <3>1 DEF TypeOK
    <3> QED BY <2>2, <3>2 DEF Void, Debited
  <2> QED BY <2>1, <2>2 DEF Withdraws
<1>3. \A p \in Payments : payment[p] # Absent => payment[p].due # d
  BY <1>1, <1>2 DEF Untouched, DueDatesOf
<1> PICK f : f = NetOf(d) OBVIOUS
<1>4. \A p \in Payments : f[p] = 0 BY <1>3, NetType
<1>5. SumFunctionOnSet(f, Payments) = 0 BY <1>4, RowsAssumption, SumOfZeros DEF RowsAssumption
<1> QED BY <1>2, <1>5 DEF SumsInv

\* Only cash movements write what is collected, and no line becomes active on a
\* cancelled due date.
LEMMA CashOnly ==
    ASSUME TypeOK, SumsInv, LinkInv, [Next]_vars
    PROVE  /\ (\E ds \in SUBSET DueDates : CashOf(ds)) \/ UNCHANGED collected
           /\ \A d \in DueDates : due[d] = "CANCELLED" /\ ~ Debited(d) => ~ Debited(d)'
<1>1. ASSUME NEW ds \in SUBSET DueDates, CashOf(ds)
      PROVE  \A d \in DueDates : ~ Debited(d) => ~ Debited(d)'
  BY <1>1 DEF CashOf, Debited
<1>2. ASSUME UNCHANGED remittance PROVE \A d \in DueDates : ~ Debited(d) => ~ Debited(d)'
  BY <1>2 DEF Debited
<1>3. ASSUME NEW f \in Refunds, NEW c \in Invoices, NEW x \in Amounts, NEW u \in Users,
             RequestRefund(f, c, x, u)
      PROVE  UNCHANGED <<collected, remittance>>
  BY <1>3 DEF RequestRefund
<1>4. ASSUME NEW f \in Refunds, RefundMoves(f) PROVE UNCHANGED <<collected, remittance>>
  BY <1>4, RefundStep
<1>5. ASSUME NEW q \in Requests, ApplyCredit(q) PROVE UNCHANGED <<collected, remittance>>
  BY <1>5 DEF ApplyCredit
<1>6. ASSUME NEW q \in Requests, NEW d \in DueDates, WriteUnpaid(q, d)
      PROVE  UNCHANGED <<collected, remittance>>
  BY <1>6 DEF WriteUnpaid
<1>7. ASSUME NEW i \in Invoices, Withdraws(i) \/ Annul(i) \/ Release(i)
      PROVE  UNCHANGED <<collected, remittance>>
  BY <1>7 DEF Withdraws, Rectify, Void, Annul, Release
<1> QED BY <1>1, <1>2, <1>3, <1>4, <1>5, <1>6, <1>7, StepIs DEF Kept

\* No step collects more than the amount of a due date.
LEMMA CashWithinStep ==
    ASSUME TypeOK, TypeOK', SumsInv, LinkInv, CashWithinDue, [Next]_vars
    PROVE  CashWithinDue'
<1> SUFFICES ASSUME NEW d \in DueDates
             PROVE  collected'[d] >= 0 /\ collected'[d] <= Amount[d]
  BY DEF CashWithinDue
<1>1. /\ collected[d] \in Nat /\ collected'[d] \in Nat /\ Amount[d] \in Nat
      /\ collected[d] <= Amount[d]
  BY AmountsType DEF TypeOK, CashWithinDue
<1>2. ASSUME NEW ds \in SUBSET DueDates, CashOf(ds) PROVE collected'[d] <= Amount[d]
  BY <1>1, <1>2 DEF CashOf, Collects, TakesBack
<1> QED BY <1>1, <1>2, CashOnly

\* Statuses follow from the sums after every step.
LEMMA StatusMoneyStep ==
    ASSUME TypeOK, TypeOK', SumsInv, LinkInv, FreshInv, CashWithinDue, StatusFollowsMoney,
           [Next]_vars
    PROVE  StatusFollowsMoney'
<1> DEFINE Follows(status, cash, credits, amount) ==
      /\ status = "PAID" => cash = amount
      /\ status = "SETTLED" => cash + credits = amount /\ credits > 0
      /\ cash = amount => status \notin {"PENDING", "RETURNED", "CANCELLED"}
<1> SUFFICES ASSUME NEW d \in DueDates
             PROVE  Follows(due'[d], collected'[d], credited'[d], Amount[d])
  BY DEF StatusFollowsMoney
<1>1. /\ collected[d] \in Nat /\ collected'[d] \in Nat /\ Amount[d] \in Nat \ {0}
      /\ credited[d] \in Nat /\ credited'[d] \in Nat /\ collected[d] <= Amount[d]
      /\ Follows(due[d], collected[d], credited[d], Amount[d])
  BY AmountsType DEF TypeOK, CashWithinDue, StatusFollowsMoney
<1>2. ASSUME NEW cash \in Nat, NEW credits \in Nat, NEW amount \in Nat \ {0}
      PROVE  /\ cash + credits <= amount =>
                  Follows(PaidStatus(cash, credits, amount), cash, credits, amount)
             /\ cash < amount => Follows(DueStatus(cash, credits, amount), cash, credits, amount)
  <2>1. cash + credits <= amount =>
          Follows(PaidStatus(cash, credits, amount), cash, credits, amount)
    BY DEF PaidStatus
  <2>2. cash < amount => Follows(DueStatus(cash, credits, amount), cash, credits, amount)
    BY DEF DueStatus
  <2> QED BY <2>1, <2>2
<1>3. ASSUME NEW ds \in SUBSET DueDates, CashOf(ds)
      PROVE  Follows(due'[d], collected'[d], credited'[d], Amount[d])
  <2>1. credited'[d] = credited[d] BY <1>3 DEF CashOf
  <2>2. CASE d \notin ds BY <1>1, <1>3, <2>1, <2>2 DEF CashOf
  <2>3. CASE d \in ds /\ Collects(d)
    <3>1. CASE due'[d] = PaidStatus(collected'[d], credited[d], Amount[d])
               /\ collected'[d] + credited[d] <= Amount[d]
      BY <1>1, <1>2, <2>1, <3>1
    <3>2. CASE due'[d] = PaidStatus(collected'[d], 0, Amount[d])
      BY <1>1, <2>1, <3>2 DEF PaidStatus
    <3> QED BY <2>3, <3>1, <3>2 DEF Collects
  <2>4. CASE d \in ds /\ TakesBack(d)
    <3>1. collected'[d] < Amount[d] BY <1>1, <2>4 DEF TakesBack
    <3> QED BY <1>1, <1>2, <2>1, <2>4, <3>1 DEF TakesBack
  <2> QED BY <1>3, <2>2, <2>3, <2>4 DEF CashOf
<1>4. ASSUME NEW q \in Requests, ApplyCredit(q)
      PROVE  Follows(due'[d], collected'[d], credited'[d], Amount[d])
  <2>1. PICK c \in Invoices, b \in DueDates, x \in Nat \ {0} : Compensates(q, c, b, x)
    BY <1>4, ApplyStep
  <2>2. /\ collected'[d] = collected[d]
        /\ credited'[d] = IF d = b THEN credited[d] + x ELSE credited[d]
        /\ due'[d] = IF InvoiceOf[d] = InvoiceOf[b] /\ collected[d] + credited'[d] = Amount[d]
                     THEN PaidStatus(collected[d], credited'[d], Amount[d]) ELSE due[d]
    BY <2>1 DEF Compensates, TypeOK
  <2>3. CASE InvoiceOf[d] = InvoiceOf[b] /\ collected[d] + credited'[d] = Amount[d]
    BY <1>1, <1>2, <2>2, <2>3
  <2>4. CASE ~ (InvoiceOf[d] = InvoiceOf[b] /\ collected[d] + credited'[d] = Amount[d])
    <3>1. d = b => due[d] = "PENDING" BY <2>1 DEF Compensates, Collectable
    <3> QED BY <1>1, <2>2, <2>4, <3>1
  <2> QED BY <2>3, <2>4
<1>5. ASSUME NEW i \in Invoices, Withdraws(i), due'[d] = "CANCELLED", due[d] # "CANCELLED"
      PROVE  collected[d] = 0
  BY <1>5, CleanWhenWithdrawn
<1>6. ASSUME NEW i \in Invoices, Withdraws(i)
      PROVE  Follows(due'[d], collected'[d], credited'[d], Amount[d])
  <2>1. UNCHANGED <<collected, credited>> /\ (due'[d] = due[d] \/ due'[d] = "CANCELLED")
    BY <1>6, WithdrawStep
  <2> QED BY <1>1, <1>5, <1>6, <2>1
<1>7. ASSUME NEW q \in Requests, NEW b \in DueDates, WriteUnpaid(q, b)
      PROVE  Follows(due'[d], collected'[d], credited'[d], Amount[d])
  <2>1. UNCHANGED <<collected, credited>> /\ (due'[d] = due[d] \/ due'[d] = "UNPAID")
    BY <1>7 DEF WriteUnpaid, TypeOK
  <2> QED BY <1>1, <2>1
<1>8. UNCHANGED <<due, collected, credited>> =>
        Follows(due'[d], collected'[d], credited'[d], Amount[d])
  BY <1>1
<1>9. ASSUME NEW i \in Invoices, Annul(i) \/ Release(i)
      PROVE  UNCHANGED <<due, collected, credited>>
  BY <1>9 DEF Annul, Release
<1>10. ASSUME NEW f \in Refunds, NEW c \in Invoices, NEW x \in Amounts, NEW u \in Users,
             RequestRefund(f, c, x, u)
      PROVE  UNCHANGED <<due, collected, credited>>
  BY <1>10 DEF RequestRefund
<1>11. ASSUME NEW f \in Refunds, RefundMoves(f) PROVE UNCHANGED <<due, collected, credited>>
  BY <1>11, RefundStep
<1> HIDE DEF Follows
<1> QED BY <1>3, <1>4, <1>6, <1>7, <1>8, <1>9, <1>10, <1>11, StepIs DEF Kept

\* A cancelled due date keeps no cash and no line of a remittance.
LEMMA CleanStep ==
    ASSUME TypeOK, SumsInv, LinkInv, FreshInv, CancelledIsClean, [Next]_vars
    PROVE  CancelledIsClean'
<1> SUFFICES ASSUME NEW d \in DueDates, due'[d] = "CANCELLED"
             PROVE  collected'[d] = 0 /\ ~ Debited(d)'
  BY DEF CancelledIsClean
<1>1. CASE due[d] = "CANCELLED"
  <2>1. collected[d] = 0 /\ ~ Debited(d) BY <1>1 DEF CancelledIsClean
  <2>2. ASSUME NEW ds \in SUBSET DueDates, CashOf(ds) PROVE collected'[d] = collected[d]
    BY <1>1, <2>2 DEF CashOf, LinkInv
  <2> QED BY <1>1, <2>1, <2>2, CashOnly
<1>2. CASE due[d] # "CANCELLED" /\ Withdraws(InvoiceOf[d])
  <2>1. InvoiceOf[d] \in Invoices BY AmountsType
  <2>2. collected[d] = 0 /\ ~ Debited(d) BY <1>2, <2>1, CleanWhenWithdrawn
  <2>3. UNCHANGED <<collected, remittance>> BY <1>2 DEF Withdraws, Rectify, Void
  <2> QED BY <2>2, <2>3 DEF Debited
<1> QED BY <1>1, <1>2, StatusesStay

\* Compensations and refunds stay within what the rectified invoice left.
LEMMA CreditWithinStep ==
    ASSUME TypeOK, TypeOK', SumsInv, LinkInv, FreshInv, CreditWithinOriginal, [Next]_vars
    PROVE  CreditWithinOriginal'
<1> DEFINE Within(r, total) == r.applied + r.reserved + r.posted <= total
<1> SUFFICES ASSUME NEW c \in Invoices, credit'[c] # Absent
             PROVE  credit'[c].reserved >= 0 /\ Within(credit'[c], Total(c))
  BY DEF CreditWithinOriginal, Total
<1>0. Total(c) \in Nat BY TotalType
<1>11. credit'[c].reserved >= 0
  <2>1. credit'[c] \in CreditRow BY DEF TypeOK
  <2> QED BY <2>1 DEF CreditRow
<1>1. credit[c] # Absent => credit[c] \in CreditRow /\ Within(credit[c], Total(c))
  BY RowsType DEF CreditWithinOriginal
<1>2. credit'[c] = credit[c] => Within(credit'[c], Total(c)) BY <1>1
<1>3. ASSUME NEW f \in Refunds, NEW e \in Invoices, NEW x \in Amounts, NEW u \in Users,
             RequestRefund(f, e, x, u)
      PROVE  Within(credit'[c], Total(c))
  <2>1. /\ x \in Nat /\ credit[e] \in CreditRow /\ x <= Available(e)
        /\ credit' = [credit EXCEPT ![e] = [credit[e] EXCEPT !.reserved = credit[e].reserved + x]]
    BY <1>3, RequestRefundStep
  <2>2. CASE e = c
    <3>1. credit'[c] = [credit[c] EXCEPT !.reserved = credit[c].reserved + x]
      BY <2>1, <2>2 DEF TypeOK
    <3>2. /\ credit'[c].reserved = credit[c].reserved + x
          /\ credit'[c].applied = credit[c].applied /\ credit'[c].posted = credit[c].posted
      BY <2>1, <2>2, <3>1 DEF CreditRow
    <3>3. credit[c].reserved \in Nat /\ credit[c].applied \in Nat /\ credit[c].posted \in Nat
      BY <2>1, <2>2 DEF CreditRow
    <3> QED BY <1>0, <2>1, <2>2, <3>2, <3>3 DEF Available
  <2>3. CASE e # c
    <3>1. credit'[c] = credit[c] BY <2>1, <2>3 DEF TypeOK
    <3> QED BY <1>2, <3>1
  <2> QED BY <2>2, <2>3
<1>4. ASSUME NEW f \in Refunds, RefundMoves(f) PROVE Within(credit'[c], Total(c))
  <2> PICK e : e = refund[f].credit OBVIOUS
  <2> PICK a : a = refund[f].amount OBVIOUS
  <2>1. /\ e \in Invoices /\ a \in Nat
        /\ \A k \in Invoices \ {e} : credit'[k] = credit[k]
        /\ credit[e] # Absent
        /\ \/ credit'[e] = credit[e]
           \/ /\ credit'[e].reserved = credit[e].reserved - a
              /\ credit'[e].applied = credit[e].applied
              /\ credit'[e].posted \in {credit[e].posted, credit[e].posted + a}
    BY <1>4, RefundStep
  <2>2. CASE credit'[c] = credit[c] BY <1>2, <2>2
  <2>3. CASE e = c /\ credit'[c] # credit[c]
    <3>1. credit[c].reserved \in Nat /\ credit[c].applied \in Nat /\ credit[c].posted \in Nat
          /\ Within(credit[c], Total(c))
      BY <1>1, <2>1, <2>3 DEF CreditRow
    <3> QED BY <1>0, <2>1, <2>3, <3>1
  <2> QED BY <2>1, <2>2, <2>3
<1>5. ASSUME NEW q \in Requests, ApplyCredit(q) PROVE Within(credit'[c], Total(c))
  <2>1. PICK e \in Invoices, b \in DueDates, x \in Nat \ {0} : Compensates(q, e, b, x)
    BY <1>5, ApplyStep
  <2>2. /\ credit[e] \in CreditRow /\ x <= Available(e)
        /\ credit' = [credit EXCEPT ![e] = [credit[e] EXCEPT !.applied = credit[e].applied + x]]
    BY <2>1 DEF Compensates
  <2>3. CASE e = c
    <3>1. credit'[c] = [credit[c] EXCEPT !.applied = credit[c].applied + x]
      BY <2>2, <2>3 DEF TypeOK
    <3>2. /\ credit'[c].applied = credit[c].applied + x
          /\ credit'[c].reserved = credit[c].reserved /\ credit'[c].posted = credit[c].posted
      BY <2>2, <2>3, <3>1 DEF CreditRow
    <3>3. credit[c].reserved \in Nat /\ credit[c].applied \in Nat /\ credit[c].posted \in Nat
      BY <2>2, <2>3 DEF CreditRow
    <3> QED BY <1>0, <2>2, <2>3, <3>2, <3>3 DEF Available
  <2>4. CASE e # c
    <3>1. credit'[c] = credit[c] BY <2>2, <2>4 DEF TypeOK
    <3> QED BY <1>2, <3>1
  <2> QED BY <2>3, <2>4
<1>6. ASSUME NEW i \in Invoices, Withdraws(i) PROVE Within(credit'[c], Total(c))
  <2>1. CASE i # c
    <3>1. /\ \A j \in Invoices \ {i} : invoice'[j] = invoice[j] /\ credit'[j] = credit[j]
          /\ request' = Superseded({i})
      BY <1>6, WithdrawStep
    <3> QED BY <1>2, <2>1, <3>1
  <2>2. ASSUME i = c, NEW held \in BOOLEAN, Rectify(i, held) PROVE Within(credit'[c], Total(c))
    <3>1. credit'[c] = IF CleanPaid(c)
             THEN [status |-> "OPEN", held |-> held, applied |-> 0, reserved |-> 0, posted |-> 0]
             ELSE Absent
      BY <2>2 DEF Rectify, TypeOK
    <3>2. credit'[c].applied = 0 /\ credit'[c].reserved = 0 /\ credit'[c].posted = 0 BY <3>1
    <3> QED BY <1>0, <3>2
  <2>3. Void(i) => UNCHANGED credit BY DEF Void
  <2> QED BY <1>2, <1>6, <2>1, <2>2, <2>3 DEF Withdraws
<1>7. ASSUME NEW i \in Invoices, Release(i) PROVE Within(credit'[c], Total(c))
  <2>1. /\ credit' = [credit EXCEPT ![i] = [credit[i] EXCEPT !.held = FALSE]]
        /\ credit[i] # Absent
    BY <1>7 DEF Release
  <2>2. CASE i = c
    <3>1. credit'[c] = [credit[c] EXCEPT !.held = FALSE] BY <2>1, <2>2 DEF TypeOK
    <3>2. /\ credit'[c].applied = credit[c].applied
          /\ credit'[c].reserved = credit[c].reserved /\ credit'[c].posted = credit[c].posted
      BY <1>1, <2>1, <2>2, <3>1 DEF CreditRow
    <3> QED BY <1>1, <2>1, <2>2, <3>2
  <2>3. CASE i # c
    <3>1. credit'[c] = credit[c] BY <2>1, <2>3 DEF TypeOK
    <3> QED BY <1>2, <3>1
  <2> QED BY <2>2, <2>3
<1>8. UNCHANGED credit => Within(credit'[c], Total(c)) BY <1>2
<1>9. ASSUME NEW q \in Requests, NEW d \in DueDates, WriteUnpaid(q, d) PROVE UNCHANGED credit
  BY <1>9 DEF WriteUnpaid
<1>10. ASSUME NEW i \in Invoices, Annul(i) PROVE UNCHANGED credit BY <1>10 DEF Annul
<1> HIDE DEF Within
<1> QED BY <1>3, <1>4, <1>5, <1>6, <1>7, <1>8, <1>9, <1>10, <1>11, StepIs DEF CashOf, Kept
-----------------------------------------------------------------------------
(* The theorems.                                                            *)

\* The invariant holds of the first state.
LEMMA TreasuryBegins == Init => TreasuryInv
<1> SUFFICES ASSUME Init PROVE TreasuryInv OBVIOUS
<1>1. TypeOK
  <2>1. [status |-> "ABSENT", lines |-> <<>>, active |-> {}] \in RemittanceRow
    <3>1. <<>> \in [{} -> Amounts] OBVIOUS
    <3> QED BY <3>1 DEF RemittanceRow
  <2> QED BY <2>1 DEF Init, TypeOK, InvoiceRow, DueStatuses, RequestRow
<1>2. SumsInv
  <2>1. ASSUME NEW d \in DueDates PROVE collected[d] = SumFunctionOnSet(NetOf(d), Payments)
    <3> PICK f : f = NetOf(d) OBVIOUS
    <3>1. \A p \in Payments : f[p] = 0 BY <1>1, NetType DEF Init
    <3>2. SumFunctionOnSet(f, Payments) = 0
      BY <3>1, RowsAssumption, SumOfZeros DEF RowsAssumption
    <3> QED BY <3>2 DEF Init
  <2> QED BY <2>1 DEF SumsInv, Init
<1>3. LinkInv BY AmountsType DEF Init, LinkInv
<1>4. FreshInv BY DEF Init, FreshInv, Fresh, Idle
<1>5. CashWithinDue /\ StatusFollowsMoney BY AmountsType DEF Init, CashWithinDue, StatusFollowsMoney
<1>6. CreditWithinOriginal /\ CancelledIsClean
  BY DEF Init, CreditWithinOriginal, CancelledIsClean
<1> QED BY <1>1, <1>2, <1>3, <1>4, <1>5, <1>6 DEF TreasuryInv

\* Every step keeps the invariant.
LEMMA TreasuryStays == TreasuryInv /\ [Next]_vars => TreasuryInv'
<1> SUFFICES ASSUME TreasuryInv, [Next]_vars PROVE TreasuryInv' OBVIOUS
<1>1. /\ TypeOK /\ SumsInv /\ LinkInv /\ FreshInv
      /\ CashWithinDue /\ CreditWithinOriginal /\ StatusFollowsMoney /\ CancelledIsClean
  BY DEF TreasuryInv
<1>2. TypeOK' BY <1>1, TypeStep
<1>3. SumsInv' BY <1>1, <1>2, SumsStep
<1>4. LinkInv' BY <1>1, <1>2, LinkStep
<1>5. FreshInv' BY <1>1, <1>2, FreshStep
<1>6. CashWithinDue' BY <1>1, <1>2, CashWithinStep
<1>7. CreditWithinOriginal' BY <1>1, <1>2, CreditWithinStep
<1>8. StatusFollowsMoney' BY <1>1, <1>2, StatusMoneyStep
<1>9. CancelledIsClean' BY <1>1, CleanStep
<1> QED BY <1>2, <1>3, <1>4, <1>5, <1>6, <1>7, <1>8, <1>9 DEF TreasuryInv

\* The strengthened invariant holds in every state.
LEMMA TreasuryAlways == Spec => []TreasuryInv
BY TreasuryBegins, TreasuryStays, PTL DEF Spec

\* The running totals are what sumNetPaymentsForDueDate and the reserved amount
\* of a credit compute from the rows: no order of payments, direct debits,
\* returns and refunds makes them drift.
THEOREM TotalsAreSums == Spec => []SumsInv
<1>1. TreasuryInv => SumsInv BY DEF TreasuryInv
<1> QED BY <1>1, TreasuryAlways, PTL

\* The cash of a due date stays between zero and its amount, and compensations
\* and refunds never use more of a credit than the rectified invoice left, for
\* any number of payments, remittances, refunds and requests between two steps.
THEOREM MoneyStaysWithinOriginal == Spec => []MoneyWithinOriginal
<1>1. TreasuryInv => MoneyWithinOriginal BY DEF TreasuryInv, MoneyWithinOriginal
<1> QED BY <1>1, TreasuryAlways, PTL

\* The status of a due date follows from its money, and a cancelled one keeps
\* no cash and no line of a remittance.
THEOREM DueDatesStayConsistent == Spec => []DueDatesConsistent
<1>1. TreasuryInv => DueDatesConsistent BY DEF TreasuryInv, DueDatesConsistent
<1> QED BY <1>1, TreasuryAlways, PTL
-----------------------------------------------------------------------------
(***************************************************************************)
(* Banking.  A reconciliation works on what it read when it began: its     *)
(* copy of the reconciliations is a prefix of those there are, in which    *)
(* some may have been undone since.  What it does not see of its movement  *)
(* and of its payments are therefore amounts that were set free, or rows   *)
(* that make the serializable transaction fail.                            *)
(***************************************************************************)
Movement == [account : BankAccounts, amount : Int, statement : Nat,
             number : MovementNumbers \cup {Unnumbered}]
Statement == [account : BankAccounts, from : Int, to : Int, opening : Int, closing : Int]
Reconciliation ==
    [movement : Nat, applied : Applications, status : {"ACTIVE", "UNDONE"}]
Reading == [at : {"READ"}, movement : Nat, applied : Applications,
            reconciliations : Seq(Reconciliation), returned : [Collections -> Nat]]

BankingTypes ==
    /\ movements \in Seq(Movement)
    /\ statements \in Seq(Statement)
    /\ reconciliations \in Seq(Reconciliation)
    /\ returned \in [Collections -> Nat]
    /\ reconciler \in [Reconcilers -> Reading \cup {NotReconciling}]
    /\ unseen \subseteq Collections

\* Rows that were there before: the same, but that some are no longer active.
Earlier(ss, rs) ==
    /\ Len(ss) <= Len(rs)
    /\ \A j \in 1..Len(ss) :
         /\ ss[j].movement = rs[j].movement /\ ss[j].applied = rs[j].applied
         /\ rs[j].status = "ACTIVE" => ss[j].status = "ACTIVE"

ReadingsInv ==
    \A q \in Reconcilers : reconciler[q].at = "READ" =>
        /\ reconciler[q].movement \in 1..Len(movements)
        /\ Earlier(reconciler[q].reconciliations, reconciliations)

BankRefsInv ==
    /\ \A j \in 1..Len(reconciliations) : reconciliations[j].movement \in 1..Len(movements)
    /\ \A k \in 1..Len(movements) : movements[k].statement <= Len(statements)

BankingInv ==
    BankingTypes /\ BankRefsInv /\ ReadingsInv /\ ReconciledOnce /\ StatementsAddUp

\* What may be applied of payments, and its sum.
LEMMA ApplicationIs ==
    ASSUME NEW a \in Applications
    PROVE  /\ DOMAIN a \subseteq Collections /\ IsFiniteSet(DOMAIN a)
           /\ \A x \in DOMAIN a : a[x] \in Nat
           /\ SumFunction(a) \in Nat
<1>1. PICK cs \in SUBSET Collections : a \in [cs -> UNION {1..PaidIn[x] : x \in cs}]
  BY DEF Applications
<1>2. ASSUME NEW y \in UNION {1..PaidIn[x] : x \in cs} PROVE y \in Nat
  <2>1. PICK x \in cs : y \in 1..PaidIn[x] BY <1>2
  <2> QED BY <2>1
<1>3. DOMAIN a = cs /\ \A x \in cs : a[x] \in Nat BY <1>1, <1>2
<1>4. IsFiniteSet(cs) BY <1>1, FS_Subset, BankingAssumption DEF BankingAssumption
<1>5. SumFunctionOnSet(a, cs) \in Nat BY <1>3, <1>4, SumType
<1> QED BY <1>1, <1>3, <1>4, <1>5, SumFunctionIs

\* What each row takes of a movement, of a payment.
ToMovement(m, r) ==
    IF r.status = "ACTIVE" /\ r.movement = m THEN SumFunction(r.applied) ELSE 0
OfPayment(x, r) ==
    IF r.status = "ACTIVE" /\ x \in DOMAIN r.applied THEN r.applied[x] ELSE 0

\* A row takes natural numbers.
LEMMA RowTakes ==
    ASSUME NEW r \in Reconciliation
    PROVE  \A m : ToMovement(m, r) \in Nat /\ OfPayment(m, r) \in Nat
<1>1. r.applied \in Applications BY DEF Reconciliation
<1>2. /\ SumFunction(r.applied) \in Nat
      /\ \A x \in DOMAIN r.applied : r.applied[x] \in Nat
  BY <1>1, ApplicationIs
<1> QED BY <1>2 DEF ToMovement, OfPayment

\* A column of what the rows take, and its sum.
LEMMA TakenIs ==
    ASSUME NEW rs \in Seq(Reconciliation), NEW m
    PROVE  /\ [j \in DOMAIN rs |-> ToMovement(m, rs[j])] \in Seq(Nat)
           /\ [j \in DOMAIN rs |-> OfPayment(m, rs[j])] \in Seq(Nat)
           /\ AppliedTo(m, rs) = SumFunction([j \in DOMAIN rs |-> ToMovement(m, rs[j])])
           /\ AppliedOf(m, rs) = SumFunction([j \in DOMAIN rs |-> OfPayment(m, rs[j])])
<1>1. DOMAIN rs = 1..Len(rs) /\ \A j \in DOMAIN rs : rs[j] \in Reconciliation OBVIOUS
<1>2. \A j \in DOMAIN rs : ToMovement(m, rs[j]) \in Nat /\ OfPayment(m, rs[j]) \in Nat
  BY <1>1, RowTakes
<1>3. [j \in DOMAIN rs |-> ToMovement(m, rs[j])] \in Seq(Nat) BY <1>1, <1>2
<1>4. [j \in DOMAIN rs |-> OfPayment(m, rs[j])] \in Seq(Nat) BY <1>1, <1>2
<1> QED BY <1>3, <1>4 DEF AppliedTo, AppliedOf, ToMovement, OfPayment

\* A sum of natural numbers is one.
LEMMA SumNat ==
    ASSUME NEW s \in Seq(Nat)
    PROVE  SumFunction(s) \in Nat
<1>1. DOMAIN s = 1..Len(s) /\ \A j \in 1..Len(s) : s[j] \in Nat OBVIOUS
<1>2. IsFiniteSet(1..Len(s)) BY TermsFinite
<1> QED BY <1>1, <1>2, SumType, SumFunctionIs

\* What is taken is a natural number.
LEMMA TakenType ==
    ASSUME NEW rs \in Seq(Reconciliation), NEW m
    PROVE  AppliedTo(m, rs) \in Nat /\ AppliedOf(m, rs) \in Nat
BY TakenIs, SumNat

\* What one more row takes.
LEMMA OneMoreTaken ==
    ASSUME NEW rs \in Seq(Reconciliation), NEW r \in Reconciliation, NEW m
    PROVE  /\ AppliedTo(m, Append(rs, r)) = AppliedTo(m, rs) + ToMovement(m, r)
           /\ AppliedOf(m, Append(rs, r)) = AppliedOf(m, rs) + OfPayment(m, r)
<1>1. PICK rs2 : rs2 = Append(rs, r) OBVIOUS
<1>2. rs2 \in Seq(Reconciliation) /\ DOMAIN rs2 = 1..(Len(rs) + 1) /\ DOMAIN rs = 1..Len(rs)
  BY <1>1
<1>3. rs2[Len(rs) + 1] = r /\ \A j \in 1..Len(rs) : rs2[j] = rs[j] BY <1>1
<1>4. PICK s : s = [j \in DOMAIN rs |-> ToMovement(m, rs[j])] OBVIOUS
<1>5. PICK p : p = [j \in DOMAIN rs |-> OfPayment(m, rs[j])] OBVIOUS
<1>6. s \in Seq(Nat) /\ p \in Seq(Nat) BY <1>4, <1>5, TakenIs
<1>7. ToMovement(m, r) \in Int /\ OfPayment(m, r) \in Int BY RowTakes
<1>8. s \in Seq(Int) /\ p \in Seq(Int) /\ Len(s) = Len(rs) /\ Len(p) = Len(rs)
  BY <1>2, <1>4, <1>5, <1>6
<1>9. [j \in DOMAIN rs2 |-> ToMovement(m, rs2[j])] = Append(s, ToMovement(m, r))
  BY <1>2, <1>3, <1>4, <1>8
<1>10. [j \in DOMAIN rs2 |-> OfPayment(m, rs2[j])] = Append(p, OfPayment(m, r))
  BY <1>2, <1>3, <1>5, <1>8
<1>11. SumFunction(Append(s, ToMovement(m, r))) = SumFunction(s) + ToMovement(m, r)
  BY <1>7, <1>8, SumAppend
<1>12. SumFunction(Append(p, OfPayment(m, r))) = SumFunction(p) + OfPayment(m, r)
  BY <1>7, <1>8, SumAppend
<1>13. AppliedTo(m, rs2) = SumFunction(Append(s, ToMovement(m, r)))
  BY <1>2, <1>9, TakenIs
<1>14. AppliedOf(m, rs2) = SumFunction(Append(p, OfPayment(m, r)))
  BY <1>2, <1>10, TakenIs
<1>15. AppliedTo(m, rs) = SumFunction(s) /\ AppliedOf(m, rs) = SumFunction(p)
  BY <1>4, <1>5, TakenIs
<1> QED BY <1>1, <1>11, <1>12, <1>13, <1>14, <1>15

\* A column is not more than an earlier one, when what came since takes nothing.
LEMMA ColumnShrinks ==
    ASSUME NEW s \in Seq(Nat), NEW p \in Seq(Nat), Len(s) <= Len(p),
           \A j \in 1..Len(s) : p[j] <= s[j],
           \A j \in (Len(s) + 1)..Len(p) : p[j] = 0
    PROVE  SumFunction(p) <= SumFunction(s)
<1>1. PICK n \in Nat : n = Len(s) OBVIOUS
<1>2. PICK l \in Nat : l = Len(p) /\ n <= l BY <1>1
<1>3. PICK A : A = 1..n OBVIOUS
<1>4. PICK B : B = 1..l OBVIOUS
<1>5. IsFiniteSet(B) /\ IsFiniteSet(A) /\ A \in SUBSET B BY <1>2, <1>3, <1>4, TermsFinite
<1>6. \A j \in B : p[j] \in Int /\ (j \in B \ A => p[j] = 0) BY <1>1, <1>2, <1>3, <1>4
<1>7. SumFunctionOnSet(p, B) = SumFunctionOnSet(p, A) BY <1>5, <1>6, SumOfPart
<1>8. \A j \in A : p[j] \in Int /\ s[j] \in Int /\ p[j] <= s[j]
  BY <1>1, <1>2, <1>3
<1>9. SumFunctionOnSet(p, A) <= SumFunctionOnSet(s, A) BY <1>5, <1>8, SumCompares
<1>10. DOMAIN p = B /\ DOMAIN s = A BY <1>1, <1>2, <1>3, <1>4
<1> QED BY <1>7, <1>9, <1>10, SumFunctionIs

\* No more is taken of a movement, or a payment, than some earlier rows took of it,
\* when those that came since are of others.
LEMMA TakenShrinks ==
    ASSUME NEW ss \in Seq(Reconciliation), NEW rs \in Seq(Reconciliation), Earlier(ss, rs),
           NEW m
    PROVE  /\ (\A j \in (Len(ss) + 1)..Len(rs) : rs[j].movement # m) =>
                AppliedTo(m, rs) <= AppliedTo(m, ss)
           /\ (\A j \in (Len(ss) + 1)..Len(rs) : m \notin DOMAIN rs[j].applied) =>
                AppliedOf(m, rs) <= AppliedOf(m, ss)
<1>1. /\ Len(ss) \in Nat /\ Len(rs) \in Nat /\ Len(ss) <= Len(rs)
      /\ DOMAIN ss = 1..Len(ss) /\ DOMAIN rs = 1..Len(rs)
  BY DEF Earlier
<1>2. \A j \in 1..Len(ss) : ss[j] \in Reconciliation /\ rs[j] \in Reconciliation BY <1>1
<1>3. ASSUME NEW j \in 1..Len(ss)
      PROVE  ToMovement(m, rs[j]) <= ToMovement(m, ss[j])
             /\ OfPayment(m, rs[j]) <= OfPayment(m, ss[j])
  <2>1. /\ ss[j].movement = rs[j].movement /\ ss[j].applied = rs[j].applied
        /\ rs[j].status = "ACTIVE" => ss[j].status = "ACTIVE"
    BY <1>3 DEF Earlier
  <2>2. ToMovement(m, ss[j]) \in Nat /\ OfPayment(m, ss[j]) \in Nat BY <1>2, <1>3, RowTakes
  <2>3. ToMovement(m, rs[j]) \in {0, ToMovement(m, ss[j])} BY <2>1 DEF ToMovement
  <2>4. OfPayment(m, rs[j]) \in {0, OfPayment(m, ss[j])} BY <2>1 DEF OfPayment
  <2> QED BY <2>2, <2>3, <2>4
<1>4. PICK f : f = [j \in DOMAIN ss |-> ToMovement(m, ss[j])] OBVIOUS
<1>5. PICK g : g = [j \in DOMAIN rs |-> ToMovement(m, rs[j])] OBVIOUS
<1>6. PICK h : h = [j \in DOMAIN ss |-> OfPayment(m, ss[j])] OBVIOUS
<1>7. PICK k : k = [j \in DOMAIN rs |-> OfPayment(m, rs[j])] OBVIOUS
<1>8. f \in Seq(Nat) /\ g \in Seq(Nat) /\ h \in Seq(Nat) /\ k \in Seq(Nat)
  BY <1>4, <1>5, <1>6, <1>7, TakenIs
<1>9. Len(f) = Len(ss) /\ Len(g) = Len(rs) /\ Len(h) = Len(ss) /\ Len(k) = Len(rs)
  BY <1>1, <1>4, <1>5, <1>6, <1>7, <1>8
<1>10. \A j \in 1..Len(f) : g[j] <= f[j] /\ k[j] <= h[j]
  BY <1>1, <1>3, <1>4, <1>5, <1>6, <1>7, <1>9
<1>11. ASSUME \A j \in (Len(ss) + 1)..Len(rs) : rs[j].movement # m
       PROVE  AppliedTo(m, rs) <= AppliedTo(m, ss)
  <2>1. \A j \in (Len(f) + 1)..Len(g) : g[j] = 0
    BY <1>1, <1>5, <1>9, <1>11 DEF ToMovement
  <2>2. SumFunction(g) <= SumFunction(f) BY <1>1, <1>8, <1>9, <1>10, <2>1, ColumnShrinks
  <2> QED BY <1>4, <1>5, <2>2, TakenIs
<1>12. ASSUME \A j \in (Len(ss) + 1)..Len(rs) : m \notin DOMAIN rs[j].applied
       PROVE  AppliedOf(m, rs) <= AppliedOf(m, ss)
  <2>1. \A j \in (Len(h) + 1)..Len(k) : k[j] = 0
    BY <1>1, <1>7, <1>9, <1>12 DEF OfPayment
  <2>2. SumFunction(k) <= SumFunction(h) BY <1>1, <1>8, <1>9, <1>10, <2>1, ColumnShrinks
  <2> QED BY <1>6, <1>7, <2>2, TakenIs
<1> QED BY <1>11, <1>12

\* Without a row there is nothing applied.
LEMMA NothingTaken ==
    ASSUME NEW rs \in Seq(Reconciliation), NEW m,
           \A j \in 1..Len(rs) : rs[j].movement # m
    PROVE  AppliedTo(m, rs) = 0
<1>1. PICK s : s = [j \in DOMAIN rs |-> ToMovement(m, rs[j])] OBVIOUS
<1>2. DOMAIN s = 1..Len(rs) /\ \A j \in 1..Len(rs) : s[j] = 0 BY <1>1 DEF ToMovement
<1>3. IsFiniteSet(1..Len(rs)) BY TermsFinite
<1>4. SumFunctionOnSet(s, 1..Len(rs)) = 0 BY <1>2, <1>3, SumOfZeros
<1> QED BY <1>1, <1>2, <1>4, TakenIs, SumFunctionIs

\* What movements add to a statement.
OfStatement(j, k) == IF k.statement = j THEN k.amount ELSE 0

\* A column of them, and its sum.
LEMMA AmountIs ==
    ASSUME NEW ms \in Seq(Movement), NEW j
    PROVE  /\ [k \in DOMAIN ms |-> OfStatement(j, ms[k])] \in Seq(Int)
           /\ AmountOf(j, ms) = SumFunction([k \in DOMAIN ms |-> OfStatement(j, ms[k])])
<1>1. \A k \in DOMAIN ms : ms[k] \in Movement OBVIOUS
<1>2. \A k \in DOMAIN ms : OfStatement(j, ms[k]) \in Int BY <1>1 DEF OfStatement, Movement
<1>3. [k \in DOMAIN ms |-> OfStatement(j, ms[k])] \in Seq(Int) BY <1>2
<1> QED BY <1>3 DEF AmountOf, OfStatement

\* A sum of integers is one.
LEMMA SumInt ==
    ASSUME NEW s \in Seq(Int)
    PROVE  SumFunction(s) \in Int
<1>1. DOMAIN s = 1..Len(s) /\ \A j \in 1..Len(s) : s[j] \in Int OBVIOUS
<1>2. IsFiniteSet(1..Len(s)) BY TermsFinite
<1> QED BY <1>1, <1>2, SumType, SumFunctionIs

\* The amounts of movements after others.
LEMMA AmountsAdd ==
    ASSUME NEW ms \in Seq(Movement), NEW ns \in Seq(Movement), NEW j
    PROVE  AmountOf(j, ms \o ns) = AmountOf(j, ms) + AmountOf(j, ns)
<1>1. PICK s : s = [k \in DOMAIN ms |-> OfStatement(j, ms[k])] OBVIOUS
<1>2. PICK p : p = [k \in DOMAIN ns |-> OfStatement(j, ns[k])] OBVIOUS
<1>3. s \in Seq(Int) /\ p \in Seq(Int) BY <1>1, <1>2, AmountIs
<1>4. PICK cs : cs = ms \o ns OBVIOUS
<1>5. cs \in Seq(Movement) BY <1>4
<1>6. [k \in DOMAIN cs |-> OfStatement(j, cs[k])] = s \o p
  <2>1. PICK n \in Nat : n = Len(ms) OBVIOUS
  <2>2. PICK l \in Nat : l = Len(ns) OBVIOUS
  <2>3. Len(s) = n /\ Len(p) = l BY <1>1, <1>2, <1>3, <2>1, <2>2
  <2>4. DOMAIN cs = 1..(n + l)
    <3>1. Len(cs) = n + l BY <1>4, <2>1, <2>2
    <3> QED BY <1>5, <3>1
  <2>5. PICK c : c = s \o p OBVIOUS
  <2>6. c \in Seq(Int) /\ DOMAIN c = 1..(n + l)
    <3>1. c \in Seq(Int) BY <1>3, <2>5
    <3>2. Len(s \o p) = Len(s) + Len(p) BY <1>3
    <3>3. Len(c) = n + l BY <2>3, <2>5, <3>2
    <3> QED BY <3>1, <3>3
  <2>7. ASSUME NEW k \in 1..(n + l) PROVE OfStatement(j, cs[k]) = c[k]
    <3>1. CASE k <= n
      <4>1. cs[k] = ms[k] /\ c[k] = s[k] /\ k \in DOMAIN ms
        BY <1>3, <1>4, <2>1, <2>3, <2>5, <2>7, <3>1
      <4> QED BY <1>1, <4>1
    <3>2. CASE k > n
      <4>1. PICK i \in 1..l : i = k - n BY <2>7, <3>2
      <4>2. cs[k] = ns[i] /\ c[k] = p[i] /\ i \in DOMAIN ns
        BY <1>3, <1>4, <2>1, <2>2, <2>3, <2>5, <2>7, <3>2, <4>1
      <4> QED BY <1>2, <4>2
    <3> QED BY <2>1, <2>7, <3>1, <3>2
  <2>8. c = [k \in 1..(n + l) |-> c[k]] BY <2>6
  <2> QED BY <2>4, <2>5, <2>7, <2>8
<1>7. SumFunction(s \o p) = SumFunction(s) + SumFunction(p) BY <1>3, SumConcat
<1>8. AmountOf(j, cs) = SumFunction(s \o p) BY <1>5, <1>6, AmountIs
<1>9. AmountOf(j, ms) = SumFunction(s) /\ AmountOf(j, ns) = SumFunction(p)
  BY <1>1, <1>2, AmountIs
<1> QED BY <1>4, <1>7, <1>8, <1>9

\* Movements of other statements add nothing.
LEMMA AmountOfOthers ==
    ASSUME NEW ms \in Seq(Movement), NEW j, \A k \in DOMAIN ms : ms[k].statement # j
    PROVE  AmountOf(j, ms) = 0
<1>1. PICK s : s = [k \in DOMAIN ms |-> OfStatement(j, ms[k])] OBVIOUS
<1>2. DOMAIN s = 1..Len(ms) /\ \A k \in 1..Len(ms) : s[k] = 0 BY <1>1 DEF OfStatement
<1>3. IsFiniteSet(1..Len(ms)) BY TermsFinite
<1>4. SumFunctionOnSet(s, 1..Len(ms)) = 0 BY <1>2, <1>3, SumOfZeros
<1> QED BY <1>1, <1>2, <1>4, AmountIs, SumFunctionIs
-----------------------------------------------------------------------------
\* A request that has read says so.
LEMMA ReadingIs ==
    ASSUME BankingTypes, NEW q \in Reconcilers, reconciler[q].at = "READ"
    PROVE  reconciler[q] \in Reading
BY DEF BankingTypes, NotReconciling, Reading

\* What was read of earlier rows was read of later ones.
LEMMA EarlierThen ==
    ASSUME NEW ss \in Seq(Reconciliation), NEW rs \in Seq(Reconciliation),
           NEW ts \in Seq(Reconciliation), Earlier(ss, rs), Earlier(rs, ts)
    PROVE  Earlier(ss, ts)
BY DEF Earlier

\* The readings go on being of what was there, whatever is added or undone.
LEMMA ReadingsStay ==
    ASSUME BankingTypes, ReadingsInv, reconciliations' \in Seq(Reconciliation),
           Earlier(reconciliations, reconciliations'), movements' \in Seq(Movement),
           Len(movements) <= Len(movements'),
           \A q \in Reconcilers : reconciler'[q] \in {reconciler[q], NotReconciling}
    PROVE  ReadingsInv'
<1>1. SUFFICES ASSUME NEW q \in Reconcilers, reconciler'[q].at = "READ"
               PROVE  /\ reconciler'[q].movement \in 1..Len(movements')
                      /\ Earlier(reconciler'[q].reconciliations, reconciliations')
  BY DEF ReadingsInv, Earlier
<1>2. reconciler'[q] = reconciler[q] BY <1>1 DEF NotReconciling
<1>3. PICK s : s = reconciler[q] OBVIOUS
<1>4. s \in Reading /\ s.at = "READ" BY <1>1, <1>2, <1>3, ReadingIs
<1>5. s.reconciliations \in Seq(Reconciliation) BY <1>4 DEF Reading
<1>6. s.movement \in 1..Len(movements) /\ Earlier(s.reconciliations, reconciliations)
  BY <1>3, <1>4 DEF ReadingsInv
<1>7. reconciliations \in Seq(Reconciliation) BY DEF BankingTypes
<1>8. Earlier(s.reconciliations, reconciliations') BY <1>5, <1>6, <1>7, EarlierThen
<1>9. s.movement \in 1..Len(movements')
  <2>1. Len(movements) \in Nat /\ Len(movements') \in Nat BY DEF BankingTypes
  <2> QED BY <1>6, <2>1
<1> QED BY <1>2, <1>3, <1>8, <1>9

\* A movement entered by hand.
LEMMA MovementKeeps ==
    ASSUME BankingInv, NEW a \in BankAccounts, NEW x \in Entered,
           NEW n \in MovementNumbers \cup {Unnumbered}, CreateBankMovement(a, x, n)
    PROVE  BankingInv'
<1>1. PICK r : r = [account |-> a, amount |-> x, number |-> n, statement |-> 0] OBVIOUS
<1>2. r \in Movement BY <1>1, BankingAssumption DEF Movement, BankingAssumption
<1>3. movements' = Append(movements, r) BY <1>1 DEF CreateBankMovement
<1>4. UNCHANGED <<statements, reconciliations, returned, reconciler, unseen>>
  BY DEF CreateBankMovement
<1>5. BankingTypes BY DEF BankingInv
<1>6. movements \in Seq(Movement) /\ movements' \in Seq(Movement)
  BY <1>2, <1>3, <1>5 DEF BankingTypes
<1>7. /\ Len(movements') = Len(movements) + 1 /\ Len(movements) \in Nat
      /\ \A k \in 1..Len(movements) : movements'[k] = movements[k]
      /\ movements'[Len(movements) + 1] = r
  BY <1>3, <1>6
<1>8. BankingTypes' BY <1>4, <1>5, <1>6 DEF BankingTypes
<1>9. statements \in Seq(Statement) /\ reconciliations \in Seq(Reconciliation)
  BY <1>5 DEF BankingTypes
<1>10. BankRefsInv'
  <2>1. \A j \in 1..Len(reconciliations) :
          reconciliations[j].movement \in 1..Len(movements')
    BY <1>7 DEF BankingInv, BankRefsInv
  <2>2. r.statement = 0 /\ Len(statements) \in Nat BY <1>1, <1>9
  <2>3. \A k \in 1..Len(movements') : movements'[k].statement <= Len(statements)
    BY <1>7, <2>2 DEF BankingInv, BankRefsInv
  <2> QED BY <1>4, <2>1, <2>3 DEF BankRefsInv
<1>11. ReadingsInv'
  <2>1. Earlier(reconciliations, reconciliations') BY <1>4, <1>9 DEF Earlier
  <2> QED BY <1>4, <1>5, <1>6, <1>7, <1>9, <2>1, ReadingsStay DEF BankingInv
<1>12. ReconciledOnce'
  <2>1. ASSUME NEW m \in 1..Len(movements')
        PROVE  AppliedTo(m, reconciliations) <=
                 IF movements'[m].amount > 0 THEN movements'[m].amount ELSE 0
    <3>1. CASE m \in 1..Len(movements)
      <4>1. DOMAIN movements = 1..Len(movements) BY <1>6
      <4> QED BY <1>7, <3>1, <4>1 DEF BankingInv, ReconciledOnce
    <3>2. CASE m = Len(movements) + 1
      <4>1. \A j \in 1..Len(reconciliations) : reconciliations[j].movement # m
        BY <1>7, <3>2 DEF BankingInv, BankRefsInv
      <4>2. AppliedTo(m, reconciliations) = 0 BY <1>9, <4>1, NothingTaken
      <4>3. movements'[m] \in Movement BY <1>6, <2>1
      <4>5. movements'[m].amount \in Int BY <4>3 DEF Movement
      <4> QED BY <4>2, <4>5
    <3> QED BY <1>7, <2>1, <3>1, <3>2
  <2>2. DOMAIN movements' = 1..Len(movements') BY <1>6
  <2> QED BY <1>4, <2>1, <2>2 DEF BankingInv, ReconciledOnce
<1>13. StatementsAddUp'
  <2>1. ASSUME NEW j \in DOMAIN statements
        PROVE  AmountOf(j, movements') = AmountOf(j, movements)
    <3>1. <<r>> \in Seq(Movement) BY <1>2
    <3>2. movements' = movements \o <<r>> BY <1>3, <1>6
    <3>3. \A k \in DOMAIN <<r>> : <<r>>[k].statement # j BY <1>1, <1>9, <2>1
    <3>4. AmountOf(j, <<r>>) = 0 BY <3>1, <3>3, AmountOfOthers
    <3>5. AmountOf(j, movements) \in Int BY <1>6, AmountIs, SumInt
    <3>6. AmountOf(j, movements') = AmountOf(j, movements) + AmountOf(j, <<r>>)
      BY <1>6, <3>1, <3>2, AmountsAdd
    <3> QED BY <3>4, <3>5, <3>6
  <2> QED BY <1>4, <2>1 DEF BankingInv, StatementsAddUp
<1> QED BY <1>8, <1>10, <1>11, <1>12, <1>13 DEF BankingInv

\* What movements of a file amount to: its credits and its debits.
LEMMA CreditsAndDebits ==
    ASSUME NEW f \in Files
    PROVE  /\ Moved(f) \in Seq(MovementRecord)
           /\ SumOf(f, DOMAIN Moved(f)) = SumOf(f, CreditsOf(f)) + SumOf(f, DebitsOf(f))
           /\ SumOf(f, CreditsOf(f)) \in Int /\ SumOf(f, DebitsOf(f)) \in Int
<1>1. PICK s : s = Moved(f) OBVIOUS
<1>2. s \in Seq(MovementRecord) BY <1>1, BankingAssumption DEF BankingAssumption
<1>3. DOMAIN s = 1..Len(s) /\ \A k \in DOMAIN s : s[k].amount \in Int
  <2>1. DOMAIN s = 1..Len(s) /\ \A k \in DOMAIN s : s[k] \in MovementRecord BY <1>2
  <2> QED BY <2>1 DEF MovementRecord
<1>4. IsFiniteSet(DOMAIN s) BY <1>2, <1>3, TermsFinite
<1>5. PICK g : g = [k \in DOMAIN s |-> s[k].amount] OBVIOUS
<1>6. PICK C : C = {k \in DOMAIN s : s[k].amount > 0} OBVIOUS
<1>7. PICK D : D = {k \in DOMAIN s : s[k].amount < 0} OBVIOUS
<1>8. \A k \in DOMAIN s : g[k] \in Int BY <1>3, <1>5
<1>9. C \cup D \in SUBSET DOMAIN s /\ C \cap D = {} BY <1>3, <1>6, <1>7
<1>10. IsFiniteSet(C) /\ IsFiniteSet(D) BY <1>4, <1>6, <1>7, FS_Subset
<1>11. \A k \in DOMAIN s \ (C \cup D) : g[k] = 0 BY <1>3, <1>5, <1>6, <1>7
<1>12. SumFunctionOnSet(g, DOMAIN s) = SumFunctionOnSet(g, C \cup D)
  BY <1>4, <1>8, <1>9, <1>11, SumOfPart
<1>13. \A k \in C \cup D : g[k] \in Int BY <1>8, <1>9
<1>14. SumFunctionOnSet(g, C \cup D) = SumFunctionOnSet(g, C) + SumFunctionOnSet(g, D)
  BY <1>9, <1>10, <1>13, SumSplits
<1>15. SumFunctionOnSet(g, C) \in Int /\ SumFunctionOnSet(g, D) \in Int
  BY <1>10, <1>13, SumType
<1>16. ASSUME NEW js \in SUBSET DOMAIN s PROVE SumOf(f, js) = SumFunctionOnSet(g, js)
  <2>1. PICK h : h = [k \in js |-> s[k].amount] OBVIOUS
  <2>2. SumOf(f, js) = SumFunctionOnSet(h, js) BY <1>1, <2>1, SumFunctionIs DEF SumOf
  <2>3. \A k \in js : h[k] = g[k] BY <1>5, <1>16, <2>1
  <2>4. IsFiniteSet(js) BY <1>4, <1>16, FS_Subset
  <2> QED BY <2>2, <2>3, <2>4, SumAgrees
<1>17. CreditsOf(f) = C /\ DebitsOf(f) = D BY <1>1, <1>6, <1>7 DEF CreditsOf, DebitsOf
<1>18. /\ SumOf(f, DOMAIN s) = SumFunctionOnSet(g, DOMAIN s)
       /\ SumOf(f, C) = SumFunctionOnSet(g, C) /\ SumOf(f, D) = SumFunctionOnSet(g, D)
  BY <1>9, <1>16
<1> QED BY <1>1, <1>2, <1>12, <1>14, <1>15, <1>17, <1>18

\* The movements that a file brings, and its statement.
Brought(a, f) ==
    [k \in DOMAIN Moved(f) |->
        [account |-> a, amount |-> Moved(f)[k].amount, number |-> Unnumbered,
         statement |-> Len(statements) + 1]]
StatementOf(a, f) ==
    [account |-> a, from |-> f.from, to |-> f.to, opening |-> f.opening,
     closing |-> f.body[Len(f.body)].balance]

\* They lead from the first balance of the file to its last.
LEMMA BroughtIs ==
    ASSUME BankingTypes, NEW a \in BankAccounts, NEW f \in Files, Squares(f)
    PROVE  /\ Brought(a, f) \in Seq(Movement)
           /\ \A k \in DOMAIN Brought(a, f) :
                Brought(a, f)[k].statement = Len(statements) + 1
           /\ AmountOf(Len(statements) + 1, Brought(a, f)) \in Int
           /\ f.opening + AmountOf(Len(statements) + 1, Brought(a, f)) =
                f.body[Len(f.body)].balance
           /\ StatementOf(a, f) \in Statement
<1>1. PICK n : n = Len(statements) + 1 OBVIOUS
<1>2. n \in Nat BY <1>1 DEF BankingTypes
<1>3. PICK s : s = Moved(f) OBVIOUS
<1>4. s \in Seq(MovementRecord) BY <1>3, CreditsAndDebits
<1>5. DOMAIN s = 1..Len(s) /\ \A k \in DOMAIN s : s[k].amount \in Int
  <2>1. DOMAIN s = 1..Len(s) /\ \A k \in DOMAIN s : s[k] \in MovementRecord BY <1>4
  <2> QED BY <2>1 DEF MovementRecord
<1>6. PICK bs : bs = [k \in DOMAIN s |->
        [account |-> a, amount |-> s[k].amount, number |-> Unnumbered, statement |-> n]]
  OBVIOUS
<1>7. bs = Brought(a, f) BY <1>1, <1>3, <1>6 DEF Brought
<1>8. \A k \in DOMAIN s : bs[k] \in Movement BY <1>2, <1>5, <1>6 DEF Movement
<1>9. bs \in Seq(Movement) /\ DOMAIN bs = DOMAIN s BY <1>5, <1>6, <1>8
<1>10. \A k \in DOMAIN bs : bs[k].statement = n BY <1>6
<1>11. AmountOf(n, bs) = SumOf(f, DOMAIN s)
  <2>1. [k \in DOMAIN bs |-> OfStatement(n, bs[k])] = [k \in DOMAIN s |-> s[k].amount]
    BY <1>6 DEF OfStatement
  <2>2. AmountOf(n, bs) = SumFunction([k \in DOMAIN bs |-> OfStatement(n, bs[k])])
    BY <1>9, AmountIs
  <2> QED BY <1>3, <2>1, <2>2 DEF SumOf
<1>12. PICK closing : closing = f.body[Len(f.body)] OBVIOUS
<1>13. PICK x : x = SumOf(f, CreditsOf(f)) OBVIOUS
<1>14. PICK y : y = SumOf(f, DebitsOf(f)) OBVIOUS
<1>15. /\ closing.credits.total = x /\ closing.debits.total = - y
       /\ f.opening + closing.credits.total - closing.debits.total = closing.balance
  BY <1>12, <1>13, <1>14 DEF Squares
<1>16. x \in Int /\ y \in Int /\ SumOf(f, DOMAIN s) = x + y
  BY <1>3, <1>13, <1>14, CreditsAndDebits
<1>17. f.opening \in Int /\ f.from \in Int /\ f.to \in Int
  BY BankingAssumption DEF BankingAssumption
<1>18. closing.balance \in Int /\ f.opening + AmountOf(n, bs) = closing.balance
  BY <1>11, <1>15, <1>16, <1>17
<1>19. StatementOf(a, f) \in Statement BY <1>12, <1>17, <1>18 DEF StatementOf, Statement
<1>20. AmountOf(n, bs) \in Int BY <1>11, <1>16
<1> QED BY <1>1, <1>7, <1>9, <1>10, <1>12, <1>18, <1>19, <1>20

\* A statement and its movements.
LEMMA ImportKeeps ==
    ASSUME BankingInv, NEW a \in BankAccounts, NEW f \in Files, ImportStatement(a, f)
    PROVE  BankingInv'
<1>1. PICK bs : bs = Brought(a, f) OBVIOUS
<1>2. PICK r : r = StatementOf(a, f) OBVIOUS
<1>3. PICK n : n = Len(statements) + 1 OBVIOUS
<1>4. BankingTypes /\ Squares(f) /\ ~ Overlapping(a, f.from, f.to)
  BY DEF BankingInv, ImportStatement
<1>5. /\ movements \in Seq(Movement) /\ statements \in Seq(Statement)
      /\ reconciliations \in Seq(Reconciliation)
  BY <1>4 DEF BankingTypes
<1>6. /\ bs \in Seq(Movement) /\ r \in Statement
      /\ \A k \in DOMAIN bs : bs[k].statement = n
      /\ AmountOf(n, bs) \in Int
      /\ f.opening + AmountOf(n, bs) = f.body[Len(f.body)].balance
  BY <1>1, <1>2, <1>3, <1>4, BroughtIs
<1>7. /\ r.account = a /\ r.from = f.from /\ r.to = f.to /\ r.opening = f.opening
      /\ r.closing = f.body[Len(f.body)].balance
  BY <1>2 DEF StatementOf
<1>8. statements' = Append(statements, r) /\ movements' = movements \o bs
  BY <1>1, <1>2 DEF ImportStatement, Brought, StatementOf
<1>9. UNCHANGED <<reconciliations, returned, reconciler, unseen>> BY DEF ImportStatement
<1>10. movements' \in Seq(Movement) /\ statements' \in Seq(Statement) BY <1>5, <1>6, <1>8
<1>11. PICK l \in Nat : l = Len(movements) BY <1>5
<1>12. /\ Len(movements') = l + Len(bs) /\ Len(bs) \in Nat
       /\ \A k \in 1..l : movements'[k] = movements[k]
       /\ \A k \in 1..Len(bs) : movements'[l + k] = bs[k]
  BY <1>5, <1>6, <1>8, <1>11
<1>13. /\ Len(statements') = n /\ n \in Nat \ {0} /\ n - 1 = Len(statements)
       /\ \A j \in 1..(n - 1) : statements'[j] = statements[j]
       /\ statements'[n] = r
  BY <1>3, <1>5, <1>6, <1>8
<1>14. ASSUME NEW k \in 1..Len(movements'), k \notin 1..l
       PROVE  movements'[k].statement = n /\ k > l
  <2>1. PICK i \in 1..Len(bs) : i = k - l /\ k = l + i /\ k > l BY <1>12, <1>14
  <2>2. i \in DOMAIN bs BY <1>6
  <2> QED BY <1>6, <1>12, <2>1, <2>2
<1>15. BankingTypes' BY <1>4, <1>9, <1>10 DEF BankingTypes
<1>16. BankRefsInv'
  <2>1. \A j \in 1..Len(reconciliations) :
          reconciliations[j].movement \in 1..Len(movements')
    BY <1>11, <1>12 DEF BankingInv, BankRefsInv
  <2>2. ASSUME NEW k \in 1..Len(movements') PROVE movements'[k].statement <= n
    <3>1. CASE k \in 1..l
      <4>1. movements[k].statement <= Len(statements)
        BY <1>11, <3>1 DEF BankingInv, BankRefsInv
      <4>2. movements[k] \in Movement BY <1>5, <1>11, <3>1
      <4>3. movements[k].statement \in Nat BY <4>2 DEF Movement
      <4> QED BY <1>12, <1>13, <3>1, <4>1, <4>3
    <3>2. CASE k \notin 1..l BY <1>13, <1>14, <2>2, <3>2
    <3> QED BY <3>1, <3>2
  <2> QED BY <1>9, <1>13, <2>1, <2>2 DEF BankRefsInv
<1>17. ReadingsInv'
  <2>1. Earlier(reconciliations, reconciliations') BY <1>5, <1>9 DEF Earlier
  <2>2. Len(movements) <= Len(movements') BY <1>11, <1>12
  <2> QED BY <1>4, <1>5, <1>9, <1>10, <2>1, <2>2, ReadingsStay DEF BankingInv
<1>18. ReconciledOnce'
  <2>1. ASSUME NEW m \in 1..Len(movements')
        PROVE  AppliedTo(m, reconciliations) <=
                 IF movements'[m].amount > 0 THEN movements'[m].amount ELSE 0
    <3>1. CASE m \in 1..l
      <4>1. DOMAIN movements = 1..l BY <1>5, <1>11
      <4> QED BY <1>12, <3>1, <4>1 DEF BankingInv, ReconciledOnce
    <3>2. CASE m \notin 1..l
      <4>1. \A j \in 1..Len(reconciliations) : reconciliations[j].movement # m
        BY <1>11, <3>2 DEF BankingInv, BankRefsInv
      <4>2. AppliedTo(m, reconciliations) = 0 BY <1>5, <4>1, NothingTaken
      <4>3. movements'[m] \in Movement BY <1>10, <2>1
      <4>4. movements'[m].amount \in Int BY <4>3 DEF Movement
      <4> QED BY <4>2, <4>4
    <3> QED BY <3>1, <3>2
  <2>2. DOMAIN movements' = 1..Len(movements') BY <1>10
  <2> QED BY <1>9, <2>1, <2>2 DEF BankingInv, ReconciledOnce
<1>19. StatementsAddUp'
  <2>1. DOMAIN statements = 1..(n - 1) /\ DOMAIN statements' = 1..n
    BY <1>5, <1>10, <1>13
  <2>2. ASSUME NEW j \in 1..(n - 1) PROVE AmountOf(j, movements') = AmountOf(j, movements)
    <3>1. \A k \in DOMAIN bs : bs[k].statement # j BY <1>6, <1>13, <2>2
    <3>2. AmountOf(j, bs) = 0 BY <1>6, <3>1, AmountOfOthers
    <3>3. AmountOf(j, movements) \in Int BY <1>5, AmountIs, SumInt
    <3>4. AmountOf(j, movements') = AmountOf(j, movements) + AmountOf(j, bs)
      BY <1>5, <1>6, <1>8, AmountsAdd
    <3> QED BY <3>2, <3>3, <3>4
  <2>3. AmountOf(n, movements') = AmountOf(n, bs)
    <3>1. \A k \in DOMAIN movements : movements[k].statement # n
      <4>1. ASSUME NEW k \in DOMAIN movements PROVE movements[k].statement # n
        <5>1. k \in 1..Len(movements) /\ movements[k] \in Movement BY <1>5, <4>1
        <5>2. movements[k].statement <= Len(statements) BY <5>1 DEF BankingInv, BankRefsInv
        <5>3. movements[k].statement \in Nat BY <5>1 DEF Movement
        <5> QED BY <1>13, <5>2, <5>3
      <4> QED BY <4>1
    <3>2. AmountOf(n, movements) = 0 BY <1>5, <3>1, AmountOfOthers
    <3>3. AmountOf(n, movements') = AmountOf(n, movements) + AmountOf(n, bs)
      BY <1>5, <1>6, <1>8, AmountsAdd
    <3> QED BY <1>6, <3>2, <3>3
  <2>4. ASSUME NEW j \in 1..n
        PROVE  statements'[j].opening + AmountOf(j, movements') = statements'[j].closing
    <3>1. CASE j = n BY <1>6, <1>7, <1>13, <2>3, <3>1
    <3>2. CASE j # n
      <4>1. j \in 1..(n - 1) BY <1>13, <2>4, <3>2
      <4>2. statements[j].opening + AmountOf(j, movements) = statements[j].closing
        BY <2>1, <4>1 DEF BankingInv, StatementsAddUp
      <4> QED BY <1>13, <2>2, <4>1, <4>2
    <3> QED BY <3>1, <3>2
  <2>5. ASSUME NEW j \in 1..(n - 1), statements[j].account = a
        PROVE  statements[j].to < r.from \/ r.to < statements[j].from
    <3>1. statements[j] \in Statement
      <4>1. j \in DOMAIN statements BY <2>1, <2>5
      <4> QED BY <1>5, <4>1
    <3>2. statements[j].from \in Int /\ statements[j].to \in Int BY <3>1 DEF Statement
    <3>3. f.from \in Int /\ f.to \in Int BY BankingAssumption DEF BankingAssumption
    <3>4. ~ (statements[j].from <= f.to /\ statements[j].to >= f.from)
      BY <1>4, <2>1, <2>5 DEF Overlapping
    <3> QED BY <1>7, <3>2, <3>3, <3>4
  <2>6. ASSUME NEW j \in 1..n, NEW k \in 1..n, j # k,
               statements'[k].account = statements'[j].account
        PROVE  statements'[k].to < statements'[j].from \/ statements'[j].to < statements'[k].from
    <3>1. CASE j = n
      <4>1. k \in 1..(n - 1) BY <1>13, <2>6, <3>1
      <4> QED BY <1>7, <1>13, <2>5, <2>6, <3>1, <4>1
    <3>2. CASE k = n
      <4>1. j \in 1..(n - 1) BY <1>13, <2>6, <3>2
      <4> QED BY <1>7, <1>13, <2>5, <2>6, <3>2, <4>1
    <3>3. CASE j # n /\ k # n
      <4>1. j \in 1..(n - 1) /\ k \in 1..(n - 1) BY <1>13, <2>6, <3>3
      <4> QED BY <1>13, <2>1, <2>6, <4>1 DEF BankingInv, StatementsAddUp
    <3> QED BY <3>1, <3>2, <3>3
  <2> QED BY <2>1, <2>4, <2>6 DEF StatementsAddUp
<1> QED BY <1>15, <1>16, <1>17, <1>18, <1>19 DEF BankingInv

\* What was read can still be taken, unless a return committed since.
LEMMA ReconcileKeeps ==
    ASSUME BankingInv, NEW q \in Reconcilers, ReconcileMovement(q)
    PROVE  BankingInv'
<1>1. PICK s : s = reconciler[q] OBVIOUS
<1>2. s.at = "READ" BY <1>1 DEF ReconcileMovement
<1>3. BankingTypes BY DEF BankingInv
<1>4. s \in Reading BY <1>1, <1>2, <1>3, ReadingIs
<1>5. /\ s.movement \in Nat /\ s.applied \in Applications
      /\ s.reconciliations \in Seq(Reconciliation) /\ s.returned \in [Collections -> Nat]
  BY <1>4 DEF Reading
<1>6. PICK r : r = [movement |-> s.movement, applied |-> s.applied, status |-> "ACTIVE"]
  OBVIOUS
<1>7. r \in Reconciliation /\ r.movement = s.movement /\ r.applied = s.applied
      /\ r.status = "ACTIVE"
  BY <1>5, <1>6 DEF Reconciliation
<1>8. reconciliations' = Append(reconciliations, r)
  BY <1>1, <1>6 DEF ReconcileMovement
<1>9. /\ ~ Overtaken(s) /\ movements[s.movement].amount > 0
      /\ SumFunction(s.applied) <=
           movements[s.movement].amount - AppliedTo(s.movement, s.reconciliations)
      /\ \A x \in DOMAIN s.applied :
           s.applied[x] <= PaidIn[x] - s.returned[x] - AppliedOf(x, s.reconciliations)
      /\ unseen' = unseen \cup {x \in DOMAIN s.applied : returned[x] # s.returned[x]}
      /\ reconciler' = [reconciler EXCEPT ![q] = NotReconciling]
      /\ UNCHANGED <<movements, statements, returned>>
  BY <1>1 DEF ReconcileMovement
<1>10. /\ movements \in Seq(Movement) /\ reconciliations \in Seq(Reconciliation)
       /\ returned \in [Collections -> Nat] /\ unseen \subseteq Collections
       /\ reconciler \in [Reconcilers -> Reading \cup {NotReconciling}]
  BY <1>3 DEF BankingTypes
<1>11. s.movement \in 1..Len(movements) /\ Earlier(s.reconciliations, reconciliations)
  BY <1>1, <1>2 DEF BankingInv, ReadingsInv
<1>12. reconciliations' \in Seq(Reconciliation) BY <1>7, <1>8, <1>10
<1>13. /\ Len(reconciliations') = Len(reconciliations) + 1 /\ Len(reconciliations) \in Nat
       /\ \A j \in 1..Len(reconciliations) : reconciliations'[j] = reconciliations[j]
       /\ reconciliations'[Len(reconciliations) + 1] = r
  BY <1>8, <1>10
<1>14. DOMAIN s.applied \subseteq Collections /\ SumFunction(s.applied) \in Nat
       /\ \A x \in DOMAIN s.applied : s.applied[x] \in Nat
  BY <1>5, ApplicationIs
<1>15. BankingTypes'
  <2>1. reconciler' \in [Reconcilers -> Reading \cup {NotReconciling}] BY <1>9, <1>10
  <2>2. unseen' \subseteq Collections BY <1>9, <1>10, <1>14
  <2> QED BY <1>3, <1>9, <1>12, <2>1, <2>2 DEF BankingTypes
<1>16. BankRefsInv'
  <2>1. \A j \in 1..Len(reconciliations') :
          reconciliations'[j].movement \in 1..Len(movements)
    BY <1>7, <1>11, <1>13 DEF BankingInv, BankRefsInv
  <2> QED BY <1>9, <2>1 DEF BankingInv, BankRefsInv
<1>17. ReadingsInv'
  <2>1. Earlier(reconciliations, reconciliations') BY <1>13 DEF Earlier
  <2>2. \A x \in Reconcilers : reconciler'[x] \in {reconciler[x], NotReconciling}
    BY <1>9, <1>10
  <2>3. movements' \in Seq(Movement) /\ Len(movements) <= Len(movements') BY <1>9, <1>10
  <2> QED BY <1>3, <1>12, <2>1, <2>2, <2>3, ReadingsStay DEF BankingInv
<1>18. ReconciledOnce'
  <2>1. \A j \in (Len(s.reconciliations) + 1)..Len(reconciliations) :
          /\ reconciliations[j].movement # s.movement
          /\ DOMAIN reconciliations[j].applied \cap DOMAIN s.applied = {}
    BY <1>9 DEF Overtaken
  <2>2. AppliedTo(s.movement, reconciliations) <= AppliedTo(s.movement, s.reconciliations)
    BY <1>5, <1>10, <1>11, <2>1, TakenShrinks
  <2>3. ASSUME NEW m \in 1..Len(movements)
        PROVE  AppliedTo(m, reconciliations') <=
                 IF movements[m].amount > 0 THEN movements[m].amount ELSE 0
    <3>1. AppliedTo(m, reconciliations') = AppliedTo(m, reconciliations) + ToMovement(m, r)
      BY <1>7, <1>8, <1>10, OneMoreTaken
    <3>2. AppliedTo(m, reconciliations) \in Nat /\ AppliedTo(m, s.reconciliations) \in Nat
      BY <1>5, <1>10, TakenType
    <3>3. movements[m] \in Movement BY <1>10, <2>3
    <3>4. movements[m].amount \in Int BY <3>3 DEF Movement
    <3>5. CASE m = s.movement
      <4>1. ToMovement(m, r) = SumFunction(s.applied) BY <1>7, <3>5 DEF ToMovement
      <4> QED BY <1>9, <1>14, <2>2, <3>1, <3>2, <3>4, <3>5, <4>1
    <3>6. CASE m # s.movement
      <4>1. ToMovement(m, r) = 0 BY <1>7, <3>6 DEF ToMovement
      <4>2. DOMAIN movements = 1..Len(movements) BY <1>10
      <4>3. AppliedTo(m, reconciliations) <=
              IF movements[m].amount > 0 THEN movements[m].amount ELSE 0
        BY <2>3, <4>2 DEF BankingInv, ReconciledOnce
      <4> QED BY <3>1, <3>2, <3>4, <4>1, <4>3
    <3> QED BY <3>5, <3>6
  <2>4. ASSUME NEW x \in Collections \ unseen'
        PROVE  AppliedOf(x, reconciliations') <= PaidIn[x] - returned[x]
    <3>1. AppliedOf(x, reconciliations') = AppliedOf(x, reconciliations) + OfPayment(x, r)
      BY <1>7, <1>8, <1>10, OneMoreTaken
    <3>2. AppliedOf(x, reconciliations) \in Nat /\ AppliedOf(x, s.reconciliations) \in Nat
      BY <1>5, <1>10, TakenType
    <3>3. PaidIn[x] \in Nat /\ returned[x] \in Nat
      BY <1>10, BankingAssumption DEF BankingAssumption
    <3>4. x \in Collections \ unseen BY <1>9
    <3>5. CASE x \in DOMAIN s.applied
      <4>1. OfPayment(x, r) = s.applied[x] BY <1>7, <3>5 DEF OfPayment
      <4>2. returned[x] = s.returned[x] BY <1>9, <3>5
      <4>3. AppliedOf(x, reconciliations) <= AppliedOf(x, s.reconciliations)
        <5>1. \A j \in (Len(s.reconciliations) + 1)..Len(reconciliations) :
                x \notin DOMAIN reconciliations[j].applied
          BY <2>1, <3>5
        <5> QED BY <1>5, <1>10, <1>11, <5>1, TakenShrinks
      <4>4. s.applied[x] <= PaidIn[x] - s.returned[x] - AppliedOf(x, s.reconciliations)
        BY <1>9, <3>5
      <4>5. s.applied[x] \in Nat BY <1>14, <3>5
      <4> QED BY <3>1, <3>2, <3>3, <4>1, <4>2, <4>3, <4>4, <4>5
    <3>6. CASE x \notin DOMAIN s.applied
      <4>1. OfPayment(x, r) = 0 BY <1>7, <3>6 DEF OfPayment
      <4>2. AppliedOf(x, reconciliations) <= PaidIn[x] - returned[x]
        BY <3>4 DEF BankingInv, ReconciledOnce
      <4> QED BY <3>1, <3>2, <4>1, <4>2
    <3> QED BY <3>5, <3>6
  <2>5. DOMAIN movements = 1..Len(movements) BY <1>10
  <2> QED BY <1>9, <2>3, <2>4, <2>5 DEF ReconciledOnce
<1>19. StatementsAddUp' BY <1>9 DEF BankingInv, StatementsAddUp
<1> QED BY <1>15, <1>16, <1>17, <1>18, <1>19 DEF BankingInv

\* A reconciliation that is undone sets its amounts free.
LEMMA UndoKeeps ==
    ASSUME BankingInv, NEW i \in DOMAIN reconciliations, UndoReconciliation(i)
    PROVE  BankingInv'
<1>1. PICK r : r = [reconciliations[i] EXCEPT !.status = "UNDONE"] OBVIOUS
<1>2. BankingTypes BY DEF BankingInv
<1>3. movements \in Seq(Movement) /\ reconciliations \in Seq(Reconciliation)
      /\ returned \in [Collections -> Nat]
  BY <1>2 DEF BankingTypes
<1>4. r \in Reconciliation /\ r.movement = reconciliations[i].movement
      /\ r.applied = reconciliations[i].applied /\ r.status = "UNDONE"
  <2>1. reconciliations[i] \in Reconciliation BY <1>3
  <2> QED BY <1>1, <2>1 DEF Reconciliation
<1>5. reconciliations' = [reconciliations EXCEPT ![i] = r] BY <1>1 DEF UndoReconciliation
<1>6. UNCHANGED <<movements, statements, returned, reconciler, unseen>>
  BY DEF UndoReconciliation
<1>7. reconciliations' \in Seq(Reconciliation) /\ Len(reconciliations') = Len(reconciliations)
      /\ DOMAIN reconciliations = 1..Len(reconciliations) /\ Len(reconciliations) \in Nat
  BY <1>3, <1>4, <1>5
<1>8. \A j \in 1..Len(reconciliations) :
        reconciliations'[j] = IF j = i THEN r ELSE reconciliations[j]
  BY <1>5, <1>7
<1>9. Earlier(reconciliations, reconciliations') BY <1>4, <1>7, <1>8 DEF Earlier
<1>10. BankingTypes' BY <1>2, <1>6, <1>7 DEF BankingTypes
<1>11. BankRefsInv' BY <1>4, <1>6, <1>7, <1>8 DEF BankingInv, BankRefsInv
<1>12. ReadingsInv'
  <2>1. movements' \in Seq(Movement) /\ Len(movements) <= Len(movements')
    BY <1>3, <1>6
  <2> QED BY <1>2, <1>6, <1>7, <1>9, <2>1, ReadingsStay DEF BankingInv
<1>13. \A m : /\ AppliedTo(m, reconciliations') <= AppliedTo(m, reconciliations)
              /\ AppliedOf(m, reconciliations') <= AppliedOf(m, reconciliations)
  <2>1. ASSUME NEW m PROVE /\ AppliedTo(m, reconciliations') <= AppliedTo(m, reconciliations)
                           /\ AppliedOf(m, reconciliations') <= AppliedOf(m, reconciliations)
    <3>1. (Len(reconciliations) + 1)..Len(reconciliations') = {} BY <1>7
    <3> QED BY <1>3, <1>7, <1>9, <3>1, TakenShrinks
  <2> QED BY <2>1
<1>14. ReconciledOnce'
  <2>1. ASSUME NEW m \in DOMAIN movements
        PROVE  AppliedTo(m, reconciliations') <=
                 IF movements[m].amount > 0 THEN movements[m].amount ELSE 0
    <3>1. AppliedTo(m, reconciliations) \in Nat /\ AppliedTo(m, reconciliations') \in Nat
      BY <1>3, <1>7, TakenType
    <3>2. movements[m] \in Movement BY <1>3
    <3>3. movements[m].amount \in Int BY <3>2 DEF Movement
    <3>4. AppliedTo(m, reconciliations) <=
            IF movements[m].amount > 0 THEN movements[m].amount ELSE 0
      BY DEF BankingInv, ReconciledOnce
    <3>5. AppliedTo(m, reconciliations') <= AppliedTo(m, reconciliations) BY <1>13
    <3> QED BY <3>1, <3>3, <3>4, <3>5
  <2>2. ASSUME NEW x \in Collections \ unseen
        PROVE  AppliedOf(x, reconciliations') <= PaidIn[x] - returned[x]
    <3>1. AppliedOf(x, reconciliations) \in Nat /\ AppliedOf(x, reconciliations') \in Nat
      BY <1>3, <1>7, TakenType
    <3>2. PaidIn[x] \in Nat /\ returned[x] \in Nat
      BY <1>3, BankingAssumption DEF BankingAssumption
    <3>3. AppliedOf(x, reconciliations) <= PaidIn[x] - returned[x]
      BY DEF BankingInv, ReconciledOnce
    <3>4. AppliedOf(x, reconciliations') <= AppliedOf(x, reconciliations) BY <1>13
    <3> QED BY <3>1, <3>2, <3>3, <3>4
  <2> QED BY <1>6, <2>1, <2>2 DEF ReconciledOnce
<1>15. StatementsAddUp' BY <1>6 DEF BankingInv, StatementsAddUp
<1> QED BY <1>10, <1>11, <1>12, <1>14, <1>15 DEF BankingInv

\* A return leaves what is reconciled of the payment.
LEMMA ReturnedKeeps ==
    ASSUME BankingInv, NEW x \in Collections, NEW amount \in 1..PaidIn[x],
           ReturnCollection(x, amount)
    PROVE  BankingInv'
<1>1. BankingTypes BY DEF BankingInv
<1>2. movements \in Seq(Movement) /\ reconciliations \in Seq(Reconciliation)
      /\ returned \in [Collections -> Nat]
  BY <1>1 DEF BankingTypes
<1>3. PaidIn \in [Collections -> Nat] BY BankingAssumption DEF BankingAssumption
<1>4. amount \in Nat /\ returned[x] + amount \in Nat BY <1>2, <1>3
<1>5. PICK total : total = returned[x] + amount OBVIOUS
<1>6. returned' = [returned EXCEPT ![x] = total] BY <1>5 DEF ReturnCollection
<1>7. PaidIn[x] - returned[x] - amount >= AppliedOf(x, reconciliations)
      /\ UNCHANGED <<movements, statements, reconciliations, reconciler, unseen>>
  BY DEF ReturnCollection
<1>8. returned' \in [Collections -> Nat] BY <1>2, <1>4, <1>5, <1>6
<1>9. BankingTypes' BY <1>1, <1>7, <1>8 DEF BankingTypes
<1>10. BankRefsInv' BY <1>7 DEF BankingInv, BankRefsInv
<1>11. ReadingsInv' BY <1>7 DEF BankingInv, ReadingsInv, Earlier
<1>12. ReconciledOnce'
  <2>1. ASSUME NEW y \in Collections \ unseen
        PROVE  AppliedOf(y, reconciliations) <= PaidIn[y] - returned'[y]
    <3>1. CASE y = x
      <4>1. returned'[y] = total BY <1>2, <1>6, <3>1
      <4>2. AppliedOf(y, reconciliations) \in Nat BY <1>2, TakenType
      <4> QED BY <1>2, <1>3, <1>4, <1>5, <1>7, <3>1, <4>1, <4>2
    <3>2. CASE y # x
      <4>1. returned'[y] = returned[y] BY <1>2, <1>6, <3>2
      <4> QED BY <4>1 DEF BankingInv, ReconciledOnce
    <3> QED BY <3>1, <3>2
  <2> QED BY <1>7, <2>1 DEF BankingInv, ReconciledOnce
<1>13. StatementsAddUp' BY <1>7 DEF BankingInv, StatementsAddUp
<1> QED BY <1>9, <1>10, <1>11, <1>12, <1>13 DEF BankingInv

\* A request reads: its copy is what there is.
LEMMA BeginKeeps ==
    ASSUME BankingInv, NEW q \in Reconcilers, NEW m \in DOMAIN movements,
           NEW a \in Applications, BeginReconciliation(q, m, a)
    PROVE  BankingInv'
<1>1. PICK s : s = [at |-> "READ", movement |-> m, applied |-> a,
                    reconciliations |-> reconciliations, returned |-> returned]
  OBVIOUS
<1>2. BankingTypes BY DEF BankingInv
<1>3. /\ movements \in Seq(Movement) /\ reconciliations \in Seq(Reconciliation)
      /\ reconciler \in [Reconcilers -> Reading \cup {NotReconciling}]
      /\ returned \in [Collections -> Nat]
  BY <1>2 DEF BankingTypes
<1>4. m \in 1..Len(movements) /\ m \in Nat BY <1>3
<1>5. /\ s \in Reading /\ s.movement = m /\ s.reconciliations = reconciliations
  BY <1>1, <1>3, <1>4 DEF Reading
<1>6. reconciler' = [reconciler EXCEPT ![q] = s]
      /\ UNCHANGED <<movements, statements, reconciliations, returned, unseen>>
  BY <1>1 DEF BeginReconciliation
<1>7. reconciler' \in [Reconcilers -> Reading \cup {NotReconciling}] BY <1>3, <1>5, <1>6
<1>8. BankingTypes' BY <1>2, <1>6, <1>7 DEF BankingTypes
<1>9. ReadingsInv'
  <2>1. ASSUME NEW x \in Reconcilers, reconciler'[x].at = "READ"
        PROVE  /\ reconciler'[x].movement \in 1..Len(movements)
               /\ Earlier(reconciler'[x].reconciliations, reconciliations)
    <3>1. CASE x = q
      <4>1. reconciler'[x] = s BY <1>3, <1>6, <3>1
      <4>2. Earlier(reconciliations, reconciliations) BY <1>3 DEF Earlier
      <4> QED BY <1>4, <1>5, <4>1, <4>2
    <3>2. CASE x # q
      <4>1. reconciler'[x] = reconciler[x] BY <1>3, <1>6, <3>2
      <4> QED BY <2>1, <4>1 DEF BankingInv, ReadingsInv
    <3> QED BY <3>1, <3>2
  <2> QED BY <1>6, <2>1 DEF ReadingsInv, Earlier
<1>10. BankRefsInv' /\ ReconciledOnce' /\ StatementsAddUp'
  BY <1>6 DEF BankingInv, BankRefsInv, ReconciledOnce, StatementsAddUp
<1> QED BY <1>8, <1>9, <1>10 DEF BankingInv

\* A request leaves nothing behind.
LEMMA LeaveKeeps ==
    ASSUME BankingInv, NEW q \in Reconcilers, LeaveUnreconciled(q)
    PROVE  BankingInv'
<1>1. BankingTypes BY DEF BankingInv
<1>2. reconciler' = [reconciler EXCEPT ![q] = NotReconciling]
      /\ UNCHANGED <<movements, statements, reconciliations, returned, unseen>>
  BY DEF LeaveUnreconciled
<1>3. reconciler' \in [Reconcilers -> Reading \cup {NotReconciling}]
      /\ \A x \in Reconcilers : reconciler'[x] \in {reconciler[x], NotReconciling}
  BY <1>1, <1>2 DEF BankingTypes
<1>4. BankingTypes' BY <1>1, <1>2, <1>3 DEF BankingTypes
<1>5. ReadingsInv'
  <2>1. reconciliations' \in Seq(Reconciliation) /\ movements' \in Seq(Movement)
    BY <1>4 DEF BankingTypes
  <2>2. Earlier(reconciliations, reconciliations') /\ Len(movements) <= Len(movements')
    BY <1>1, <1>2 DEF Earlier, BankingTypes
  <2> QED BY <1>1, <1>3, <2>1, <2>2, ReadingsStay DEF BankingInv
<1>6. BankRefsInv' /\ ReconciledOnce' /\ StatementsAddUp'
  BY <1>2 DEF BankingInv, BankRefsInv, ReconciledOnce, StatementsAddUp
<1> QED BY <1>4, <1>5, <1>6 DEF BankingInv

\* At first there is nothing.
LEMMA BankingStarts == BankingInit => BankingInv
<1> SUFFICES ASSUME BankingInit PROVE BankingInv OBVIOUS
<1>1. BankingTypes
  BY DEF BankingInit, BankingTypes
<1>2. BankRefsInv /\ StatementsAddUp
  BY DEF BankingInit, BankRefsInv, StatementsAddUp
<1>3. ReadingsInv BY DEF BankingInit, ReadingsInv, NotReconciling
<1>4. ReconciledOnce
  <2>1. PaidIn \in [Collections -> Nat] BY BankingAssumption DEF BankingAssumption
  <2>2. ASSUME NEW x \in Collections PROVE AppliedOf(x, reconciliations) <= PaidIn[x] - returned[x]
    <3>1. reconciliations = <<>> /\ returned[x] = 0 BY DEF BankingInit
    <3>2. PICK s : s = [j \in DOMAIN reconciliations |-> OfPayment(x, reconciliations[j])]
      OBVIOUS
    <3>3. DOMAIN s = {} BY <3>1, <3>2
    <3>4. SumFunction(s) = 0 BY <3>3, FS_EmptySet, SumUnfolds, SumFunctionIs
    <3>5. reconciliations \in Seq(Reconciliation) BY <1>1 DEF BankingTypes
    <3>6. AppliedOf(x, reconciliations) = 0 BY <3>2, <3>4, <3>5, TakenIs
    <3> QED BY <2>1, <3>1, <3>6
  <2>3. DOMAIN movements = {} BY DEF BankingInit
  <2> QED BY <2>2, <2>3 DEF ReconciledOnce
<1> QED BY <1>1, <1>2, <1>3, <1>4 DEF BankingInv

\* No step breaks it.
LEMMA BankingStep == BankingInv /\ [BankingNext]_bankingVars => BankingInv'
<1> SUFFICES ASSUME BankingInv, [BankingNext]_bankingVars PROVE BankingInv' OBVIOUS
<1>1. ASSUME NEW a \in BankAccounts, NEW n \in AccountNumbers, CreateBankAccount(a, n)
      PROVE  BankingInv'
  <2>1. UNCHANGED <<movements, statements, reconciliations, returned, reconciler, unseen>>
    BY <1>1 DEF CreateBankAccount
  <2> QED BY <2>1 DEF BankingInv, BankingTypes, BankRefsInv, ReadingsInv, Earlier,
                     ReconciledOnce, StatementsAddUp
<1>2. ASSUME UNCHANGED bankingVars PROVE BankingInv'
  <2>1. UNCHANGED <<movements, statements, reconciliations, returned, reconciler, unseen>>
    BY <1>2 DEF bankingVars
  <2> QED BY <2>1 DEF BankingInv, BankingTypes, BankRefsInv, ReadingsInv, Earlier,
                     ReconciledOnce, StatementsAddUp
<1>3. ASSUME NEW a \in BankAccounts, NEW x \in Entered,
             NEW n \in MovementNumbers \cup {Unnumbered}, CreateBankMovement(a, x, n)
      PROVE  BankingInv'
  BY <1>3, MovementKeeps
<1>4. ASSUME NEW a \in BankAccounts, NEW f \in Files, ImportStatement(a, f) PROVE BankingInv'
  BY <1>4, ImportKeeps
<1>5. ASSUME NEW q \in Reconcilers, NEW m \in DOMAIN movements, NEW a \in Applications,
             BeginReconciliation(q, m, a)
      PROVE  BankingInv'
  BY <1>5, BeginKeeps
<1>6. ASSUME NEW q \in Reconcilers, ReconcileMovement(q) PROVE BankingInv'
  BY <1>6, ReconcileKeeps
<1>7. ASSUME NEW q \in Reconcilers, LeaveUnreconciled(q) PROVE BankingInv'
  BY <1>7, LeaveKeeps
<1>8. ASSUME NEW j \in DOMAIN reconciliations, UndoReconciliation(j) PROVE BankingInv'
  BY <1>8, UndoKeeps
<1>9. ASSUME NEW x \in Collections, NEW amount \in 1..PaidIn[x], ReturnCollection(x, amount)
      PROVE  BankingInv'
  BY <1>9, ReturnedKeeps
<1> QED BY <1>1, <1>2, <1>3, <1>4, <1>5, <1>6, <1>7, <1>8, <1>9 DEF BankingNext

(***************************************************************************)
(* What is reconciled with a movement never exceeds what came in, nor what *)
(* is reconciled of a payment what was not returned of it, unless a return *)
(* committed between the first read of a reconciliation and its own        *)
(* commit; and the movements of a statement lead from its first balance to *)
(* its last, for any files, amounts and number of requests at a time.      *)
(***************************************************************************)
THEOREM BankingStaysSound == BankingSpec => []BankingAddsUp
<1>1. BankingInv => BankingAddsUp BY DEF BankingInv, BankingAddsUp
<1> QED BY <1>1, BankingStarts, BankingStep, PTL DEF BankingSpec
=============================================================================
