------------------------------ MODULE Treasury ------------------------------
(***************************************************************************)
(* What customers owe and how it is collected: the due dates of issued     *)
(* invoices, payments and their returns, direct debit remittances, and the *)
(* credits that rectifying a paid invoice leaves.                          *)
(*                                                                         *)
(* Three kinds of transaction meet on the same rows.  Payments, returns,   *)
(* drafts of remittances and their collection lock the invoice and the due *)
(* date before they read them: one atomic step.  The other changes of a    *)
(* remittance, and marking a due date unpaid, run under READ COMMITTED     *)
(* without a lock: they read in one step and write, whatever happened      *)
(* since, in another.  Compensating a credit is SERIALIZABLE: it works on  *)
(* a snapshot and fails when a row it locks was updated since, but not     *)
(* when a row was only locked, or a line was added, by another level.      *)
(*                                                                         *)
(* The sums over payments, returns and applications of a due date are kept *)
(* as running totals.  The fiscal year of every date is open and the       *)
(* accounts exist: module FiscalCycle is about that.                       *)
(***************************************************************************)
EXTENDS Naturals, FiniteSets, Functions

CONSTANTS Invoices,    \* issued standard invoices of one customer
          DueDates,    \* their due dates
          InvoiceOf,   \* the invoice of each due date
          Amount,      \* the amount of each due date, in units
          Payments,    \* rows of customer_payments
          Remittances, \* rows of customer_remittances
          Refunds,     \* rows of customer_credit_refunds
          Users,       \* who requests and approves refunds
          Requests     \* requests that may be between two steps at a time

ASSUME OwedAssumption ==
    /\ InvoiceOf \in [DueDates -> Invoices]
    /\ Amount \in [DueDates -> Nat \ {0}]

\* Rows of tables.
ASSUME RowsAssumption ==
    IsFiniteSet(DueDates) /\ IsFiniteSet(Payments) /\ IsFiniteSet(Refunds)

VARIABLES invoice,    \* status, payment status, and whether AEAT annulled it
          due,        \* the status of each due date
          collected,  \* sumNetPaymentsForDueDate: payments minus returns
          credited,   \* sumCreditApplicationsForDueDate
          payment,    \* each payment: due date, amount, what is not returned, source
          remittance, \* each remittance: status, amount of its lines, active lines
          credit,     \* the credit that each rectified invoice leaves
          refund,     \* refunds of credits
          request     \* what the requests in progress have read

vars == <<invoice, due, collected, credited, payment, remittance, credit, refund, request>>

Absent == [status |-> "ABSENT"]
Idle == [op |-> "none"]
DueDatesOf(i) == {d \in DueDates : InvoiceOf[d] = i}

Total(i) == SumFunctionOnSet(Amount, DueDatesOf(i))
Pending(d) == Amount[d] - collected[d] - credited[d]
Debited(d) == \E m \in Remittances : d \in remittance[m].active

Init ==
    /\ invoice = [i \in Invoices |->
                    [status |-> "ISSUED", pay |-> "PENDING", annulled |-> FALSE]]
    /\ due = [d \in DueDates |-> "PENDING"]
    /\ collected = [d \in DueDates |-> 0]
    /\ credited = [d \in DueDates |-> 0]
    /\ payment = [p \in Payments |-> Absent]
    /\ remittance = [m \in Remittances |-> [status |-> "ABSENT", lines |-> <<>>, active |-> {}]]
    /\ credit = [i \in Invoices |-> Absent]
    /\ refund = [f \in Refunds |-> Absent]
    /\ request = [q \in Requests |-> Idle]
-----------------------------------------------------------------------------
(* The statuses that follow from the sums.                                 *)

InvoiceStatus(cash, credits, total) ==
    CASE cash = 0 /\ credits = 0 -> "PENDING"
      [] cash + credits = total /\ credits = 0 -> "PAID"
      [] cash + credits = total /\ credits > 0 -> "SETTLED"
      [] cash + credits # total /\ credits = 0 -> "PARTIALLY_PAID"
      [] OTHER -> "PARTIALLY_SETTLED"

DueStatus(cash, credits, amount) ==
    CASE cash = 0 /\ credits = 0 -> "RETURNED"
      [] cash + credits = amount /\ credits = 0 -> "PAID"
      [] cash + credits = amount /\ credits > 0 -> "SETTLED"
      [] OTHER -> "PENDING"

\* After a payment something is collected.
PaidStatus(cash, credits, amount) ==
    IF cash + credits = amount THEN IF credits > 0 THEN "SETTLED" ELSE "PAID" ELSE "PENDING"

\* The invoices is, whose sums are those of the next state.
Refreshed(is) ==
    [i \in Invoices |->
        IF i \in is
        THEN [invoice[i] EXCEPT !.pay =
                InvoiceStatus(SumFunctionOnSet(collected', DueDatesOf(i)),
                              SumFunctionOnSet(credited', DueDatesOf(i)), Total(i))]
        ELSE invoice[i]]

\* A snapshot fails when a row it wants to lock was updated since: the invoice
\* of the due date it would compensate, or the credit, named by its invoice.
Superseded(is) ==
    [q \in Requests |->
        IF request[q].op = "apply" /\ {InvoiceOf[request[q].due], request[q].credit} \cap is # {}
        THEN [request[q] EXCEPT !.fresh = FALSE] ELSE request[q]]
-----------------------------------------------------------------------------
(* Payments and returns lock the invoice first.                            *)

Collectable(d) == due[d] = "PENDING" /\ invoice[InvoiceOf[d]].status = "ISSUED"

\* A payment and its entry in the journal.
Posted(d, x, source) ==
    [status |-> "POSTED", due |-> d, amount |-> x, net |-> x, source |-> source]

Collect(p, d, x) ==
    /\ payment' = [payment EXCEPT ![p] = Posted(d, x, "MANUAL")]
    /\ collected' = [collected EXCEPT ![d] = @ + x]
    /\ due' = [due EXCEPT ![d] = PaidStatus(collected[d] + x, credited[d], Amount[d])]
    /\ UNCHANGED credited
    /\ invoice' = Refreshed({InvoiceOf[d]})
    /\ request' = Superseded({InvoiceOf[d]})
    /\ UNCHANGED <<remittance, credit, refund>>

RegisterPayment(p, d, x) ==
    /\ payment[p] = Absent
    /\ Collectable(d)
    /\ x <= Pending(d)
    /\ Collect(p, d, x)

Collected == {"PROCESSED", "PARTIALLY_PROCESSED", "PARTIALLY_RETURNED", "CLOSED"}

\* What a return of a direct debit does to its remittance, looked up by due date.
MarkReturned(p) ==
    IF payment[p].source = "SEPA_REMITTANCE"
    THEN [m \in Remittances |->
            IF payment[p].due \in remittance[m].active /\ remittance[m].status \in Collected
            THEN [remittance[m] EXCEPT !.status = "PARTIALLY_RETURNED"] ELSE remittance[m]]
    ELSE remittance

TakeBack(p, x) ==
    LET d == payment[p].due IN
    /\ payment' = [payment EXCEPT ![p].net = @ - x]
    /\ collected' = [collected EXCEPT ![d] = @ - x]
    /\ UNCHANGED credited
    /\ due' = [due EXCEPT ![d] = DueStatus(collected[d] - x, credited[d], Amount[d])]
    /\ invoice' = Refreshed({InvoiceOf[d]})
    /\ remittance' = MarkReturned(p)
    /\ request' = Superseded({InvoiceOf[d]})
    /\ UNCHANGED <<credit, refund>>

RegisterReturn(p, x) ==
    /\ payment[p] # Absent
    /\ invoice[InvoiceOf[payment[p].due]].status = "ISSUED"
    /\ x <= payment[p].net
    /\ TakeBack(p, x)
-----------------------------------------------------------------------------
(* Remittances: a draft takes what is pending of its due dates; collecting *)
(* it compares its lines with the amount minus the payments only.          *)

CreateDraft(m, ds) ==
    /\ remittance[m].status = "ABSENT"
    /\ \A d \in ds : /\ ~ Debited(d)
                     /\ Collectable(d)
                     /\ ~ invoice[InvoiceOf[d]].annulled
                     /\ Pending(d) > 0
    /\ remittance' = [remittance EXCEPT ![m] =
         [status |-> "DRAFT", lines |-> [d \in ds |-> Pending(d)], active |-> ds]]
    /\ UNCHANGED <<invoice, due, collected, credited, payment, credit, refund, request>>

\* A mutant: the payments of after the draft are not counted.
Covered_PaymentsIgnored(m, d) == remittance[m].lines[d] <= Amount[d]

Covered(m, d) == remittance[m].lines[d] <= Amount[d] - collected[d]

\* Every paid line becomes a payment, a row of ids each.
CollectLines(m, paid, rejected, status) ==
    /\ \A d \in paid : Collectable(d) /\ Covered(m, d)
    /\ \E row \in [paid -> {p \in Payments : payment[p] = Absent}] :
         /\ \A d, e \in paid : row[d] = row[e] => d = e
         /\ payment' = [p \in Payments |->
              IF \E d \in paid : row[d] = p
              THEN LET d == CHOOSE d \in paid : row[d] = p IN
                   Posted(d, remittance[m].lines[d], "SEPA_REMITTANCE")
              ELSE payment[p]]
    /\ collected' = [d \in DueDates |->
         IF d \in paid THEN collected[d] + remittance[m].lines[d] ELSE collected[d]]
    /\ UNCHANGED credited
    /\ due' = [d \in DueDates |->
         IF d \in paid THEN PaidStatus(collected'[d], 0, Amount[d]) ELSE due[d]]
    /\ LET is == {InvoiceOf[d] : d \in paid} IN
         /\ invoice' = [i \in Invoices |->
              IF i \in is
              THEN [invoice[i] EXCEPT !.pay =
                      InvoiceStatus(SumFunctionOnSet(collected', DueDatesOf(i)), 0, Total(i))]
              ELSE invoice[i]]
         /\ request' = Superseded(is)
    /\ remittance' = [remittance EXCEPT ![m].status = status, ![m].active = @ \ rejected]
    /\ UNCHANGED <<credit, refund>>

\* The answer of the bank covers every active line.
Settle(m, paid) ==
    /\ remittance[m].status = "SENT"
    /\ remittance[m].active # {}
    /\ LET rejected == remittance[m].active \ paid IN
       CollectLines(m, paid, rejected,
                    CASE rejected = {} -> "PROCESSED"
                      [] paid = {} -> "REJECTED"
                      [] OTHER -> "PARTIALLY_PROCESSED")

Process(m) ==
    /\ remittance[m].status \in {"DRAFT", "GENERATED", "SENT"}
    /\ remittance[m].active # {}
    /\ CollectLines(m, remittance[m].active, {}, "PROCESSED")
-----------------------------------------------------------------------------
(* Changes without a lock: a read, and a write that trusts it.             *)

ReadStatus(q, m, op, from) ==
    /\ request[q] = Idle
    /\ remittance[m].status \in from
    /\ request' = [request EXCEPT ![q] = [op |-> op, remittance |-> m]]
    /\ UNCHANGED <<invoice, due, collected, credited, payment, remittance, credit, refund>>

WriteStatus(q, m, op, to, active) ==
    /\ request[q] = [op |-> op, remittance |-> m]
    /\ remittance' = [remittance EXCEPT ![m].status = to, ![m].active = active]
    /\ request' = [request EXCEPT ![q] = Idle]
    /\ UNCHANGED <<invoice, due, collected, credited, payment, credit, refund>>

\* No line of the remittance was released meanwhile.
GenerateSepa(q, m) ==
    \/ /\ remittance[m].active # {}
       /\ remittance[m].active = DOMAIN remittance[m].lines
       /\ ReadStatus(q, m, "generate", {"DRAFT"})
    \/ WriteStatus(q, m, "generate", "GENERATED", remittance[m].active)

MarkSent(q, m) ==
    \/ ReadStatus(q, m, "send", {"GENERATED"})
    \/ WriteStatus(q, m, "send", "SENT", remittance[m].active)

Reject(q, m) ==
    \/ ReadStatus(q, m, "reject", {"SENT"})
    \/ WriteStatus(q, m, "reject", "REJECTED", {})

CancelDraft(q, m) ==
    \/ ReadStatus(q, m, "cancel", {"DRAFT"})
    \/ WriteStatus(q, m, "cancel", "CANCELLED", {})

Close(q, m) ==
    \/ ReadStatus(q, m, "close", {"PROCESSED", "PARTIALLY_PROCESSED", "PARTIALLY_RETURNED"})
    \/ WriteStatus(q, m, "close", "CLOSED", remittance[m].active)

ReadUnpaid(q, d) ==
    /\ request[q] = Idle
    /\ Collectable(d)
    /\ Pending(d) > 0
    /\ request' = [request EXCEPT ![q] = [op |-> "unpaid", due |-> d]]
    /\ UNCHANGED <<invoice, due, collected, credited, payment, remittance, credit, refund>>

WriteUnpaid(q, d) ==
    /\ request[q] = [op |-> "unpaid", due |-> d]
    /\ due' = [due EXCEPT ![d] = "UNPAID"]
    /\ invoice' = [invoice EXCEPT ![InvoiceOf[d]].pay = "UNPAID"]
    /\ request' = [Superseded({InvoiceOf[d]}) EXCEPT ![q] = Idle]
    /\ UNCHANGED <<collected, credited, payment, remittance, credit, refund>>
-----------------------------------------------------------------------------
(* Rectifying or voiding an invoice, under a lock of its row.              *)

Untouched(i) == \A d \in DueDatesOf(i) :
    /\ due[d] = "PENDING"
    /\ \A p \in Payments : payment[p] # Absent => payment[p].due # d

\* A mutant: the remittances are not looked at.
CleanUnpaid_DebitsIgnored(i) == invoice[i].pay = "PENDING" /\ Untouched(i)

CleanUnpaid(i) == /\ invoice[i].pay = "PENDING"
                  /\ Untouched(i)
                  /\ \A d \in DueDatesOf(i) : ~ Debited(d)

CleanPaid(i) ==
    /\ invoice[i].pay = "PAID"
    /\ \A d \in DueDatesOf(i) :
         /\ due[d] = "PAID"
         /\ ~ Debited(d)
         /\ \A p \in Payments : payment[p] # Absent /\ payment[p].due = d
                                    => payment[p].net = payment[p].amount
    /\ SumFunctionOnSet(collected, DueDatesOf(i)) = Total(i)

\* The credit is held until AEAT accepts the rectification.
Rectify(i, held) ==
    /\ invoice[i].status = "ISSUED"
    /\ ~ invoice[i].annulled
    /\ CleanUnpaid(i) \/ CleanPaid(i)
    /\ invoice' = [invoice EXCEPT ![i].status = "RECTIFIED",
                                  ![i].pay = IF CleanUnpaid(i) THEN "CANCELLED" ELSE "PAID"]
    /\ due' = [d \in DueDates |-> IF CleanUnpaid(i) /\ InvoiceOf[d] = i
                                  THEN "CANCELLED" ELSE due[d]]
    /\ credit' = [credit EXCEPT ![i] = IF CleanPaid(i)
         THEN [status |-> "OPEN", held |-> held, applied |-> 0, reserved |-> 0, posted |-> 0]
         ELSE Absent]
    /\ request' = Superseded({i})
    /\ UNCHANGED <<collected, credited, payment, remittance, refund>>

\* AEAT accepts the cancellation of the record of the invoice.
Annul(i) ==
    /\ invoice[i].status = "ISSUED"
    /\ ~ invoice[i].annulled
    /\ invoice' = [invoice EXCEPT ![i].annulled = TRUE]
    /\ request' = Superseded({i})
    /\ UNCHANGED <<due, collected, credited, payment, remittance, credit, refund>>

\* A line of any remittance, also a cancelled one, is financial activity.
Void(i) ==
    /\ invoice[i].status = "ISSUED"
    /\ invoice[i].annulled
    /\ Untouched(i)
    /\ \A d \in DueDatesOf(i), m \in Remittances : d \notin DOMAIN remittance[m].lines
    /\ invoice' = [invoice EXCEPT ![i].status = "VOIDED", ![i].pay = "CANCELLED"]
    /\ due' = [d \in DueDates |-> IF InvoiceOf[d] = i THEN "CANCELLED" ELSE due[d]]
    /\ request' = Superseded({i})
    /\ UNCHANGED <<collected, credited, payment, remittance, credit, refund>>

Release(c) ==
    /\ credit[c] # Absent
    /\ credit[c].held
    /\ credit' = [credit EXCEPT ![c].held = FALSE]
    /\ UNCHANGED <<invoice, due, collected, credited, payment, remittance, refund, request>>
-----------------------------------------------------------------------------
(* Credits: compensation and refunds.                                      *)

Usable(c) == credit[c] # Absent /\ ~ credit[c].held
Available(c) == Total(c) - credit[c].applied - credit[c].reserved - credit[c].posted

\* The snapshot: everything is read and compared before the rows are locked.
ReadCredit(q, c, d, x) ==
    /\ request[q] = Idle
    /\ Usable(c)
    /\ x <= Available(c)
    /\ Collectable(d)
    /\ ~ Debited(d)
    /\ x <= Pending(d)
    /\ request' = [request EXCEPT ![q] = [op |-> "apply", credit |-> c, due |-> d,
                                          amount |-> x, fresh |-> TRUE]]
    /\ UNCHANGED <<invoice, due, collected, credited, payment, remittance, credit, refund>>

ApplyCredit(q) ==
    /\ request[q].op = "apply"
    /\ request[q].fresh
    /\ LET c == request[q].credit
           d == request[q].due
           i == InvoiceOf[d] IN
         /\ credited' = [credited EXCEPT ![d] = @ + request[q].amount]
         /\ credit' = [credit EXCEPT ![c].applied = @ + request[q].amount]
         /\ UNCHANGED collected
         /\ due' = [e \in DueDates |->
              IF InvoiceOf[e] = i /\ collected[e] + credited'[e] = Amount[e]
              THEN PaidStatus(collected[e], credited'[e], Amount[e]) ELSE due[e]]
         /\ invoice' = Refreshed({i})
         /\ request' = [Superseded({i, c}) EXCEPT ![q] = Idle]
    /\ UNCHANGED <<payment, remittance, refund>>

\* Could not serialize: the transaction is retried from the start, or fails.
Serialization(q) ==
    /\ request[q].op = "apply"
    /\ ~ request[q].fresh
    /\ request' = [request EXCEPT ![q] = Idle]
    /\ UNCHANGED <<invoice, due, collected, credited, payment, remittance, credit, refund>>

RequestRefund(f, c, x, u) ==
    /\ refund[f] = Absent
    /\ Usable(c)
    /\ x <= Available(c)
    /\ refund' = [refund EXCEPT ![f] = [status |-> "REQUESTED", credit |-> c, amount |-> x,
                                        by |-> u]]
    /\ credit' = [credit EXCEPT ![c].reserved = @ + x]
    /\ request' = Superseded({c})
    /\ UNCHANGED <<invoice, due, collected, credited, payment, remittance>>

MoveRefund(f, from, to) ==
    /\ refund[f].status = from
    /\ refund' = [refund EXCEPT ![f].status = to]
    /\ request' = Superseded({refund[f].credit})
    /\ UNCHANGED <<invoice, due, collected, credited, payment, remittance>>

ApproveRefund(f, u) ==
    /\ MoveRefund(f, "REQUESTED", "APPROVED")
    /\ refund[f].by # u
    /\ UNCHANGED credit

CancelRefund(f) ==
    /\ MoveRefund(f, "REQUESTED", "CANCELLED")
    /\ credit' = [credit EXCEPT ![refund[f].credit].reserved = @ - refund[f].amount]

PostRefund(f) ==
    /\ MoveRefund(f, "APPROVED", "POSTED")
    /\ credit' = [credit EXCEPT ![refund[f].credit].reserved = @ - refund[f].amount,
                                ![refund[f].credit].posted = @ + refund[f].amount]
-----------------------------------------------------------------------------
Amounts == UNION {1..Amount[d] : d \in DueDates}

PaymentNext ==
    \/ \E p \in Payments, d \in DueDates, x \in Amounts : RegisterPayment(p, d, x)
    \/ \E p \in Payments, x \in Amounts : RegisterReturn(p, x)

RemittanceNext ==
    \/ \E m \in Remittances, ds \in SUBSET DueDates \ {{}} : CreateDraft(m, ds)
    \/ \E m \in Remittances : \E paid \in SUBSET remittance[m].active : Settle(m, paid)
    \/ \E m \in Remittances : Process(m)
    \/ \E q \in Requests, m \in Remittances : GenerateSepa(q, m)
    \/ \E q \in Requests, m \in Remittances : MarkSent(q, m)
    \/ \E q \in Requests, m \in Remittances : Reject(q, m)
    \/ \E q \in Requests, m \in Remittances : CancelDraft(q, m)
    \/ \E q \in Requests, m \in Remittances : Close(q, m)
    \/ \E q \in Requests, d \in DueDates : ReadUnpaid(q, d)
    \/ \E q \in Requests, d \in DueDates : WriteUnpaid(q, d)

InvoiceNext ==
    \/ \E i \in Invoices, held \in BOOLEAN : Rectify(i, held)
    \/ \E i \in Invoices : Annul(i)
    \/ \E i \in Invoices : Void(i)

CreditNext ==
    \/ \E c \in Invoices : Release(c)
    \/ \E q \in Requests, c \in Invoices, d \in DueDates, x \in Amounts : ReadCredit(q, c, d, x)
    \/ \E q \in Requests : ApplyCredit(q)
    \/ \E q \in Requests : Serialization(q)
    \/ \E f \in Refunds, c \in Invoices, x \in Amounts, u \in Users : RequestRefund(f, c, x, u)
    \/ \E f \in Refunds, u \in Users : ApproveRefund(f, u)
    \/ \E f \in Refunds : CancelRefund(f)
    \/ \E f \in Refunds : PostRefund(f)

Next == PaymentNext \/ RemittanceNext \/ InvoiceNext \/ CreditNext

Spec == Init /\ [][Next]_vars
-----------------------------------------------------------------------------
(* Properties.                                                             *)

\* The statuses of the schema, and lines that are active only while they exist.

InvoiceRow ==
    [status : {"ISSUED", "RECTIFIED", "VOIDED"},
     pay : {"PENDING", "PARTIALLY_PAID", "PAID", "PARTIALLY_SETTLED", "SETTLED", "UNPAID",
            "CANCELLED"},
     annulled : BOOLEAN]
DueStatuses == {"PENDING", "PAID", "SETTLED", "RETURNED", "UNPAID", "CANCELLED"}
PaymentRow ==
    [status : {"POSTED"}, due : DueDates, amount : Nat, net : Nat,
     source : {"MANUAL", "SEPA_REMITTANCE"}]
RemittanceRow ==
    [status : {"ABSENT", "CANCELLED", "REJECTED", "DRAFT", "GENERATED", "SENT"} \cup Collected,
     lines : UNION {[ds -> Amounts] : ds \in SUBSET DueDates}, active : SUBSET DueDates]
CreditRow == [status : {"OPEN"}, held : BOOLEAN, applied : Nat, reserved : Nat, posted : Nat]
RefundRow ==
    [status : {"REQUESTED", "APPROVED", "CANCELLED", "POSTED"}, credit : Invoices, amount : Nat,
     by : Users]
Application ==
    [op : {"apply"}, credit : Invoices, due : DueDates, amount : Nat \ {0}, fresh : BOOLEAN]
RequestRow ==
    {Idle} \cup [op : {"unpaid"}, due : DueDates] \cup Application
      \cup [op : {"generate", "send", "reject", "cancel", "close"}, remittance : Remittances]

TypeOK ==
    /\ invoice \in [Invoices -> InvoiceRow]
    /\ due \in [DueDates -> DueStatuses]
    /\ collected \in [DueDates -> Nat]
    /\ credited \in [DueDates -> Nat]
    /\ payment \in [Payments -> {Absent} \cup PaymentRow]
    /\ remittance \in [Remittances -> RemittanceRow]
    /\ \A m \in Remittances : remittance[m].active \subseteq DOMAIN remittance[m].lines
    /\ credit \in [Invoices -> {Absent} \cup CreditRow]
    /\ refund \in [Refunds -> {Absent} \cup RefundRow]
    /\ request \in [Requests -> RequestRow]

CashWithinDue == \A d \in DueDates : collected[d] >= 0 /\ collected[d] <= Amount[d]

StatusFollowsMoney == \A d \in DueDates :
    /\ due[d] = "PAID" => collected[d] = Amount[d]
    /\ due[d] = "SETTLED" => collected[d] + credited[d] = Amount[d] /\ credited[d] > 0
    /\ collected[d] = Amount[d] => due[d] \notin {"PENDING", "RETURNED", "CANCELLED"}

CancelledIsClean == \A d \in DueDates :
    due[d] = "CANCELLED" => collected[d] = 0 /\ ~ Debited(d)

\* A due date says it is paid only if cash alone covers it, settled only if
\* cash and credits together do; once the cash covers it, nothing leaves it
\* pending, to be collected again; and no cash and no line of a remittance is
\* left on one that rectifying or voiding cancelled: the bank is not asked for
\* it any more.
DueDatesConsistent == StatusFollowsMoney /\ CancelledIsClean

CreditWithinOriginal == \A c \in Invoices : credit[c] # Absent =>
    /\ credit[c].reserved >= 0
    /\ credit[c].applied + credit[c].reserved + credit[c].posted <= Total(c)

\* The cash of a due date, over payments, direct debits and returns in any
\* order, never exceeds its amount nor falls below zero; and compensations and
\* refunds, requested at the same time, never use more of a credit than the
\* rectified invoice left.
MoneyWithinOriginal == CashWithinDue /\ CreditWithinOriginal

\* docs/tesoreria/02-contratos-api.md:729: a remittance whose lines exceed what
\* is pending is refused, so cash and credits never exceed the amount due.
NeverOverCollected == \A d \in DueDates : collected[d] + credited[d] <= Amount[d]
=============================================================================
