\* A direct debit line compared with the payments only.
SPECIFICATION Spec
CONSTANTS
    i1 = i1
    i2 = i2
    d1 = d1
    d2 = d2
    Invoices = {i1, i2}
    DueDates = {d1, d2}
    InvoiceOf <- MCInvoiceOf
    Amount <- MCAmount
    Payments = {p1, p2}
    Remittances = {m1}
    Refunds = {f1}
    Users = {u1, u2}
    Requests = {q1, q2}
SYMMETRY Interchangeable
CHECK_DEADLOCK FALSE
INVARIANTS
    NeverOverCollected
