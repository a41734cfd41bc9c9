\* Payments, returns, remittances, credits and refunds of two invoices.
\* Subscriptions: three days, two subscriptions, two drafts.  Banking: an account,
\* four files, three movements, two payments, two requests.
SPECIFICATION ReceivablesSpec
CONSTANTS
    i1 = i1
    i2 = i2
    d1 = d1
    d2 = d2
    Invoices = {i1, i2}
    DueDates = {d1, d2}
    InvoiceOf <- MCInvoiceOf
    Amount <- MCAmount
    Payments = {p1, p2}
    Remittances = {m1}
    Refunds = {f1}
    Users = {u1, u2}
    Requests = {q1, q2}
    Subs = {s1, s2}
    Renewals = {k1, k2}
    Horizon = 3
    Length <- Lengths
    BankAccounts = {a1}
    AccountNumbers = {x1}
    Files <- UploadedFiles
    Collections = {e1, e2}
    PaidIn <- PaymentsIn
    Entered <- EnteredByHand
    MovementNumbers = {o1}
    Reconcilers = {r1, r2}
    MaxMovements = 3
    MaxReconciliations = 2
    Unnumbered = Unnumbered
    s1 = s1
    s2 = s2
    a1 = a1
    x1 = x1
    e1 = e1
    e2 = e2
SYMMETRY Interchangeable
CHECK_DEADLOCK FALSE
INVARIANTS
    MoneyWithinOriginal
    DueDatesConsistent
    RenewalsAddUp
    BankingAddsUp
