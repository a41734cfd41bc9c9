\* Two clerks correct, cancel, rectify and void invoices over three records.
SPECIFICATION Spec
CONSTANTS
    Invoices = {i1, i2}
    Workers = {w1}
    Clerks = {c1, c2}
    MaxChain = 3
    MaxAttempts = 1
    MaxInterventions = 1
    MayPause = TRUE
SYMMETRY Interchangeable
CONSTRAINT FullChainAtRest
INVARIANTS
    VerdictAgrees
    FiscalStatusFollowsChain
    InvoiceEndsOnce
    ChainLinked
PROPERTIES
    RefinesRegister
