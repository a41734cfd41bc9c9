\* Two transactions at a time around a close, and long histories of closes
\* and reopenings, one transaction at a time.
SPECIFICATION MCSpec
CONSTANTS
    LastYear = 3
    Users = {u1, u2}
    Invoices = {i1}
    Entries = {e1}
    Remittances = {m1}
    Transactions = {t1, t2}
    MaxCloses = 2
    MaxReopens = 1
SYMMETRY Interchangeable
INVARIANTS
    OneOpenYear
    BalancesCarriedOver
    ClosedByOneClose
    NoDraftInClosedYear
    ReversedYearIdle
    NoDeadlock
PROPERTIES
    BooksFrozen
