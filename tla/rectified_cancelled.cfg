\* A rectification commits while a cancellation of the same invoice is prepared.
SPECIFICATION Spec
CONSTANTS
    Invoices = {i1, i2}
    Workers = {w1}
    Clerks = {c1}
    MaxChain = 3
    MaxAttempts = 1
    MaxInterventions = 0
    MayPause = FALSE
SYMMETRY Interchangeable
INVARIANTS
    CancelledWhileIssued
