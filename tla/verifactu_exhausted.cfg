\* A RECONCILE whose last lease expires stays pending for ever.
SPECIFICATION Spec
CONSTANTS
    Invoices = {i1}
    Workers = {w1}
    Clerks = {}
    MaxChain = 1
    MaxAttempts = 2
    MaxInterventions = 0
    MayPause = FALSE
INVARIANTS
    ExhaustedIsDead
