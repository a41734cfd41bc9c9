\* Every record is settled or handed to the operator. No symmetry: liveness.
SPECIFICATION LiveSpec
CONSTANTS
    Invoices = {i1, i2}
    Workers = {w1}
    Clerks = {}
    MaxChain = 2
    MaxAttempts = 2
    MaxInterventions = 0
    MayPause = FALSE
PROPERTIES
    Settled
