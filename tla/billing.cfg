\* Two workers, crashes, expired leases and maintenance on a chain of two records;
\* or three transactions over two drafts and two rectifications, lock by lock.
SPECIFICATION BillingSpec
CONSTANTS
    Invoices = {i1, i2}
    Workers = {w1, w2}
    Clerks = {}
    MaxChain = 2
    MaxAttempts = 2
    MaxInterventions = 1
    MayPause = TRUE
    Drafts = {d1, d2}
    Credits = {r1, r2}
    Transactions = {t1, t2, t3}
    MaxDate = 1
    MaxRecords = 4
SYMMETRY Interchangeable
INVARIANTS
    TypeOK
    SubmittedAtMostOnce
    AeatSeesChainInOrder
    OneLiveMessage
    NumbersWithoutGaps
    ChainFollowsNumbers
    RectifiedOnce
    OnlyMixedDeadlocks
PROPERTIES
    VerdictStable
