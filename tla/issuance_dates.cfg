\* Two requests issue with different dates at the same time.
SPECIFICATION IssuanceSpec
CONSTANTS
    Drafts = {d1, d2}
    Credits = {c1}
    Transactions = {t1, t2}
    MaxDate = 2
INVARIANTS
    NumbersFollowDates
