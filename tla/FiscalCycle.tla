----------------------------- MODULE FiscalCycle -----------------------------
(***************************************************************************)
(* The accounting cycle: a fiscal year is closed on the request of one     *)
(* person and the approval of another, which opens the next one, and the   *)
(* close is undone the same way.  Meanwhile documents are dated and posted *)
(* in the open year.                                                       *)
(*                                                                         *)
(* Every operation is a transaction under READ COMMITTED that takes its    *)
(* locks one by one, in the order of the code, then checks, then commits.  *)
(* Between two of its steps other transactions run.  Locks are held to the *)
(* end.  A row that does not exist can be locked here, which only delays.  *)
(* Idempotency keys are fresh: a repeated key replays the first answer.    *)
(***************************************************************************)
EXTENDS Integers, Sequences, SequencesExt

CONSTANTS LastYear,      \* fiscal years are 1..LastYear, and the last is not closed
          Users,         \* who requests and approves
          Invoices,      \* drafted, then issued: an issued one has a journal entry
          Entries,       \* posted at once: manual entries, payments, purchases, voidings
          Remittances,   \* dated in a year, without a journal entry
          Transactions,  \* requests of the web server that may run at the same time
          MaxCloses,     \* requests of closing, at most
          MaxReopens     \* requests of reopening, at most

ASSUME YearAssumption == LastYear \in Nat \ {0}
ASSUME BoundAssumption == MaxCloses \in Nat /\ MaxReopens \in Nat
ASSUME DocumentAssumption ==
    Invoices \cap Entries = {} /\ Invoices \cap Remittances = {} /\ Entries \cap Remittances = {}

VARIABLES year,     \* accounting_fiscal_years.status
          plan,     \* accounting_accounts of each year: own, or copied from the previous year
          ledger,   \* the posted accounting_journal_entries of each year, by sequence
          closes,   \* accounting_fiscal_year_close_requests
          reopens,  \* accounting_fiscal_year_reopen_requests
          doc,      \* documents: status, year of their date and VERI*FACTU status
          held,     \* the locks each transaction holds
          tx        \* each transaction: its operation, what is left to do of it

vars == <<year, plan, ledger, closes, reopens, doc, held, tx>>
records == <<year, plan, ledger, closes, reopens, doc>>

Years == 1..LastYear
Documents == Invoices \cup Entries \cup Remittances

\* Groups 6 and 7, account 129, a customer's account and one opened later.
Accounts == {"result", "profit", "client", "client2"}
Patrimonial == Accounts \ {"result"}
Clients == {"client", "client2"}

JournalEntry(origin, of, amount) == [origin |-> origin, of |-> of, amount |-> amount]
\* Debits less credits of every account, in some of the entries and in all.
BalanceAt(entries, positions) ==
    [a \in Accounts |->
        SumFunctionOnSet([p \in DOMAIN entries |-> entries[p].amount[a]], positions)]
Balance(entries) == BalanceAt(entries, DOMAIN entries)
Sale(client) ==
    [a \in Accounts |-> CASE a = client -> 1 [] a = "result" -> -1 [] OTHER -> 0]

NoAccounts == [a \in Accounts |-> "absent"]
InitialAccounts == [a \in Accounts |-> IF a = "client2" THEN "absent" ELSE "own"]
Undated == [status |-> "ABSENT", year |-> 0, fiscal |-> "none"]
Idle == [kind |-> "none", year |-> 0, close |-> 0, reopen |-> 0, user |-> {},
         doc |-> {}, todo |-> <<>>, checked |-> FALSE]

Init ==
    /\ year = [y \in Years |-> "ABSENT"]
    /\ plan = [y \in Years |-> NoAccounts]
    /\ ledger = [y \in Years |-> <<>>]
    /\ closes = <<>>
    /\ reopens = <<>>
    /\ doc = [d \in Documents |-> Undated]
    /\ held = [t \in Transactions |-> {}]
    /\ tx = [t \in Transactions |-> Idle]
-----------------------------------------------------------------------------
(* What the operations check.                                              *)

\* The next year does not exist, or is what a reopening left of it.
NextYearFree(y) == y < LastYear /\ year[y + 1] \in {"ABSENT", "REVERSED"}

\* No draft and no invoice that AEAT has not settled is dated in the year.
ClosePreflightReady(y) ==
    \A d \in Invoices :
        doc[d].year = y => doc[d].status = "POSTED" /\ doc[d].fiscal = "RESOLVED"

Closable(y) == year[y] = "OPEN" /\ NextYearFree(y) /\ ClosePreflightReady(y)

CanRequestClose(y) ==
    /\ Closable(y)
    /\ \A c \in 1..Len(closes) : closes[c].year = y => closes[c].status # "REQUESTED"

\* Mutant: the status is left to the unique index of the journal entries.
CanApproveClose_AnyStatus(c, user) ==
    /\ closes[c].by # user
    /\ Closable(closes[c].year)

CanApproveClose(c, user) ==
    /\ closes[c].status = "REQUESTED"
    /\ closes[c].by # user
    /\ Closable(closes[c].year)

ReopenedIn(requests, c) ==
    \E r \in 1..Len(requests) : requests[r].close = c /\ requests[r].status = "COMPLETED"

\* Every journal entry of the successor is the opening of some close of the
\* year, or its reversal by a completed reopening.
NoSuccessorJournalActivity(y, requests) ==
    LET own == {c \in 1..Len(closes) : closes[c].year = y /\ closes[c].status = "COMPLETED"} IN
    \A p \in 1..Len(ledger[y + 1]) :
        \/ \E c \in own : closes[c].opening = p
        \/ \E r \in 1..Len(requests) :
               requests[r].close \in own /\ requests[r].status = "COMPLETED" /\ requests[r].opening = p

Unreversed(y, p) == \A q \in 1..Len(ledger[y]) : ledger[y][q].of # p
EvidenceValid(c) ==
    LET y == closes[c].year IN
    /\ \A p \in {closes[c].regularization, closes[c].closing} \ {0} : Unreversed(y, p)
    /\ closes[c].opening # 0 => Unreversed(y + 1, closes[c].opening)

PlanCopied(y) ==
    \A a \in Accounts :
        plan[y + 1][a] = IF plan[y][a] = "absent" THEN "absent" ELSE "copied"

\* Mutant: only the year to be reopened is looked at.
ReopenPreflightReady_IgnoresSuccessor(c, requests) ==
    /\ year[closes[c].year] = "CLOSED"
    /\ ~ ReopenedIn(requests, c)
    /\ EvidenceValid(c)

ReopenPreflightReady(c, requests) ==
    LET y == closes[c].year IN
    /\ year[y] = "CLOSED"
    /\ year[y + 1] = "OPEN"
    /\ EvidenceValid(c)
    /\ ~ ReopenedIn(requests, c)
    /\ NoSuccessorJournalActivity(y, requests)
    /\ \A k \in 1..Len(closes) : closes[k].year # y + 1
    /\ y + 2 \in Years => year[y + 2] = "ABSENT"
    /\ PlanCopied(y)
    /\ \A d \in Invoices \cup Remittances : doc[d].year # y + 1

CanRequestReopen(c, requests) ==
    /\ closes[c].status = "COMPLETED"
    /\ \A r \in 1..Len(requests) : requests[r].close = c => requests[r].status # "REQUESTED"
    /\ ReopenPreflightReady(c, requests)

CanApproveReopen(r, user, requests) ==
    /\ requests[r].status = "REQUESTED"
    /\ requests[r].by # user
    /\ closes[requests[r].close].status = "COMPLETED"
    /\ ReopenPreflightReady(requests[r].close, requests)

Admissible(t, requests) ==
    LET x == tx[t] IN
    CASE x.kind = "requestClose"  -> CanRequestClose(x.year)
      [] x.kind = "cancelClose"   -> closes[x.close].status = "REQUESTED" /\ closes[x.close].by = x.user
      [] x.kind = "approveClose"  -> CanApproveClose(x.close, x.user)
      [] x.kind = "requestReopen" -> CanRequestReopen(x.close, requests)
      [] x.kind = "approveReopen" -> CanApproveReopen(x.reopen, x.user, requests)
      [] x.kind = "cancelReopen"  -> requests[x.reopen].status = "REQUESTED" /\ requests[x.reopen].by = x.user
      [] x.kind = "rejectReopen"  -> requests[x.reopen].status = "REQUESTED" /\ requests[x.reopen].by # x.user
      [] x.kind = "account"       -> year[x.year] = "OPEN" /\ plan[x.year]["client2"] = "absent"
      [] x.kind = "issue"         -> year[x.year] = "OPEN" /\ \A d \in x.doc : doc[d].status = "DRAFT"
      [] OTHER                    -> year[x.year] = "OPEN"
-----------------------------------------------------------------------------
(* The steps of each operation before it commits: exclusive locks (FOR     *)
(* UPDATE, the advisory lock of the cycle), shared ones (FOR KEY SHARE, of *)
(* a foreign key too) and the checks.  Checks that the code makes between  *)
(* two locks are made at the last one: what they read is locked already.   *)

Exclusive(of, n) == [mode |-> "exclusive", on |-> <<of, n>>]
Shared(of, n) == [mode |-> "shared", on |-> <<of, n>>]
Check == [mode |-> "check", on |-> <<"none", 0>>]
Cycle == Exclusive("cycle", 0)

StepsOfRequestClose(y) == <<Exclusive("year", y), Check>>
StepsOfCancelClose(c) == <<Exclusive("close", c), Check>>
\* Mutants: the years are not locked; the request is locked before the cycle.
StepsOfApproveClose_YearsUnlocked(c, y) == <<Cycle, Exclusive("close", c), Check>>
StepsOfApproveClose_RequestFirst(c, y) ==
    <<Exclusive("close", c), Cycle, Exclusive("year", y), Exclusive("year", y + 1), Check>>

StepsOfApproveClose(c, y) ==
    <<Cycle, Exclusive("close", c), Exclusive("year", y), Exclusive("year", y + 1), Check>>
StepsOfRequestReopen(c, y) ==
    <<Cycle, Exclusive("close", c), Check, Shared("year", y), Shared("year", y + 1)>>
StepsOfApproveReopen(r, c, y) ==
    <<Cycle, Exclusive("reopen", r), Exclusive("close", c),
      Exclusive("year", y), Exclusive("year", y + 1), Check>>
StepsOfSettleReopen(r) == <<Cycle, Exclusive("reopen", r), Check>>
StepsOfPosting(y) == <<Exclusive("year", y), Check>>
StepsOfIssue(d, y) == <<Exclusive("doc", d), Exclusive("year", y), Check>>
\* Mutant: the draft locks its client and not the year of its date.
StepsOfDraft_ClientOnly(y) == <<Shared("client", y), Check>>
StepsOfDraft(y) == <<Shared("year", y), Check>>
\* Mutant: a remittance locks its account and not the cycle.
StepsOfRemittance_AccountOnly == <<Shared("account", 0), Check>>
StepsOfRemittance == <<Cycle, Check>>

Conflicting(a, b) == a.on = b.on /\ (a.mode = "exclusive" \/ b.mode = "exclusive")
Pending(t) == Head(tx[t].todo)
Busy(t) == tx[t].todo # <<>>
Free(t, lock) == \A u \in Transactions \ {t} : \A l \in held[u] : ~ Conflicting(lock, l)
Waits(t, u) == t # u /\ Busy(t) /\ \E l \in held[u] : Conflicting(Pending(t), l)

\* Nothing is read before the first lock, so a transaction begins with it: one
\* that waits for its first lock holds nothing and has no effect.
Begin(t, operation) ==
    /\ tx[t] = Idle
    /\ Free(t, Head(operation.todo))
    /\ held' = [held EXCEPT ![t] = {Head(operation.todo)}]
    /\ tx' = [tx EXCEPT ![t] = [operation EXCEPT !.todo = Tail(@)]]
    /\ UNCHANGED records

BeginRequestClose(t, y, u) ==
    /\ y < LastYear
    /\ Len(closes) < MaxCloses
    /\ Begin(t, [Idle EXCEPT !.kind = "requestClose", !.year = y, !.user = u,
                             !.todo = StepsOfRequestClose(y)])

BeginCancelClose(t, c, u) ==
    Begin(t, [Idle EXCEPT !.kind = "cancelClose", !.close = c, !.user = u,
                          !.todo = StepsOfCancelClose(c)])

BeginApproveClose(t, c, u) ==
    Begin(t, [Idle EXCEPT !.kind = "approveClose", !.close = c, !.user = u,
                          !.todo = StepsOfApproveClose(c, closes[c].year)])

BeginRequestReopen(t, c, u) ==
    /\ Len(reopens) < MaxReopens
    /\ Begin(t, [Idle EXCEPT !.kind = "requestReopen", !.close = c, !.user = u,
                             !.todo = StepsOfRequestReopen(c, closes[c].year)])

BeginApproveReopen(t, r, u) ==
    LET c == reopens[r].close IN
    Begin(t, [Idle EXCEPT !.kind = "approveReopen", !.close = c, !.reopen = r, !.user = u,
                          !.todo = StepsOfApproveReopen(r, c, closes[c].year)])

BeginCancelReopen(t, r, u) ==
    Begin(t, [Idle EXCEPT !.kind = "cancelReopen", !.reopen = r, !.user = u,
                          !.todo = StepsOfSettleReopen(r)])

BeginRejectReopen(t, r, u) ==
    Begin(t, [Idle EXCEPT !.kind = "rejectReopen", !.reopen = r, !.user = u,
                          !.todo = StepsOfSettleReopen(r)])

BeginOpenAccount(t, y) ==
    Begin(t, [Idle EXCEPT !.kind = "account", !.year = y, !.todo = StepsOfPosting(y)])

\* A document that no other transaction is creating.
Fresh(d) == doc[d] = Undated /\ \A t \in Transactions : d \notin tx[t].doc

BeginCreate(t, d, y) ==
    /\ Fresh(d)
    /\ Begin(t, [Idle EXCEPT
           !.kind = "create", !.year = y, !.doc = {d},
           !.todo = CASE d \in Invoices -> StepsOfDraft(y)
                      [] d \in Remittances -> StepsOfRemittance
                      [] d \in Entries -> StepsOfPosting(y)])

BeginIssue(t, d, y) ==
    /\ doc[d].status = "DRAFT"
    /\ Begin(t, [Idle EXCEPT !.kind = "issue", !.year = y, !.doc = {d},
                             !.todo = StepsOfIssue(d, y)])

CanBegin(t) ==
    \/ \E y \in Years :
         \/ \E u \in Users : BeginRequestClose(t, y, u)
         \/ BeginOpenAccount(t, y)
         \/ \E d \in Documents : BeginCreate(t, d, y)
         \/ \E d \in Invoices : BeginIssue(t, d, y)
    \/ \E u \in Users, c \in 1..Len(closes) :
         BeginCancelClose(t, c, u) \/ BeginApproveClose(t, c, u) \/ BeginRequestReopen(t, c, u)
    \/ \E u \in Users, r \in 1..Len(reopens) :
         BeginApproveReopen(t, r, u) \/ BeginCancelReopen(t, r, u) \/ BeginRejectReopen(t, r, u)
-----------------------------------------------------------------------------
(* Locks, checks, refusals and failures.                                   *)

End(t) ==
    /\ held' = [held EXCEPT ![t] = {}]
    /\ tx' = [tx EXCEPT ![t] = Idle]

Lock(t) ==
    /\ Busy(t)
    /\ Pending(t) # Check
    /\ Free(t, Pending(t))
    /\ held' = [held EXCEPT ![t] = @ \cup {Pending(t)}]
    /\ tx' = [tx EXCEPT ![t].todo = Tail(@)]
    /\ UNCHANGED records

\* The first n requests are more than seven days old: those that are still
\* open expire.  Only those of one close when it is asked to be reopened.
Expired(n, c) ==
    [r \in 1..Len(reopens) |->
        IF r <= n /\ reopens[r].status = "REQUESTED" /\ c \in {0, reopens[r].close}
        THEN [reopens[r] EXCEPT !.status = "EXPIRED"] ELSE reopens[r]]

ReopenOperation == {"requestReopen", "approveReopen", "cancelReopen", "rejectReopen"}
\* Every reader of a request to reopen holds the lock of the cycle, so it can
\* be seen to expire now and not at the commit.
ExpireStale(t) ==
    IF tx[t].kind \notin ReopenOperation THEN UNCHANGED reopens
    ELSE \E n \in 0..Len(reopens) :
           reopens' = Expired(n, IF tx[t].kind = "requestReopen" THEN tx[t].close ELSE 0)

\* A refused operation commits too: it may have expired requests.
CheckOrRefuse(t) ==
    /\ Busy(t)
    /\ Pending(t) = Check
    /\ ExpireStale(t)
    /\ IF Admissible(t, reopens')
       THEN /\ tx' = [tx EXCEPT ![t].todo = Tail(@), ![t].checked = TRUE]
            /\ UNCHANGED held
       ELSE End(t)
    /\ UNCHANGED <<year, plan, ledger, closes, doc>>

\* A crash of the server, a timeout, a lost connection.
Fail(t) ==
    /\ tx[t] # Idle
    /\ End(t)
    /\ UNCHANGED records

ListReopens ==
    /\ \A t \in Transactions : Cycle \notin held[t]
    /\ \E n \in 1..Len(reopens) : reopens' = Expired(n, 0)
    /\ UNCHANGED <<year, plan, ledger, closes, doc, held, tx>>
-----------------------------------------------------------------------------
(* What the operations write.                                              *)

CreateInitialYear ==
    /\ \A y \in Years : year[y] = "ABSENT"
    /\ year' = [year EXCEPT ![1] = "OPEN"]
    /\ plan' = [plan EXCEPT ![1] = InitialAccounts]
    /\ UNCHANGED <<ledger, closes, reopens, doc, held, tx>>

Committing(t, kind) ==
    /\ tx[t].kind = kind
    /\ tx[t].todo = <<>>
    /\ End(t)

CommitRequestClose(t) ==
    /\ Committing(t, "requestClose")
    /\ closes' = Append(closes, [year |-> tx[t].year, status |-> "REQUESTED", by |-> tx[t].user,
                                 regularization |-> 0, closing |-> 0, opening |-> 0])
    /\ UNCHANGED <<year, plan, ledger, reopens, doc>>

CommitCancelClose(t) ==
    /\ Committing(t, "cancelClose")
    /\ closes' = [closes EXCEPT ![tx[t].close].status = "CANCELLED"]
    /\ UNCHANGED <<year, plan, ledger, reopens, doc>>

\* An entry over some accounts, unless all its lines would be empty.
EntryUnlessEmpty(origin, amount) ==
    IF \A a \in Accounts : amount[a] = 0 THEN <<>> ELSE <<JournalEntry(origin, 0, amount)>>

Regularization(balance) ==
    EntryUnlessEmpty("REGULARIZATION",
        [a \in Accounts |-> CASE a = "result" -> - balance["result"]
                              [] a = "profit" -> balance["result"]
                              [] OTHER -> 0])
Regularized(balance) ==
    [balance EXCEPT !["result"] = 0, !["profit"] = @ + balance["result"]]
Closing(balance) == EntryUnlessEmpty("CLOSING", [a \in Accounts |-> - balance[a]])
Opening(balance, accounts) ==
    EntryUnlessEmpty("OPENING",
        [a \in Accounts |-> IF accounts[a] = "copied" THEN balance[a] ELSE 0])

\* Mutant: the plan of a year that exists is left as it is.
WithMissingAccounts_OnlyNewYears(accounts, source) ==
    IF accounts = NoAccounts
    THEN [a \in Accounts |-> IF source[a] # "absent" THEN "copied" ELSE "absent"]
    ELSE accounts

\* The accounts of the source that the successor has no copy of.
WithMissingAccounts(accounts, source) ==
    [a \in Accounts |-> IF accounts[a] = "absent" /\ source[a] # "absent" THEN "copied" ELSE accounts[a]]

Position(entries, e) == IF e = <<>> THEN 0 ELSE Len(entries) + 1

CommitApproveClose(t) ==
    LET c == tx[t].close
        y == closes[c].year
        accounts == WithMissingAccounts(plan[y + 1], plan[y])
        regularization == Regularization(Balance(ledger[y]))
        balance == Regularized(Balance(ledger[y]))
        closing == Closing(balance)
        opening == Opening(balance, accounts)
    IN
    /\ Committing(t, "approveClose")
    /\ ledger' = [ledger EXCEPT ![y] = @ \o regularization \o closing, ![y + 1] = @ \o opening]
    /\ year' = [year EXCEPT ![y] = "CLOSED", ![y + 1] = "OPEN"]
    /\ plan' = [plan EXCEPT ![y + 1] = accounts]
    /\ closes' = [closes EXCEPT ![c] = [@ EXCEPT
           !.status = "COMPLETED",
           !.regularization = Position(ledger[y], regularization),
           !.closing = Position(ledger[y] \o regularization, closing),
           !.opening = Position(ledger[y + 1], opening)]]
    /\ UNCHANGED <<reopens, doc>>

CommitRequestReopen(t) ==
    /\ Committing(t, "requestReopen")
    /\ reopens' = Append(reopens, [close |-> tx[t].close, status |-> "REQUESTED",
                                   by |-> tx[t].user, opening |-> 0])
    /\ UNCHANGED <<year, plan, ledger, closes, doc>>

Reversal(entries, p) ==
    IF p = 0 THEN <<>>
    ELSE <<JournalEntry("FISCAL_YEAR_CLOSE_REVERSAL", p, [a \in Accounts |-> - entries[p].amount[a]])>>

CommitApproveReopen(t) ==
    LET r == tx[t].reopen
        close == closes[reopens[r].close]
        y == close.year
        opening == Reversal(ledger[y + 1], close.opening)
        closing == Reversal(ledger[y], close.closing)
        regularization == Reversal(ledger[y], close.regularization)
    IN
    /\ Committing(t, "approveReopen")
    /\ ledger' = [ledger EXCEPT ![y] = @ \o closing \o regularization, ![y + 1] = @ \o opening]
    /\ year' = [year EXCEPT ![y + 1] = "REVERSED", ![y] = "OPEN"]
    /\ reopens' = [reopens EXCEPT ![r] = [@ EXCEPT
           !.status = "COMPLETED", !.opening = Position(ledger[y + 1], opening)]]
    /\ UNCHANGED <<plan, closes, doc>>

CommitSettleReopen(t) ==
    /\ \/ /\ Committing(t, "cancelReopen")
          /\ reopens' = [reopens EXCEPT ![tx[t].reopen].status = "CANCELLED"]
       \/ /\ Committing(t, "rejectReopen")
          /\ reopens' = [reopens EXCEPT ![tx[t].reopen].status = "REJECTED"]
    /\ UNCHANGED <<year, plan, ledger, closes, doc>>

CommitOpenAccount(t) ==
    /\ Committing(t, "account")
    /\ plan' = [plan EXCEPT ![tx[t].year]["client2"] = "own"]
    /\ UNCHANGED <<year, ledger, closes, reopens, doc>>

\* A journal entry needs accounts of the year that are in its plan.
Posted(y) ==
    \E client \in Clients :
        /\ plan[y][client] # "absent"
        /\ ledger' = [ledger EXCEPT ![y] = Append(@, JournalEntry("DOCUMENT", 0, Sale(client)))]

CommitCreate(t) ==
    /\ Committing(t, "create")
    /\ \E d \in tx[t].doc :
        /\ doc' = [doc EXCEPT ![d] =
               [status |-> IF d \in Invoices THEN "DRAFT" ELSE "POSTED",
                year |-> tx[t].year, fiscal |-> "none"]]
        /\ IF d \in Entries THEN Posted(tx[t].year) ELSE UNCHANGED ledger
    /\ UNCHANGED <<year, plan, closes, reopens>>

\* The date of issue is given again, and may be of another year than the draft.
\* Without a SIF installation there is nothing to declare.
CommitIssue(t) ==
    /\ Committing(t, "issue")
    /\ \E d \in tx[t].doc, fiscal \in {"PENDING", "RESOLVED"} :
        doc' = [doc EXCEPT ![d] = [status |-> "POSTED", year |-> tx[t].year, fiscal |-> fiscal]]
    /\ Posted(tx[t].year)
    /\ UNCHANGED <<year, plan, closes, reopens>>

\* AEAT answers; a cancellation or a correction is declared.  None of them
\* looks at the fiscal year of the invoice.
FiscalStatusChanges(d, from, to) ==
    /\ doc[d].fiscal = from
    /\ doc' = [doc EXCEPT ![d].fiscal = to]
    /\ UNCHANGED <<year, plan, ledger, closes, reopens, held, tx>>

Commit(t) ==
    \/ CommitRequestClose(t) \/ CommitCancelClose(t) \/ CommitApproveClose(t)
    \/ CommitRequestReopen(t) \/ CommitApproveReopen(t) \/ CommitSettleReopen(t)
    \/ CommitOpenAccount(t) \/ CommitCreate(t) \/ CommitIssue(t)

Next ==
    \/ CreateInitialYear
    \/ ListReopens
    \/ \E d \in Invoices :
         \/ FiscalStatusChanges(d, "PENDING", "RESOLVED")
         \/ FiscalStatusChanges(d, "RESOLVED", "PENDING")
    \/ \E t \in Transactions :
         CanBegin(t) \/ Lock(t) \/ CheckOrRefuse(t) \/ Fail(t) \/ Commit(t)

Spec == Init /\ [][Next]_vars
-----------------------------------------------------------------------------
(* Properties.                                                             *)

Statuses == {"ABSENT", "OPEN", "CLOSED", "REVERSED"}
Origins == {"DOCUMENT", "REGULARIZATION", "CLOSING", "OPENING", "FISCAL_YEAR_CLOSE_REVERSAL"}
CloseRequests ==
    [year : 1..(LastYear - 1), status : {"REQUESTED", "CANCELLED", "COMPLETED"}, by : Users,
     regularization : Nat, closing : Nat, opening : Nat]
ReopenRequests ==
    [close : Nat, status : {"REQUESTED", "CANCELLED", "REJECTED", "EXPIRED", "COMPLETED"},
     by : Users, opening : Nat]
Kinds == {"none", "requestClose", "cancelClose", "approveClose", "account", "create", "issue"}
         \cup ReopenOperation
Steps == [mode : {"exclusive", "shared", "check"},
          on : {"cycle", "close", "reopen", "year", "doc", "none"} \X (Documents \cup Nat)]
Operations ==
    [kind : Kinds, year : 0..LastYear, close : Nat, reopen : Nat, user : Users \cup {{}},
     doc : SUBSET Documents, todo : Seq(Steps), checked : BOOLEAN]

\* What an operation says of its user, its year and the requests it is about.
Refers(operation) ==
    /\ operation.kind \in {"requestClose", "requestReopen"} => operation.user \in Users
    /\ operation.kind = "requestClose" => operation.year \in 1..(LastYear - 1)
    /\ operation.kind \in {"cancelClose", "approveClose", "requestReopen", "approveReopen"}
           => operation.close \in 1..Len(closes)
    /\ operation.kind \in {"approveReopen", "cancelReopen", "rejectReopen"}
           => operation.reopen \in 1..Len(reopens)
    /\ operation.kind \in {"account", "create", "issue"} => operation.year \in Years
    /\ operation.kind \in {"create", "issue"} => operation.doc # {}

\* The requests of closing and reopening, and what transactions do with them.
CycleTypeOK ==
    /\ year \in [Years -> Statuses]
    /\ closes \in Seq(CloseRequests)
    /\ reopens \in Seq(ReopenRequests)
    /\ \A r \in 1..Len(reopens) : reopens[r].close \in 1..Len(closes)
    /\ held \in [Transactions -> SUBSET Steps]
    /\ tx \in [Transactions -> Operations]
    /\ \A t \in Transactions : Refers(tx[t])

\* Once the accounts are opened one year is open, those before it are closed
\* and the one after it, if it exists, is what a reopening left: requests and
\* approvals of closing and reopening never open two years or none.
OneOpenYear ==
    \/ \A y \in Years : year[y] = "ABSENT"
    \/ \E o \in Years :
         /\ year[o] = "OPEN"
         /\ \A y \in Years : y < o => year[y] = "CLOSED"
         /\ \A y \in Years : y = o + 1 => year[y] \in {"ABSENT", "REVERSED"}
         /\ \A y \in Years : y > o + 1 => year[y] = "ABSENT"

\* The entries of one origin in a ledger, and the reversals of these.
From(origin, entries) ==
    {p \in DOMAIN entries :
        \/ entries[p].origin = origin
        \/ entries[p].of # 0 /\ entries[entries[p].of].origin = origin}

\* What a close carried over is what the year left: a year that is not open
\* has no balance, and the opening of the next year is what the closed one
\* held before its closing entry, however often it was closed and reopened,
\* and with accounts opened in between.
BalancesCarriedOver ==
    /\ \A y \in Years : year[y] # "OPEN" => \A a \in Accounts : Balance(ledger[y])[a] = 0
    /\ \A y \in Years :
         year[y] = "CLOSED" =>
             BalanceAt(ledger[y + 1], From("OPENING", ledger[y + 1]))
                 = BalanceAt(ledger[y], DOMAIN ledger[y] \ From("CLOSING", ledger[y]))

\* Nothing is posted in a year that is not open: postings wait for the close
\* or are refused, and an entry is never changed nor removed.
BooksFrozen ==
    [][\A y \in Years :
         /\ Len(ledger[y]) <= Len(ledger'[y])
         /\ \A p \in 1..Len(ledger[y]) : ledger'[y][p] = ledger[y][p]
         /\ year[y] # "OPEN" /\ year'[y] = year[y] => ledger'[y] = ledger[y]]_vars

\* docs/contabilidad/01-especificacion-funcional.md:654-655: a close and a
\* dated draft never both commit and leave the draft in a closed year.
NoDraftInClosedYear ==
    \A d \in Invoices : doc[d].status = "DRAFT" => year[doc[d].year] = "OPEN"

\* What was dated or posted in the successor is not lost under a reopening: a
\* reversed year has no documents, and its entries cancel out.
ReversedYearIdle ==
    \A y \in Years : year[y] = "REVERSED" =>
        /\ \A d \in Documents : doc[d].year # y
        /\ \A p \in 1..Len(ledger[y]) :
             ledger[y][p].of = 0 => \E q \in 1..Len(ledger[y]) : ledger[y][q].of = p

\* The requests account for the state: a year is closed when one of its
\* completed closes was not reopened, and never two of them at once.
CloseInForce(c) == closes[c].status = "COMPLETED" /\ ~ ReopenedIn(reopens, c)
ClosedByOneClose ==
    \A y \in Years :
        LET inForce == {c \in 1..Len(closes) : closes[c].year = y /\ CloseInForce(c)} IN
        /\ year[y] = "CLOSED" <=> inForce # {}
        /\ \A c, d \in inForce : c = d

\* The operations of the cycle take the advisory lock, requests and years in
\* one order, and so no two transactions ever wait for each other.
NoDeadlock == \A t, u \in Transactions : ~ (Waits(t, u) /\ Waits(u, t))
=============================================================================
