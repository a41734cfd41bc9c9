# A TLA+ verification of CriGestión

CriGestión is a management application for a small company: invoicing,
accounting, treasury, subscriptions, customer support and VERI\*FACTU, the
declaration of every invoice to the Spanish tax agency (AEAT). It is a modular
monolith in TypeScript (Next.js route handlers over application services) on
one PostgreSQL database, with a few Node worker processes. Paths below are
those of the repository under `src/`; line numbers refer to the commit
beside which this directory is kept.

1. [Inventory](#1-inventory)
2. [Plan](#2-plan)
3. [The modules and the code](#3-the-modules-and-the-code)
4. [Runs, bounds and fairness](#4-runs-bounds-and-fairness)
5. [What is proved](#5-what-is-proved)
6. [Disagreements met while modelling](#6-disagreements-met-while-modelling)
7. [What is not modelled](#7-what-is-not-modelled)

## 1. Inventory

All durable state lives in PostgreSQL. A request or a worker does its work in
database transactions (Prisma, READ COMMITTED unless said otherwise) that take
row locks (`SELECT ... FOR UPDATE`) and transaction-scoped advisory locks; the
memory of a process matters only between two transactions. Modules call one
another inside the caller's transaction, so a failure anywhere undoes all of it.
There is no message bus: the one asynchronous interface is the transactional
outbox of VERI\*FACTU (ADR-0008).

| Component | State | Operations | What is hard | What makes it correct |
|---|---|---|---|---|
| **VERI\*FACTU chain and outbox** (`modules/billing/application/verifactu*.ts`, `infrastructure/verifactu/`) | installation with the head of the chain, fiscal records, outbox messages with leases, append-only attempts, fiscal status of invoices | append ALTA, ANULACION or correction; claim, submit, reconcile, finalize; recover expired lease; operator intervention | crash between sending and recording; late answers; two workers; ambiguous results; queries that show an invoice instead of a record; records prepared outside their transaction | no record is sent twice; records arrive in chain order; one final answer per record, and it is AEAT's; no record is lost by the outbox |
| **VERI\*FACTU worker runtime** (`verifactuWorkerRuntime.ts`, `scripts/run-verifactu-worker.ts`) | leadership advisory lock on a connection of its own, heartbeat, run records | lead, poll, record, beat, stop, release | leadership lost while a message is in hand; a loop, a heartbeat and the mark of a signal under way at once; statements whose answer is lost | the runs that operators see tell what the processes do, and stay as they ended; the lock is kept until the work is over; two leaders do no more harm than two workers |
| **Invoices** (`invoices.ts`, `invoiceTechnicalVoiding.ts`) | invoices, lines, due dates, number sequences, journal entries | draft, add lines, split into due dates, issue, rectify, void | row locks taken in different orders; checks made before the lock that would protect them; failure after a number was reserved; lines added while issuing; rounding | numbers without gaps, unique, in order of date, and in the order of the fiscal chain; one rectification per invoice; an issued invoice is what was declared and posted |
| **Credentials and SIF installations** (`verifactuCredentials.ts`, `verifactuSifInstallations.ts`) | versions of mTLS credentials, trials of activation, installation life cycle | stage, try, put in force, retire | a call to AEAT between two transactions; processes that stop or are given up as too slow | a version is in force by the trial that passed and over the version it was tried against; an installation is never without one |
| **Maintenance, backup, restore** (`modules/platform`, `restoreExecutor.ts`, `backupExecutor.ts`) | maintenance switch, backup and restore operations, artifacts | switch on/off, back up, validate, copy, apply, restart | a restore replaces the database in which it is itself a row; a crash between replacement and its record; workers that are late | the way back exists and is complete; sessions do not survive a restore; maintenance lasts until the restart |
| **Sessions, users, roles** (`auth.ts`, `users.ts`, `roles.ts`) | sessions, security versions, failed-attempt counters | log in/out, lock out, change password, deactivate, change role and permissions | a login under way while its user is locked, deactivated or changed | who has a session is active, with the password and role it was opened with |
| **HTTP boundary** (`app/api/**/route.ts`) | none; audit, activity and rate-limit rows | check origin, session, permission, maintenance, key, body, limits | 203 handlers with their own order of checks; none holds a lock | no handler forgets a check; a foreign request leaves no trace |
| **Repeated requests** (idempotency records of each module) | record of key, body hash and answer | look, work, store, replay | the same request twice at the same time; lost answers; four different protocols | work is done once, and every answer is of that work |
| **Attachments** (`incidentAttachments.ts`, `companyLogoAttachments.ts`) | file metadata and files | publish, persist, reconcile, discard | file system and database change in two steps; the answer of the commit is lost | no row names a missing file; a key adds one attachment |
| **Treasury** (`modules/treasury`) | due dates, payments, returns, remittances and their lines, credits, refunds, bank movements and reconciliations | collect, return, mark unpaid; draft, generate, send, reject, settle, close remittances; apply and refund credits; import statements, reconcile and undo | several operations on one due date, some without locks; snapshots; returns | never more collected than due; statuses agree with the money; a movement and a payment are reconciled once |
| **Accounting** (`modules/accounting`) | fiscal years with their accounts, close and reopen requests, journal | open, request/approve/cancel closing, request/approve/cancel/reject/expire reopening, post | maker-checker over a stale preflight; dating and posting in a year that is being closed or undone; closing, reopening and closing again | no draft and no late entry in a closed year; one open year; what is carried over is what the year left; requests account for the state |
| **Subscriptions** (`modules/subscriptions`, `subscriptionRenewalDrafts.ts`) | subscriptions with version, reservations, exclusions, schedules | draft, confirm and release renewals; exclude, waive; cancel, change, reactivate, now or on schedule | reservation and confirmation in different transactions; schedules checked one by one | no day is invoiced twice; what was prepared can be finished |
| **Waivers** (`renewalWaiverFiscalReviews.ts`, `waiverEvidence*.ts`) | reviews, evidence, requests to reverse and replace it | open, start, close; request, approve, cancel, reject | maker-checker over two modules and a repeated request | a waiver is regularized once; nobody corrects his own decision |
| **Support** (`modules/support`) | incidents, teams, communications, merges, actions and corrections of their texts | open, assign, resolve, reopen, merge, note, correct | two merges in opposite directions; links that were checked earlier; corrections from a page that is out of date | merges are flat; nothing is attached to a merged incident; what is shown of a text is its last correction, and its history has no holes |
| **Customers** (`modules/customers`) | customers, stores, contacts, addresses, mandates | edit, activate, deactivate, mandate | data kept in two tables that seven operations write | both copies agree; a mandate is for the account |
| **Catalog** (`modules/catalog`) | items and stock, movements, tax rates | edit, move stock, pick the default rate | a form that overwrites the stock; requests that read without a lock | a movement starts from the stock there is; one default rate |
| **Purchases** (`modules/purchases`, supplier credits) | purchases, lines, due dates, rectifications, credits, refunds | draft, register, pay, return, void, replace; apply and refund credits | amounts returned line by line and rounded; credits made from what was paid | ledger, VAT register, stock and due dates agree |
| **Suppliers, notifications, configuration** | master data, read marks | edit, read | none of these | out of scope |
| **Web interface, PDF, reports** | none | render | none | out of scope |

How they meet: issuing and rectifying reserve a number, post a journal entry,
create due dates and append a fiscal record in one transaction. The worker
changes the fiscal status of invoices. Rectifying, voiding and correcting look
at fiscal records and attempts, and cancel due dates or leave credits. Every
journal posting locks its open fiscal year, every dated draft shares that lock,
and remittances take the lock of the accounting cycle, so closing and reopening
a year exclude all of them. A renewal is confirmed by issuing its draft, in the
transaction of the subscription. A purchase moves stock; a direct debit is made
from the account and mandate of the customer. Maintenance stops HTTP requests
and the claims of workers, but not work already begun.

The hazards are listed one by one, with their lines, in `PROJECT.json`.

## 2. Plan

Ordered by what would cost the company most. A fiscal record that is declared
twice, out of order or not at all cannot be taken back, so the outbox came first.

| Order | Module | What it promises | Status |
|---|---|---|---|
| 1 | `Verifactu`, `VerifactuProofs`, `RegisterProofs`; `WorkerRuntime` | `FiscalRegister`: a chain and a final verdict per record; runs that tell what their processes do | modelled, checked; every safety property proved, and the refinement |
| 2 | `Issuance`, `IssuanceProofs`; `InvoiceDrafts`, `Calculations` | a sequence of issued numbers; an issued invoice that adds up | modelled, checked; every safety property proved |
| 3 | `FiscalCycle`, `FiscalCycleProofs` | the years in line, the books frozen, balances carried over | modelled, checked; every safety property proved |
| 4 | `Treasury`, `Banking`; `TreasuryProofs`, `SumTheorems` | a due date is an account that is never overdrawn; bank movements are reconciled once | modelled, checked, proved |
| 5 | `Subscriptions`, `Waivers`; `ComponentProofs`, `BackOfficeProofs` | each day is invoiced once; a waiver is regularized once | modelled, checked, proved |
| 6 | `Restoration`, `Access`, `Credentials`; `BackOfficeProofs` | a restore can be undone; sessions are current; an installation keeps a certificate | modelled, checked, proved |
| 7 | `Support` with `Corrections`, `Attachments`, `Customers`, `Catalog`, `Purchases` | stated as invariants, section 4 | modelled, checked, proved |
| 8 | `Handlers`, `ServiceRoutes`, `LedgerRoutes`, `Boundary`, `Requests` | every request is guarded, and worked on once | modelled, checked, proved |

No safety property that a passing run checks is left without a theorem. What
could come next is breadth: the parts that section 7 lists as not modelled.

A module that is proved about has its parameters as CONSTANTS with named
assumptions, one action per operation, invariants as conjunctions of named
parts, and no RECURSIVE operator.

## 3. The modules and the code

| Module | Models |
|---|---|
| `FiscalRegister` | what the VERI\*FACTU part promises: a chain, a verdict by AEAT per record, in order and once, and what the company knows of it |
| `Verifactu` | chain, outbox, workers, clerks, operator, maintenance switch, network and AEAT |
| `WorkerRuntime` | the processes of the worker: leadership, runs, heartbeats, signals, deaths |
| `Issuance` | the transactions that issue, rectify and cancel, step by step between their row locks |
| `InvoiceDrafts`, `Calculations` | lines, rounding, totals, tax summaries, due dates, entry and fiscal record of an invoice, and requests that add lines meanwhile |
| `FiscalCycle` | closing and reopening of fiscal years, and what is dated and posted meanwhile |
| `Treasury` | due dates, payments, returns, remittances, credits and refunds of customers |
| `Banking` | bank accounts, movements, statements, reconciliations |
| `Subscriptions` | contracts, renewals, exclusions, schedules |
| `Waivers` | fiscal reviews of waived periods, their entries, evidence, reversals and replacements |
| `Restoration` | backups, restores, maintenance, restart |
| `Access` | users, roles, logins, sessions |
| `Credentials` | certificates for AEAT, their trials and rotation |
| `Support` | incidents, teams, merges, communications |
| `Corrections` | the actions noted on an incident, the corrections of their texts, and the pages that show both |
| `Attachments` | uploads of logos and of files of incidents |
| `Customers` | contacts in two tables, stores, addresses, mandates, direct debits |
| `Catalog` | stock and its movements, items, categories, the default tax rate |
| `Purchases` | purchases, returns, supplier payments, credits and refunds |
| `Requests` | requests sent again with their Idempotency-Key |
| `Handlers`, `ServiceRoutes`, `LedgerRoutes` | the checks of each of the 203 route handlers, in their order |
| `Boundary` | a request on its way through these checks |
| `MCVerifactu`, `MCIssuance`, `MCFiscalCycle`, `MCTreasury` | symmetry and instances of the modules in their name |
| `MCBilling` | the instances of `Verifactu` and `Issuance` in run `billing` |
| `MCReceivables` | the instances of `Subscriptions` and `Banking`, beside those of `MCTreasury` |
| `MCBackOffice` | the instances of `Waivers`, `Restoration`, `Access`, `Credentials`, `Support` and `Corrections`, `Attachments`, `InvoiceDrafts`, `Customers`, `Catalog`, `Purchases`, `Requests`, `Boundary` and `WorkerRuntime` |
| `VerifactuProofs`, `RegisterProofs` | theorems about `Verifactu` |
| `IssuanceProofs` | theorems about `Issuance` |
| `FiscalCycleProofs` | theorems about `FiscalCycle` |
| `TreasuryProofs` | theorems about `Treasury` and `Banking` |
| `SumTheorems` | what a sum is, over a finite set of rows or over a list |
| `ComponentProofs` | theorems about `Requests`, `Access`, `Credentials`, `WorkerRuntime`, `Subscriptions`, `InvoiceDrafts` and `Purchases` |
| `BackOfficeProofs` | theorems about `Attachments`, `Support`, `Corrections`, `Restoration`, `Customers`, `Catalog` and `Waivers` |

`PROJECT.json` maps every definition to its lines.

### 3.1 Verifactu

Every action is one database transaction or one step of a process outside a
transaction.

| State | Code |
|---|---|
| `invoice` | `invoices.status`, `verifactuStatus` and the rectified original |
| `chain` | `verifactu_fiscal_records` in chain order: type, invoice, `target` (the corrected or cancelled record, 0 for none), `over` (the record whose hash it was computed over) |
| `msg[p][op]` | the outbox message of record `p` for SUBMIT or RECONCILE: status, `attemptCount` (`tries`), `maxAttempts` (`max`), class of `lastErrorCode`, lease |
| `attempts[p]` | outcomes of `verifactu_submission_attempts` |
| `worker[w]`, `clerk[c]` | what a process remembers between two transactions |
| `wire`, `sent`, `verdict` | external: submissions under way, how often each record left, what AEAT decided |

* **Clerks.** `Issue` and `Rectify` lock the installation, prepare and append in
  one transaction. A cancellation and a correction are prepared *outside* a
  transaction. The query that prepares them is nested, and Prisma makes it
  several SQL statements, each of which sees what is committed when it runs: the
  first finds target and invoice (`PrepareCancellation`, `PrepareCorrection`), a
  later one the answer of AEAT and the head that is hashed over (`ReadHead`).
  They are committed later still (`CommitCancellation`, `CommitCorrection`),
  after a comparison of the head and a second look at the target, but no second
  look at the status of the invoice. `GiveUp` is every refusal or death in
  between. Prepare and commit read the same rows under one lock in `Rectify`, so
  it is one action.
* **Workers.** A cycle is `Recover` (one expired lease at most), then `Claim`
  or `NothingToDo`, then, outside any transaction, `FailUnsent`, or `Send` and
  `ReceiveAnswer`, or `Query`, then `Finalize` under the compare-and-set on the
  lease, or `LoseLease`. `Crash` stands for the death of the process and for any
  exception the loop catches.
* **Lease.** The code draws a random lease token per claim and compares it,
  together with `leaseUntil`, when it finalizes. A token is modelled by the
  worker that holds it. Time is abstracted to `RunOutLease`, which may come at
  any moment of a claim; whether an answer was complete in time (`onTime`) is
  what the code compares with `leaseUntil`. mTLS limits of 10 s for the
  connection and 30 s for the answer keep a normal call within the 90 s lease,
  but nothing in the model relies on it.
* **Answers.** `UnsentAnswers` are the failures that happen before anything was
  written to the socket. After that, every failure is UNKNOWN, and the
  submission may still arrive (`AeatJudges`), be lost (`LoseSubmission`), or
  have been judged already.
* **AEAT.** The query service shows the state of an *invoice*: `AeatStatus`
  computes it from the verdicts. `Admits` says what AEAT may accept: an invoice
  it does not have yet, a cancellation of one it has.
* **Backoff.** `nextAttemptAt` is abstracted: a message that was never tried is
  due; a message that was tried may or may not be due.
* **Maintenance** stops `Recover` and `Claim`, as the code does, and neither
  `Finalize` nor requests that were admitted before the switch.

Left out because in this code they only make a request be refused, never change
what an accepted one does to this state: amounts, fiscal years, due dates,
payments, permissions, and the replay of idempotent responses. Leadership is not
in this module: a worker whose lock was taken from it goes on with the message in
hand, so several workers at once are a case that happens, and the worse one.

`WorkerRuntime` has the processes themselves. `runtime[p].at` is what the loop of
process `p` awaits; `beating` and `marking` are the two statements that go on
beside it. `Lead` takes the advisory lock on a connection of its own (`locking`),
`Cut` ends that connection and `NoticeLoss`, or the next `Verify`, tells the
process; `BeginCycle` to `LeaveLoop` are the loop, `FinishRun` writes how the run
ended and `Release` gives the lock back, in that order. Any statement may fail
undone, or be done with its answer lost: a STOPPED that throws is followed by a
FAILED, which then changes nothing. `Die` leaves the run as it was: RUNNING for
ever, with a heartbeat that grows old, which is how the operator sees it. A cycle
that ends after the mark of a signal arrived is not counted, because
`recordVerifactuWorkerCycle` asks for RUNNING; the property claims the counters
of running runs only.

### 3.2 Issuance

One fiscal year, one installation, VERI\*FACTU enabled, all records accepted.
A transaction is a sequence of steps (`Following`) in the order of the code:

    issue     invoice row, chronology check, fiscal year row, number row, SIF row, commit
    rectify   invoice row, SIF row, chronology check, fiscal year row, number row, commit
    cancel    head read outside the transaction; SIF row (head comparison),
              invoice row, commit

`Lock` waits (`Free`), looks at what is committed (`Admissible`), and reads
counters under the lock; `CommitDocument` and `CommitCancel` make all writes
visible at once and free the locks; `Refuse` and `Fail` roll back. `Fail` is
also the end of a transaction that PostgreSQL's deadlock detector picks. Locking
and rollback are PostgreSQL's and marked external. A cancellation finds its
invoice in `BeginCancel` and the head in `ReadLastRecord`, two statements of the
code between which others commit. A correction of a rejected record takes locks
like a cancellation.

`Verifactu` and `Issuance` look at the same transactions at two grains:
`Issuance` justifies that `Issue` and `Rectify` can be single actions in
`Verifactu` (their chain position is decided under the SIF row lock that is
held until the commit).

### 3.3 FiscalCycle

| State | Code |
|---|---|
| `year` | `accounting_fiscal_years.status`, or ABSENT |
| `plan` | per year, which accounts exist: opened in it (`own`) or with a `sourceAccountId` (`copied`) |
| `ledger` | per year, the posted `accounting_journal_entries` in sequence: origin, the entry it reverses (`of`), amount per account |
| `closes`, `reopens` | the requests, with the positions of the entries a close posted |
| `doc` | date (its year), status and VERI\*FACTU status of invoices, entries and remittances |
| `held`, `tx` | the locks of each transaction and what is left of its operation |

A transaction is a sequence of steps (`StepsOf...`), in the order of the code:

    request close    year FOR UPDATE, check
    cancel close     request FOR UPDATE, check
    approve close    cycle, request, year, next year FOR UPDATE, check
    request reopen   cycle, close request FOR UPDATE, check, both years FOR KEY SHARE
    approve reopen   cycle, reopen request, close request, both years FOR UPDATE, check
    cancel, reject   cycle, reopen request, check
    account, entry   year FOR UPDATE, check (payments, purchases, voidings alike)
    issue            invoice, year FOR UPDATE, check
    draft            year FOR KEY SHARE, check
    remittance       cycle, check

"Cycle" is the advisory lock `accounting-fiscal-cycle`. The shared locks of a
request to reopen are those of its foreign keys. `Begin` takes the first lock,
`Lock` each further one when nobody holds a conflicting one, `CheckOrRefuse`
evaluates the guards and early returns of the operation (`Admissible`) and
expires old requests to reopen, `Commit...` writes everything at once, and
`Fail` is a crash, an exception or a lost connection at any point. Between two
steps of a transaction all others go on. What a check reads may change before
the commit unless a lock prevents it; that is what the properties are about.

* **Closing.** `CommitApproveClose` posts regularization, closing and opening
  entry (each only if it has lines), copies the accounts that the next year has
  no copy of, and opens it; the next year is created, or is the one a reopening
  left REVERSED.
* **Reopening.** `ReopenPreflightReady` is the preflight of the code: evidence
  not reversed, no later close, child year, journal or business activity in the
  successor, plan copied exactly. `CommitApproveReopen` posts the reversals.
* **Accounts** stand for what a close treats differently: `result` groups 6 and
  7, `profit` account 129, `client` an account of the initial plan, `client2`
  one that is opened later. A sale is one unit from `result` to a client.
* **Drafts.** One kind of draft stands for those of invoices, purchases, renewal
  invoices, bank movements and requests of credit refunds, which go through
  `lockOpenFiscalYearForDatedMutation`.
* **VERI\*FACTU** is the status of the invoice, which changes as `Verifactu`
  has it: settled by AEAT, pending again by a cancellation or a correction.

### 3.4 InvoiceDrafts and Calculations

`addInvoiceLine` reads the status of the invoice without a lock
(`BeginAddLine`), computes the next position (`NextPosition`), and inserts and
recalculates (`InsertLine`); the unique index of positions refuses one of two
(`PositionTaken`). Splitting into due dates and issuing lock the invoice: one
action each. `Calculations` is the arithmetic of `invoiceCalculations.ts`, in
cents, thousandths and hundredths, with its rounding half up; `Purchases` uses
the same operators.

### 3.5 Treasury and Banking

| State of `Treasury` | Code |
|---|---|
| `invoice`, `due` | status, payment status, whether AEAT annulled it; status of each due date |
| `collected`, `credited` | the sums the code computes over payments and returns, and over credit applications |
| `payment`, `remittance`, `credit`, `refund` | the rows, with the lines of a remittance that are active |
| `request` | what a request that reads without a lock, or on a snapshot, has read |

Payments, returns, drafts of remittances and their collection lock invoice and
due date first: one action each. `GenerateSepa`, `MarkSent`, `Reject`,
`CancelDraft`, `Close` and marking a due date unpaid read in one step
(`ReadStatus`, `ReadUnpaid`) and write in another whatever was written since.
`ReadCredit` and `ApplyCredit` are the snapshot and the commit of a
SERIALIZABLE compensation; it fails (`Serialization`) if a row it locks was
updated since (`Superseded`), not if a line or a lock was added. `Rectify`,
`Annul`, `Void` and `Release` are what billing does to the same rows.

In `Banking`, `BeginReconciliation` fixes the snapshot, `ReconcileMovement`
locks, checks and commits; `Overtaken` is what makes it fail.
`ReturnCollection` is READ COMMITTED and only adds a row, so a reconciliation
that began before it does not see it; such payments are remembered in `unseen`.
`ImportStatement` adds all movements of a file or none: its records must add up
from its first balance to its last, and no other statement of the account may
be about one of its days.

### 3.6 Subscriptions and Waivers

Every handler is one SERIALIZABLE transaction that locks its subscriptions, so
one action; what is hard is that each trusts what another checked days before.
Versions are abstracted to the set of subscriptions that a reservation still
matches (`current`), and `Bumped` is every update. `PrepareRenewal` applies the
due cancellations and changes, then has billing reserve the periods
(`Draftable`, `DraftOf`); `ConfirmRenewal` issues; `ReleaseRenewal` gives back;
`PreparationFailed` is the second transaction after a refusal for the customer.
Days are numbers, a period has a fixed length.

In `Waivers` a review goes from opened to started to closed with its entry as
evidence, which may be reversed or replaced by a request of one person and the
approval of another. Fiscal years are closed without regard to these requests.

### 3.7 Restoration, Access, Credentials

In `Restoration` the database is a record, `db`, and an artifact holds one:
`Replace` sets `db` to what the artifact holds, forgetting everything since,
the restore itself included, which `RecordCompleted` (or `PreparationFails`,
`ReplaceFails`) then writes back (`WrittenBack`). Workers that dump, validate and
apply are processes with places (`dumper`, `validator`, `applier`); `ReadStale`
and `FailStale` are the timeouts that read in one transaction and fail in
another an operation whose worker may only be slow.

In `Access`, `LoginReads` and `LoginCommits` enclose the comparison of the
password, `CheckPassword` and `ChangePassword` likewise, `Authorise` and `Acts`
enclose the work of an administrator. The session remembers the password and
role it was opened with, which no row keeps, so that a property can compare.

In `Credentials` a trial is `Ask`, `StartTrial`, `Probe` (AEAT, outside
transactions) and `ActivateVersion`, `FailTrial` or `ActivationFails`;
`ExpireTrials` gives up those older than five minutes on behalf of any request.

### 3.8 Support, Attachments, Customers, Catalog, Purchases

`Support`: one action per handler (SERIALIZABLE, versioned); merging, changing
customer and reopening meet in `Merge`, `ChangeCustomer` and `Transit`.
`Corrections` follows one incident: users load a page in two queries
(`LoadIncident`, `LoadNote`), send back the versions it showed (`Expected`), and a
correction is a new row that starts from the text in force (`CorrectNote`). The
history of a text is read a page at a time, from the newest row back
(`ReadNewest`, `ReadOlder`), while others go on correcting.
`Attachments`: `Publish` moves the file, `Persist` commits the row,
`PersistUnanswered` is a commit whose answer is lost, after which `Reconcile`
asks the database, if it can be reached, and keeps the file in doubt
(`LeftAfterDoubt`); `Crash` ends any request. `Customers`: seven operations
write the two copies of a contact; mandates follow the account; a direct debit
is drafted with the mandate and generated with the account. `Catalog`: a
movement locks its item, the form of the item overwrites the stock, requests for
tax rates read and write in two steps. `Purchases`: every operation is one
SERIALIZABLE transaction that is tried again; the deferred triggers of the
database are guards. A return by quantities prorates and rounds each amount by
itself (`Returned`); the last one takes what is left of the line.

### 3.9 The HTTP boundary and repeated requests

`ServiceRoutes` and `LedgerRoutes` have a definition per handler: the sequence
of its checks in the order of its code, and what its work does. `Boundary` takes
one request through one of these sequences, while things that depend on the
database (session, permissions, maintenance) may go wrong and right again
between two checks; every check reads the database anew and none holds a lock.
`Requests` has the four protocols by which modules look up, work and store an
Idempotency-Key (`way`).

## 4. Runs, bounds and fairness

| Run | Instance | Question |
|---|---|---|
| `billing` | either the outbox: 2 workers, 2 invoices, 2 records, 2 attempts, maintenance on and off, 1 intervention in a chain of one record; or the numbers: 3 transactions, 2 drafts, 2 rectifications, 1 date, 4 records | Do competing workers, crashes, late answers, lost submissions and revived messages keep records from being sent twice, out of order, judged twice in the books, or forgotten? Are numbers without gaps, chain and journal in their order, each invoice rectified once? Which transactions can deadlock? |
| `verifactu_lifecycle` | 1 worker, 2 clerks, 2 invoices, 3 records, 1 attempt, 1 intervention, maintenance on and off | Do corrections, cancellations, rectifications and voiding keep the books in agreement with AEAT? Does the outbox implement `FiscalRegister`? |
| `verifactu_liveness` | 1 worker, 2 invoices, 2 records, 2 attempts | Is every record settled or handed to the operator? |
| `fiscal_cycle` | 3 years, an invoice, an entry, a remittance; either 2 transactions at a time around 1 close and 1 reopening, or 1 at a time, 2 closes and 1 reopening | Does anything land in a year that is closed or reversed meanwhile? Do transactions wait in a circle? Closed, reopened and closed again: is one year open, and is what was carried over what the year left? |
| `treasury` | 2 invoices of one due date of 2 units each, 2 payments, 1 remittance, 1 refund, 2 requests between two steps, 2 users; subscriptions and banking, see below | Do payments, returns, remittances and credits leave due dates, invoices and credits consistent? Is each day invoiced once, and each movement reconciled once? |
| `backoffice` | see below | Does each of the components that share no state keep its promise? |
| `verifactu_exhausted`, `rectified_cancelled`, `issuance_dates`, `treasury_overcollected`, `issued_invoice`, `stale_mandate` | the instances above, or smaller ones | expected violations, see section 6 |

**`billing`, `backoffice` and `treasury`.** Their components share no variable,
and what two of them do in any order is what each does alone. So a behaviour moves one, chosen at the start
(`moving`), and leaves the others as they are initially: one run asks the
question of each component without the product of their states. Some components
have several instances, each of which bounds what the others move. In `backoffice`:

| `moving` | Instance |
|---|---|
| MERGES, TEAMS | 3 incidents of one person, to merge one that has others; 2 with teams, stores and several persons |
| TEXTS | 1 action with its corrections, an author and an administrator with a page each, pages of history that do not hold it all |
| LOGOS, REPETITIONS | a logo that replaces another; a file sent twice with one key; each beside an upload of the other kind |
| RESTORES, SESSIONS | 3 backups, 2 restores, one fault; or one restore and a session that opens and closes |
| ACCESS | 2 users, 2 roles, 2 passwords, 2 changes of security of each; every user starts with one password, and one at a time is signing in or changing it |
| DRAFTS | 1 invoice, 3 lines added by 3 requests, with quantities, discounts and rates that round |
| RETURNS, CREDITS | a purchase of two lines and two due dates; two purchases, one paid with the credit of the other, and a refund |
| CONTACTS, ADDRESSES, MANDATES | a customer with two stores; three addresses; two accounts, three mandates and a direct debit |
| CATALOG | 2 tax rates, 1 item changed three times, 2 requests between two steps |
| WAIVERS | 1 review, 2 requests of each kind, 4 persons; who opens and who starts the review is fixed |
| REQUESTS | 3 requests with one key, one body or two, each of the four ways |
| BOUNDARY | each handler, up to 2 things wrong at a time |
| ROTATIONS, CREDENTIALS | three versions of one certificate at one installation, 3 trials; two versions, of one certificate or two, at both installations; 2 processes |
| LEADERS | a service of 2 cycles that is signalled, cut off and killed, beside a process with `--once`; a heartbeat fails only while that one is not there |

In `treasury`, beside the due dates themselves (DUES):

| `moving` | Instance |
|---|---|
| SUBSCRIPTIONS | 2 subscriptions with periods of different length, 2 drafts, 3 days |
| STATEMENTS, RECONCILIATIONS | 1 account, 4 files, 3 movements; 2 movements, 2 payments and 2 requests that reconcile |

**Properties of the runs that pass.**

| Property | States |
|---|---|
| `SubmittedAtMostOnce` | no record leaves twice |
| `AeatSeesChainInOrder` | verdicts fall in chain order |
| `OneLiveMessage` | an undecided record has one message that somebody will work on or decide about, a decided one none |
| `VerdictStable` | no attempt is written after the final answer |
| `VerdictAgrees` | the final answer is AEAT's decision on *that* record |
| `FiscalStatusFollowsChain` | the status shown on the invoice is what its last record came to |
| `InvoiceEndsOnce` | nothing that rectifies an invoice is declared after its cancellation, and one is voided only if AEAT annulled it and nothing rectifies it |
| `ChainLinked` | each record is hashed over its predecessor |
| `RefinesRegister` | all of it implements `FiscalRegister` |
| `Settled` | every record is decided, or waits for the operator, it or an earlier one |
| `NumbersWithoutGaps`, `ChainFollowsNumbers` | numbers of a series are 1, 2, 3..., and records and entries follow them |
| `RectifiedOnce` | one rectification per invoice, and none after its cancellation |
| `OnlyMixedDeadlocks` | a circle of waiting transactions has a rectification and a request of another kind |
| `NoDraftInClosedYear`, `ReversedYearIdle`, `BooksFrozen` | nothing is dated or posted behind the back of a close or a reopening |
| `NoDeadlock` | no two transactions of the cycle wait for each other |
| `OneOpenYear`, `BalancesCarriedOver`, `ClosedByOneClose` | years, balances and requests agree after any history |
| `MoneyWithinOriginal` | the cash of a due date stays between nothing and its amount; compensations and refunds never use more of a credit than there is |
| `DueDatesConsistent` | PAID and SETTLED say what the money says; a cancelled due date has no cash and no direct debit |
| `BankingAddsUp` | no movement and no payment is reconciled beyond what it holds (but for an unseen return, section 6); statements lead from balance to balance and do not overlap |
| `RenewalsAddUp` | no day is invoiced twice; reservations, schedules and exclusions can be finished |
| `WaiversConsistent` | one entry regularizes a waiver and is its latest evidence; four persons stand behind a correction |
| `RestoresAreSafe` | a replaced database has a complete copy; closed sessions stay closed and maintenance lasts to the restart, unless the replacement was never recorded |
| `SessionsAreCurrent` | who has a session is active, with the password and role of its opening |
| `RotationIsSafe` | a version is in force by one trial that passed, over the version it was tried against; an installation keeps one |
| `RunsAreTrue` | a run shown ended has no process at work and stays as it ended, one shown stopping is stopping, one shown running has recorded its cycles; of two processes at work, one has lost its connection |
| `SupportConsistent`, `LinksAreDeliberate` | merges are flat, teams and follow-ups consistent; the corrections of a text are one chain, made by who saw the text before, and read without holes; communications are linked and unlinked on purpose only |
| `UploadsConsistent` | rows have files, keys add one attachment, answers are true |
| `InvoicesAddUp` | added lines are in the invoice; totals, tax summaries and entry agree to the cent |
| `CustomersConsistent` | both copies of a contact agree, the active mandate is for the account, one primary of each kind |
| `CatalogConsistent` | movements start from the stock there is, one tax rate is the default |
| `PurchasesAddUp` | ledger, VAT register, stock, due dates and credits agree |
| `RequestsWorkOnce` | work is done once; answers are of it |
| `RequestsGuarded` | for each thing the work takes there was a moment since the arrival at which it was so; a foreign request leaves no trace |

**Bounds.** `MaxChain`, `MaxAttempts`, `MaxInterventions`, `MaxDate` and the
sets of invoices, workers, clerks, drafts, credits and requests bound the
instances; they are guards of the actions that would exceed them. Two workers
are enough for an answer that comes late, since more only repeat the pair; two
records show blocking, three an ALTA with its correction and then a
cancellation; two attempts make "one more try" and "the last try" differ; two
clerks prepare over the same head. Three transactions show a circle of three, and four
records an invoice issued, rectified and cancelled beside another one; the
instance of the numbers passes without that bound too. In `billing` the
intervention comes in a chain of one record, to keep the run within minutes; in
`verifactu_lifecycle` it may come at any time. There a constraint
(`FullChainAtRest`) leaves out requests that prepare a record over a full chain,
which could only be given up. In `FiscalCycle`, a race is between an approval and one
other transaction; two closes with a reopening between them are the shortest
history in which a year is opened over accounts and entries it already has, and
with three years the successor of a reopened year may itself be closed first.
In `Treasury`, due dates of two units make partial payments and partial returns
differ from full ones, and two requests make one write over what the other
wrote. `Horizon`, `MaxFaults`, `MaxVersion`, `MaxChanges`, `MaxMovements`,
`MaxReconciliations`, `MaxCycles`, `Elaborate` and `MaxWrong` bound the
instances of `backoffice` and `treasury`; each is enough for the pair of steps its
hazard is about and one more before it.

**Symmetry** is declared in the safety runs whose module has interchangeable
members: invoices, workers, clerks, documents, transactions, payments, requests
and users are compared only for equality. The runs with a liveness property
declare none.

**Deadlock** of the whole model is checked in the runs of `Verifactu`,
`Issuance` and `FiscalCycle`: workers never stop polling, and requests never stop coming. In
`treasury`, `treasury_overcollected`, `backoffice`, `issued_invoice` and
`stale_mandate` an instance ends when its payments, uploads, purchases or
requests are used up, which is no deadlock of the system
(`CHECK_DEADLOCK FALSE`).

**Fairness** (`LiveSpec`). The service manager restarts a worker and its loop
polls without end (`scripts/run-verifactu-worker.ts:107-122`): weak fairness of
`Recover`, of `Claim` or `NothingToDo`, and of the steps outside transactions. A
transport call ends in an answer or at its timeout: weak fairness of
`ReceiveAnswer`. `Claim` is strongly fair, because backoff elapses: a message
that stays pending becomes due again and the query takes the oldest position
first. Leases run out. Nothing is assumed of clerks, the operator, AEAT or the
network, so `Settled` also says that a silent AEAT leads to the operator.

## 5. What is proved

Every theorem is proved for every value of the constants: any number of
invoices, workers, requests, years, payments or subscriptions. The assumptions
are those that the modules name: bounds are natural numbers (`BoundsAssumption`,
`BoundAssumption`, `DateAssumption`, `WorkerRuntimeAssumption`), attempts are
limited by a positive number (`BoundsAssumption`, `AccessAssumption`), there is
a fiscal year and a role of administrators (`YearAssumption`,
`AccessAssumption`), a document is of one kind (`DocumentAssumption`), a due date
has an invoice and a positive amount (`OwedAssumption`), a table that the code
sums over has finitely many rows (`RowsAssumption`), what a file and a payment
amount to is counted in cents (`BankingAssumption`), an order of a line is one
the form accepts (`OrderAssumption`), a purchase has a line and a return is of a
whole quantity (`PurchaseAssumption`), a page has a row (`CorrectionAssumption`),
a period has a day
(`SubscriptionAssumption`), a category of incidents exists
(`SupportAssumption`), every upload has its key (`AttachmentAssumption`), there is
a tax rate to begin with and stock is counted in integers (`CatalogAssumption`),
a customer is not a store (`CustomerAssumption`), and the value for "no request",
"no incident", "no upload", "no backup" or "no mandate" is not the name of one
(`RequestAssumption`, `RestorationAssumption`, `SupportAssumption`,
`AttachmentAssumption`, `CustomerAssumption`).

A property of a run is seldom inductive. For each module the proof names the
invariant that is, and shows that it holds at the start, that each action keeps
it (one lemma or one step per action), and that it implies the property. TLC
checked the invariants of `Verifactu`, `Issuance`, `FiscalCycle` and `Treasury`
on the instances of section 4 before they were proved.

### 5.1 The outbox and its chain

`VerifactuProofs` and `RegisterProofs`, about `Verifactu`:

| Theorem | Statement |
|---|---|
| `TypeCorrect` | `Spec => []TypeOK` |
| `ChainIsLinked` | `Spec => []ChainLinked` |
| `NeverSentTwice` | `Spec => []SubmittedAtMostOnce` |
| `OutboxNeverLosesARecord` | `Spec => []OneLiveMessage` |
| `VerdictsAreFinal` | `Spec => VerdictStable` |
| `AnswersAreTrue` | `Spec => []VerdictAgrees` |
| `JudgedInOrder` | `Spec => []AeatSeesChainInOrder` |
| `StatusFollows` | `Spec => []FiscalStatusFollowsChain` |
| `EndsOnce` | `Spec => []InvoiceEndsOnce` |
| `RegisterRefined` | `Spec => RefinesRegister` |

*The argument.* `SubmittedAtMostOnce` is not inductive: a state in which a
record left and its SUBMIT is pending again satisfies it and the next `Send`
breaks it. `SubmissionInv` rules such states out. For each record: if it left,
its SUBMIT is claimed, closed or dead, and, if dead, of a class that an
operator cannot send again (`Unsendable`); and a worker with that SUBMIT in its
hands is alone with it, its message is still leased to it or closed for good, it
has not sent before it sends, and it does not report as unsent what it sent
(`Alone`). Expiry is the interesting step: `RecoverSubmit` closes the message,
so the slow worker keeps only a closed message and `HoldsLease` fails for it.
`Action` is why an intervention keeps the invariant: it offers RETRY_SUBMIT only
for credential failures, which are raised before the connection exists.

`OneLiveMessage` is inductive together with `TypeOK` and the fact that
positions beyond the chain are blank. `VerdictStable` follows from it step by
step: only a claimed message writes an attempt, and a decided record has none.
`ChainLinked` needs only that a commit compares the head (`HeadUnmoved`),
whenever the head was read.

What the company knows of AEAT needs more, `RegisterInv`, the conjunction of
three:

* `ChainInv`, which records may stand in the chain: an invoice is declared once
  (`DeclaredOnce`), every other record succeeds a declaration of its invoice, a
  correction a rejected one and a cancellation an accepted one, once each
  (`SucceededOnce`), a final answer is the last attempt (`AnsweredOnce`), and
  what a clerk is preparing outside a transaction succeeds an ALTA
  (`RequestLegal`); the commits look at the rest again.
* `WireInv`: a record is in the hands of a worker, on its way or judged only
  when every earlier one has its final answer.
* `TruthInv`: an answer that a worker holds agrees with the verdict of AEAT
  about that very record. A query shows an invoice, not a record; `ChainInv` and
  `WireInv` leave one record of the invoice that it can be about.

`EndsOnce` says what survives the missing second look at the invoice.
`Rectify` wants the last record of the original to be an accepted ALTA, and a
cancellation, rejected or not, stays behind it (`NotCancelledBefore`), so a
rectification never follows a cancellation; and `VoidTechnically` looks at the
rectifications itself. The other order is not excluded: a cancellation that
found its invoice before the rectification, and the head after it, is committed
behind it (section 6).

`RegisterRefined` maps `Enter` to the four actions that append, `Judge` to
`AeatJudges`, `Learn` to the `Finalize` that writes a final attempt, and shows
that every other step stutters.

### 5.2 Numbers, chain and journal

`IssuanceProofs`, about `Issuance`:

| Theorem | Statement |
|---|---|
| `IssuanceInvariant` | `IssuanceSpec => []IssuanceInv` |
| `NoGaps` | `IssuanceSpec => []NumbersWithoutGaps` |
| `BooksFollowNumbers` | `IssuanceSpec => []ChainFollowsNumbers` |
| `OneCorrection` | `IssuanceSpec => []RectifiedOnce` |
| `MixedDeadlocks` | `IssuanceSpec => []OnlyMixedDeadlocks` |

*The argument.* Locks are exclusive (`Exclusive`), and each step of a request
says which it holds (`IssueInv`, `RectifyInv`, `CancelInv`). Under the row of the
fiscal year, of the sequence and of the installation, the number and the entry
that were read are still the next ones when the transaction commits; under its
own row an original that is being rectified is still issued, not rectified, not
cancelled; of one that is being cancelled only that it was issued. Then documents and their numbers (`DocumentInv`), the order of number,
entry and fiscal record (`OrderInv`) and what became of an original
(`OriginalInv`) are kept by each commit, although the two kinds of request take
the same locks in different orders. A cancellation may follow a rectification,
and then stands behind it in the chain. Chronology (`issuance_dates`) is not
among these, because it is false.

`MixedDeadlocks` needs which locks each step holds, and no others (`HeldInv`).
Rectifications take theirs in one order, so a rank excludes their circles. Issues
and cancellations do not: an issue waits for the installation under the row of
its invoice, a cancellation for a row under the installation. But the first holds
the row of a draft, as it found under the lock, and the second waits for that of
an invoice which is no draft (`NoneWaitsForDraft`). A rectification holds such a
row, and may meet either; PostgreSQL then aborts one of them, and
`NumbersWithoutGaps` says that nothing is left of it.

### 5.3 Fiscal years

`FiscalCycleProofs`, about `FiscalCycle`:

| Theorem | Statement |
|---|---|
| `CycleInvariant` | `Spec => []CycleInv` |
| `YearsStayInLine` | `Spec => []OneOpenYear` |
| `DraftsAreInOpenYears` | `Spec => []NoDraftInClosedYear` |
| `BooksStayFrozen` | `Spec => BooksFrozen` |
| `LocksInOrder` | `Spec => []InOrder` |
| `NothingWaitsForItself` | `Spec => []NoDeadlock` |
| `RequestsAreSettledOnce` | `Spec => []RequestInv` |
| `OneCloseInForce` | `Spec => []ClosedByOneClose` |
| `BooksAgreeWithRequests` | `Spec => []BooksInv` |
| `ReversedYearsAreIdle` | `Spec => []ReversedYearIdle` |
| `BalancesStayCarried` | `Spec => []BalancesCarriedOver` |

*The argument.* The first three properties do not follow from themselves: a
transaction that has checked and is about to commit may be sitting on a check
that is no longer true. The strengthening `LockInv` says why it is not:

* `LocksExclude`: no two transactions hold conflicting locks;
* `Guarded`: a transaction holds, or has still to take before its check, every
  lock its operation `Needs`;
* `StillAdmissible`: of a transaction that has checked, what the theorems need of
  the check is still true.

`StillAdmissible` is preserved because a step of another transaction that would
make it false (a commit of a close, a reopening, a posting or a draft) holds a
lock that conflicts with one that is held here: the cycle for two approvals, the
year for everything dated or posted in it. Then each commit finds the state its
check saw, and the three properties follow step by step. `Guarded` rests on the
lists `StepsOf...` (`StepsGuard`): drop the year from the list of an approval, or
the shared lock from a draft's, and it fails, as the mutants of the runs show.

`NoDeadlock` of two transactions is the instance of a rank: every lock that a
transaction has still to take ranks above all it holds (`InOrder`: the cycle, the
request of reopening, that of closing, the invoice, then the years in order). The
rank excludes circles of any length, and TLC's property only those of two.

The same three-part shape carries the requests (`RequestInv`: what was checked of
a request is so until the commit) and the books (`BooksInv`: the opening entry of
a completed close stands where the request says, its reversal where the
reopening says, and what a preflight found in the successor is still there). From
them: a closed year has one close in force, and a year that was reversed has no
documents and only reversed entries.

`BalancesCarriedOver` compares two sums over the ledgers of two years, and needs
to know what each entry of a close or reopening adds to them (`CarryInv`, with
`SumTheorems` for the sums):

* `Carried`: what the opening entries of a year come to, with their reversals, is
  what the opening entry of the close in force posted, and the closing entries of
  the year before come to its opposite; where no close is in force, to nothing;
* `ClosingsReferred`: a completed close points to the entries that it posted, so
  a reopening takes back these amounts and no others;
* `NothingLeft`: a year that is not open has no balance on any account;
* `LedgersPlanned`: entries move only accounts of the plan of their year. The
  closing goes through the plan, so an amount elsewhere would be left behind;
* `PlansOK`, `StillPlanned`: a year that was opened has the accounts of result and
  profit, and one that was reversed has only accounts copied from the year before.
  A close copies what is missing (`WithMissingAccounts`), so the plan of the new
  year has whatever the closed one has, also when it is opened again. A reopening
  that found no account of the successor's own finds none at its commit, because
  it holds the lock that opening an account needs.

### 5.4 Money

`TreasuryProofs`, about `Treasury` and `Banking`, also with `SumTheorems`:

| Theorem | Statement |
|---|---|
| `TotalsAreSums` | `Spec => []SumsInv` |
| `MoneyStaysWithinOriginal` | `Spec => []MoneyWithinOriginal` |
| `DueDatesStayConsistent` | `Spec => []DueDatesConsistent` |
| `BankingStaysSound` | `BankingSpec => []BankingAddsUp` |

*The argument.* The code adds up rows at every look
(`sumNetPaymentsForDueDate`); the model keeps a running total. `SumsInv` says
that the total is the sum over the rows, so the properties speak of the rows too.
`SumTheorems` has what is needed of sums over a finite set: the sum changes by
what one row changes, and sums that agree row by row are equal. The induction
over the set is done without the induction theorem: strict inclusion of finite
sets is well-founded, so a set of counterexamples would have a smallest one.
`TreasuryInv` adds that rows refer to rows that exist (`LinkInv`) and that a
compensation which looked at a snapshot that nobody superseded would still pass
its checks (`FreshInv`); what supersedes a snapshot is what SERIALIZABLE aborts.
The steps are sorted by what they move (`StepIs`: a payment, the lines of a
remittance, a refund, a compensation, a withdrawal, a status), and each property
is shown for each sort. `treasury_overcollected` is not in conflict with
`MoneyWithinOriginal`: cash and credit each stay within their own bound, and it is
their sum that passes the amount.

`BankingInv` is about what a reconciliation has read. The reconciliations only
grow and are only undone, so a snapshot is a prefix of what there is
(`ReadingsInv`); if nothing in its movement or its payments was reconciled or
undone since (`Overtaken` fails), what it saw applied is what is applied, and the
commit adds no more than is left. Of returns it may have missed some: those are
`unseen`, and the bound is shown for the payments that are not. Statements are
records without overlap that begin and end where their movements say
(`StatementsAddUp`), because a file is imported whole or not at all.

### 5.5 Components

`ComponentProofs`, about modules that share no state with the others:

| Theorem | Statement | About |
|---|---|---|
| `WorkIsDoneOnce` | `RequestSpec => []RequestsWorkOnce` | `Requests` |
| `SessionsStayCurrent` | `AccessSpec => []SessionsAreCurrent` | `Access` |
| `RotationStaysSafe` | `CredentialSpec => RotationIsSafe` | `Credentials` |
| `RunsStayTrue` | `WorkerRuntimeSpec => RunsAreTrue` | `WorkerRuntime` |
| `RenewalsStayRight` | `SubscriptionSpec => []RenewalsAddUp` | `Subscriptions` |
| `InvoicesStayAddedUp` | `DraftSpec => []InvoicesAddUp` | `InvoiceDrafts`, `Calculations` |
| `PurchasesStayAddedUp` | `PurchaseSpec => []PurchasesAddUp` | `Purchases`, `Calculations` |

* `RequestInv`: the record is of the one request that worked, and what a request
  saw is that record or that there was none.
* `SessionsAreCurrent` is inductive with the types: every operation that changes
  what a session was opened with deletes the session, and the commit of a login
  reads the security version again.
* `CredentialInv`: one trial per version, one version in force per installation
  that has one, and every process remembers the version that was in force when
  its trial began.
* `RuntimeInv`: per process, its place, its run and its connection agree
  (`Agrees`: a run is open while its process works and misses one cycle at most,
  the one that was just done), and one connection holds the lock. A run that
  ended stays so because every statement of heartbeat, record and mark asks for an
  open run.
* `SubscriptionInv`: what is planned for a subscription fits its row (`Planned`),
  the subscriptions of a draft are as they were prepared with nothing else
  planned for them, and those of an invoice are past its period while they can
  be renewed (`Holds`). The last is what `BilledOnce` lacks: with it alone, a
  subscription that stands before what it was invoiced could be renewed again.
* `DraftInv`: an invoice is sound by itself (`SoundInvoice`: totals and summaries
  are those of its lines, its entry balances) and its lines are those of the
  requests that were told so, one each and where they were told (`LinesAdded`).
  What rounding does is a lemma about one line (`TaxedLine`); that summaries by
  rate and kind add up to the totals is one about sums, for any number of lines.
* `PurchaseInv`: every purchase is sound by itself (`SoundPurchase`: what was
  returned of a line never exceeds it in any amount, paid and credited of a due
  date never exceed it, and its status is the one `DueStatus` gives), and the books
  are sums over the purchases: the ledger owes the supplier what is open on
  standing purchases less what is unspent of credits, and expense, VAT register
  and stock are what was kept of them. Each operation changes one purchase (paying,
  several), and the sums by what that one purchase is worth.

`BackOfficeProofs`, about eight more of them:

| Theorem | Statement | About |
|---|---|---|
| `RestoresStaySafe` | `RestorationSpec => []RestoresAreSafe` | `Restoration` |
| `UploadsAreConsistent` | `AttachmentSpec => []UploadsConsistent` | `Attachments` |
| `SupportStaysConsistent` | `SupportSpec => []SupportConsistent` | `Support` |
| `LinksStayDeliberate` | `SupportSpec => LinksAreDeliberate` | `Support` |
| `CustomersStayConsistent` | `CustomerSpec => []CustomersConsistent` | `Customers` |
| `CatalogStaysConsistent` | `CatalogSpec => []CatalogConsistent` | `Catalog` |
| `WaiversStayConsistent` | `WaiverSpec => []WaiversConsistent` | `Waivers` |
| `RequestsStayGuarded` | `BoundarySpec => []RequestsGuarded` | `Boundary` and the 203 handlers |

* `RestorationInv`: what holds of the database in use must hold of every database
  in an artifact, since a restore may bring any of them back (`Sound`), and what a
  worker remembers outlives the database it read (`ApplierSound`): the copy it
  made is not the source of its restore in any of them. From there each step
  either leaves maintenance and sessions alone (`Kept`) or is one of the seven that
  move them.
* `UploadsInv`: the keys recorded are exactly those of the rows (`KeysInv`), and
  each request's place tells whether it may still add one, take its file back or
  change its answer (`ProgressInv`). The property alone says nothing of a
  transaction that is open, or of one whose commit was not answered.
* `SupportInv`: every link is to an incident that exists, whatever the result of
  the communication, since a correction may give it a result that needs one
  (`LinksInv`); the rest is the property. `LinksAreDeliberate` is then shown step by
  step. `SupportConsistent` also speaks of `Corrections`: `CorrectionInv` says that a
  page shows the text of the version it names as long as no correction came after
  (`ScreensTrue`), that no correction is newer than the incident (`NotesBehind`),
  and that the cursor of a history is the version of the oldest row that was read
  (`HistoryTrue`), so the next page begins where this one ends.
* `CustomerInv`: `ContactsShown`, inductive because every operation that writes
  one copy of a contact writes the other (`GeneralShown`, `StoreShown`), and the
  uniqueness of mandates and primaries over all rows, not per customer, so that a
  row that changes hands is covered.
* `CatalogInv`: a movement that has read the stock holds the lock of its item alone,
  and what it read is still so (`LocksOK`). Without that, its change might start
  from a stock that an edit has replaced.
* `WaiverInv`: the entries and the evidence of a review fit each other (`Books`):
  every entry that reverses none is evidence, exactly once, and all evidence but
  the latest was undone by a completed reversal. `RegularizedOnce` only counts
  entries; it does not say which piece of evidence the one in force is, so a
  replacement could not be shown to keep it. `RequestsOK`: a replacement is asked
  only for evidence that was undone, and at most one reversal of a piece of
  evidence is asked for or completed.

* `BoundaryInv`: what a check that let the request pass looks for (`Catches`) has
  not been wrong ever since the request arrived (`PassedWell`), what was written
  was written by a check that may write (`TracesExplained`), and work is done
  after the last check. What remains is a fact about each handler, without any
  state: its list looks for all that its work takes, and nothing in it writes
  before origin and token (`WellGuarded`). `RoutesGuarded` shows that of all 203,
  one lemma for the handlers of each component, from lemmas about the shapes that
  `Handlers` names. A sign-out looks at maintenance first and only for who is
  signed in, so the session may end between that look and the next; then the next
  turns it down (`SignedInLater`).

### 5.6 What is only model-checked

* Liveness: `Settled` of the outbox needs fairness, which is about ENABLED.
* What is false of the code: the six runs of section 6 are counterexamples.

Two definitions could not be reasoned about as they stood, because the guards of
a CASE overlapped and TLA+ does not say which of two true guards is taken
(TLC takes the first): the status of a due date in `Purchases` (`DueStatus`) and
the failure of a check in `Boundary` (`Fails`). Their guards now exclude each
other; the behaviours are those that TLC had checked.


## 6. Disagreements met while modelling

Each of the first six is a run that TLC ends with a counterexample.

1. **An exhausted RECONCILE never reaches the error state**
   (`verifactu_exhausted`). `recoverExpiredSubmitLease`
   (`verifactuOutboxWorker.ts:223-235`) makes it PENDING again without looking
   at `attemptCount`; the claim wants `attemptCount < maxAttempts`; an
   intervention wants DEAD. `docs/05-arquitectura-tecnica.md:213` says it is
   sent to error. The record and all later ones wait for ever.
2. **Numbers may go against dates** (`issuance_dates`). The chronology of the
   series is checked before the locks that order two issues
   (`invoices.ts:1019`), so two of them can pass it and number in the other
   order; `docs/facturacion/02-contratos-api.md:341-342` excludes that.
3. **A line may be added to an issued invoice** (`issued_invoice`).
   `addInvoiceLine` reads the status without a lock (`invoices.ts:709-727`); its
   insert waits for the issue at the foreign key and then goes on, rewriting
   totals and due date of an invoice that is declared and posted;
   `docs/facturacion/01-especificacion-funcional.md:297` says that an issued
   invoice is not modified.
4. **More may be collected than is due** (`treasury_overcollected`). Closing a
   remittance compares its lines with the payments of the due date only
   (`remittances.ts:1808-1812`, `:1401-1411`), not with credits that were applied
   from an older snapshot; `docs/tesoreria/02-contratos-api.md:729-730` says it is
   refused.
5. **A SEPA file may debit a new account under an old mandate**
   (`stale_mandate`). The draft stores the mandate (`remittances.ts:671-683`), the
   file takes the account of now (`:1008-1011`);
   `docs/clientes/01-especificacion-funcional.md:358-359`.
6. **An invoice may be rectified and then cancelled** (`rectified_cancelled`).
   `requestVerifactuCancellation` looks for an ISSUED invoice
   (`verifactuCancellations.ts:52`) and reads the head of the chain in a later
   statement (`:62-66`), outside a transaction. A rectification that commits
   between the two has moved the head before it is read, so the comparison at
   commit holds (`verifactuPersistence.ts:403`), and nothing there reads the
   status again: AEAT is asked to annul an invoice that another one rectifies.
   `docs/facturacion/06-contrato-verifactu-v1.md:134-136` says that preparing and
   persisting lock the head of the SIF and compare the last record.
   `InvoiceEndsOnce` and `RectifiedOnce` claim what is left: the other order is
   impossible, and such an invoice is never void in the books.

Read in the code beside the models, without a run:

* **Fiscal years.** A year may be closed over an invoice that AEAT has not
  settled: the approval counts unsettled invoices
  (`fiscalYearClosePreflight.ts:121-128`) under locks that a cancellation or
  correction does not take (`verifactuPersistence.ts:342`, `:483`);
  `docs/adr/ADR-0024-maker-checker-cierre-contable.md:42-43` says that VERI\*FACTU
  is revalidated under the same locks as the close.
* **VERI\*FACTU.** A rejection does not block later positions;
  `docs/facturacion/06-contrato-verifactu-v1.md:202-207` says it does, the same
  document at `:328-330` and the code (`verifactuOutboxWorker.ts:178`) that it does
  not. A SUBMIT that was lost before AEAT, or rejected with its answer lost,
  cannot be resolved: `reconcile` never concludes REJECTED, "no data" is retried
  until DEAD, and an intervention only asks again. `Settled` counts it as waiting
  for the operator. `verifactuStatus` is SENT after a failure before sending and
  PENDING after a dead answer; `FiscalStatusFollowsChain` allows both while
  undecided. A rejected cancellation blocks rectification.
* **Certificates.** A rotation that does not name the PRODUCTION installation,
  with a version that does not allow PRODUCTION, retires the version in force
  there; `docs/facturacion/06-contrato-verifactu-v1.md:265-268`. Validity is
  checked when a version is asked for, not when it is used.
* **Treasury.** Cancelling, generating, sending, rejecting and closing a
  remittance, and marking a due date unpaid (`payments.ts:891-948`), write over
  what was written since they read. A reconciliation may miss a return that
  commits meanwhile (`banking.ts:250`; `docs/tesoreria/02-contratos-api.md:119-121`):
  READ COMMITTED on the side of the return keeps PostgreSQL from aborting either.
  `BankingAddsUp` excepts such payments (`unseen`). Technical voiding does not look
  at credit applications (`invoiceTechnicalVoiding.ts:160-167`). A due date that
  is RETURNED or UNPAID is never collectible again.
* **Idempotency.** 43 route handlers require an Idempotency-Key
  (`validateIdempotencyKey`) and do nothing with it, among them
  `app/api/invoices/[invoiceId]/payments`, lines and drafts of invoices, stock
  movements, journal entries, customers and the steps of remittances: a retry
  after a lost answer registers a second payment, within what is pending.
  `docs/plataforma/06-contratos-api.md:15`, `:88`,
  `docs/facturacion/05-plan-de-pruebas.md:81`. `Requests` is about the others.
* **Boundary.** Maintenance and permissions are checked before the body is
  awaited, so a write may be worked after maintenance was switched on or the
  session revoked; `RequestsGuarded` promises a moment since the arrival, for
  each condition its own. The switch of maintenance and the application of a
  restore are exempt from maintenance; login, logout, exports and downloads are
  not gated by it. `POST accounting/fiscal-years/[id]/close` always answers 409.
* **Restore.** Maintenance can be switched off while a restore is applied
  (`disableMaintenanceMode` does not look; `docs/plataforma/03-reglas-de-negocio.md:344`).
  After a crash between the replacement and its record
  (`restoreExecutor.ts:281`) the database is as in the dump: maintenance off,
  old sessions valid, and the restore forgotten; `RestoresAreSafe` excepts
  exactly that (`Unrecorded`). The copy made before a restore holds that restore
  as PREPARING: restored in its turn, it blocks later backups and restores,
  for only VALIDATING and RUNNING time out. A late validator may revive a FAILED
  restore.
* **Access.** Two administrators may deactivate or demote each other at the same
  time (`users.ts:216-280`, `:334-427`). A user who is reactivated keeps the
  session row: the next login is answered ACTIVE_SESSION_EXISTS until it expires
  (`docs/plataforma/03-reglas-de-negocio.md:107`).
* **Subscriptions.** A reactivation checks overlap with billed periods but only
  the start of exclusions (`subscriptions.ts:829-842`). A scheduled cancellation
  does not look at pending changes in the code; a trigger refuses it.
* **Waivers.** Replacement evidence can never be reversed: the trigger of
  migration `20260806190000` requires the origin WAIVER_REGULARIZATION;
  `docs/suscripciones/02-contratos-api.md:715`. Closing a year ignores pending
  requests.
* **Purchases.** What remains of a purchase that was returned line by line
  cannot be returned: `createPartialPurchaseRectification` looks for earlier
  returns among the lines of this request only (`purchases.ts:487`), and a
  deferred trigger refuses the result (migration
  `20260808113050_finalize_partial_purchase_rectifications`);
  `docs/contabilidad/02-contratos-api.md:193-201`. Base, tax and total of a return
  are rounded separately, so some quantities make an unbalanced entry, which the
  database refuses. Both are guards of the model. Sales do not move stock.
* **Customers.** Editing a customer whose general contact is inactive erases
  that contact's phone and email if it has another name or number
  (`contactSync.ts:40-76`; `docs/clientes/02-contratos-api.md:511`). A draft keeps
  the tax id it was made with, and the lock on tax ids counts issued invoices
  only (`docs/clientes/01-especificacion-funcional.md:177`). Editing an inactive
  address to primary clears the active primary.
* **Catalog.** `updateCatalogItem` overwrites the stock with the value of the
  form and writes no movement (`items.ts:344`;
  `docs/catalogo/01-especificacion-funcional.md:315-316`). Two concurrent requests
  can leave an inactive default tax rate (`taxRates.ts:243-311`).
* Issue, rectify and cancel lock rows in three different orders; PostgreSQL
  breaks the cycles and one request fails.

## 7. What is not modelled

* **Web interface, PDF, reports and exports**: they read and format, and change
  nothing.
* **Notifications, configuration, suppliers, indicators**: records that are
  written in one statement and that no other component trusts.
* **SIF installations and fiscal years of another company or environment**: each
  has a chain, an outbox and workers of its own. Creation and retirement of an
  installation are done once.
* **Hashing, XML, SOAP, TLS, encryption of artifacts and certificates, virus and
  type checks of files**: a record is its type, invoice, target and the record it
  was hashed over; an artifact is the database it holds, and is not damaged.
* **The re-evaluation of the `LEFT JOIN`** in the lock of the SIF row after a wait
  (PostgreSQL's EvalPlanQual; `invoices.ts:1171`): below the grain of the models;
  the commit reads the head again.
* **A restored outbox** (`restoreExecutor.ts:273`): a SUBMIT that was sent after
  the backup is PENDING again in what is restored, and would be sent a second
  time once maintenance ends: the code has no fence against it. Composing
  `Restoration` with `Verifactu` would multiply the two largest state spaces; it
  stays a hazard with a note.
* **Maintenance against a message in hand**: `Finalize` does not look at the
  switch; the model has it so (`billing`), and it is stated by no
  property of its own.
* **Times of heartbeats**, by which `/api/health` and the page of operations
  tell a run that is alive from one whose process died.
* **Support**: priorities and indicators. `Corrections` has the actions of an
  incident; in `Support`, `CreateAction` stands for what one changes in it.
* **Accounting**: lines of entries beyond the four accounts, unbalanced entries,
  groups 0, 8 and 9, a missing account 129, chart of accounts and exports.
* **Amounts** in Subscriptions, Waivers and Catalog: prices and taxes of lines are
  in `Calculations`, which drafts and purchases use.
* **Permissions as such**: `Boundary` has which handler asks for which; who should
  be given them is configuration.
