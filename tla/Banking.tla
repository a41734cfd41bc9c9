------------------------------- MODULE Banking -------------------------------
(***************************************************************************)
(* The movements of the company's bank accounts, entered by hand or        *)
(* imported from statements (Norma 43 files), and their reconciliation     *)
(* with the payments of customers.                                         *)
(*                                                                         *)
(* A reconciliation is SERIALIZABLE: it works on the snapshot of its first *)
(* read, locks the movement and the payments afterwards, and fails if      *)
(* another reconciliation of one of them committed in between.  The return *)
(* of a payment is READ COMMITTED: it locks the payment, reads, and adds a *)
(* row; a reconciliation that began before it does not see that row and    *)
(* nothing makes it fail.                                                  *)
(*                                                                         *)
(* The fiscal year of every date is open: module FiscalCycle is about that.*)
(***************************************************************************)
EXTENDS Integers, Sequences, FiniteSets, Functions

CONSTANTS BankAccounts,   \* rows of bank_accounts
          AccountNumbers, \* what their IBANs can be
          Files,          \* Norma 43 files that may be uploaded
          Collections,    \* rows of customer_payments
          PaidIn,           \* the amount of each one
          Entered,        \* what movements are entered by hand
          MovementNumbers,\* their numbers at the bank
          Reconcilers,    \* requests to reconcile, in progress at a time
          MaxMovements, MaxReconciliations,
          Unnumbered      \* a movement, or an account, that has no number

VARIABLES bankAccount,    \* the number of each account
          movements,      \* in order of creation: account, amount, number, statement
          statements,     \* in order of creation: account, dates and balances
          reconciliations,\* in order of creation: movement, amounts applied, status
          returned,       \* what was returned of each payment
          reconciler,     \* what each request has read
          unseen          \* payments reconciled by who did not see their return

bankingVars ==
    <<bankAccount, movements, statements, reconciliations, returned, reconciler, unseen>>
-----------------------------------------------------------------------------
NotReconciling == [at |-> "WAITING"]

BankingInit ==
    /\ bankAccount = [a \in BankAccounts |-> Unnumbered]
    /\ movements = <<>> /\ statements = <<>> /\ reconciliations = <<>>
    /\ returned = [c \in Collections |-> 0]
    /\ reconciler = [q \in Reconcilers |-> NotReconciling]
    /\ unseen = {}

CreateBankAccount(a, n) ==
    /\ bankAccount[a] = Unnumbered /\ \A b \in BankAccounts : bankAccount[b] # n
    /\ bankAccount' = [bankAccount EXCEPT ![a] = n]
    /\ UNCHANGED <<movements, statements, reconciliations, returned, reconciler, unseen>>

CreateBankMovement(a, amount, n) ==
    /\ bankAccount[a] # Unnumbered /\ Len(movements) < MaxMovements
    /\ n # Unnumbered => \A j \in DOMAIN movements :
         movements[j].account = a => movements[j].number # n
    /\ movements' = Append(movements,
         [account |-> a, amount |-> amount, number |-> n, statement |-> 0])
    /\ UNCHANGED <<bankAccount, statements, reconciliations, returned, reconciler, unseen>>
-----------------------------------------------------------------------------
(* A file has a header with dates and the balance it starts from, and a body  *)
(* of movements (22), up to five complements of each (23) and the closing     *)
(* record (33) with the balance, and the numbers and sums of both signs.      *)

MovementRecord == [code : {"22"}, day : Int, amount : Int]
Moved(f) == SelectSeq(f.body, LAMBDA r : r.code = "22")
CreditsOf(f) == {j \in DOMAIN Moved(f) : Moved(f)[j].amount > 0}
DebitsOf(f) == {j \in DOMAIN Moved(f) : Moved(f)[j].amount < 0}
SumOf(f, js) == SumFunction([j \in js |-> Moved(f)[j].amount])

ASSUME BankingAssumption ==
    /\ IsFiniteSet(Collections)
    /\ PaidIn \in [Collections -> Nat]
    /\ Entered \subseteq Int
    /\ \A f \in Files :
         /\ f.from \in Int /\ f.to \in Int /\ f.opening \in Int
         /\ Moved(f) \in Seq(MovementRecord)

WellFormed(f) ==
    /\ f.from <= f.to
    /\ f.body[1].code = "22"
    /\ \A j \in DOMAIN f.body : f.body[j].code = "33" <=> j = Len(f.body)
    /\ ~ \E j \in 1..(Len(f.body) - 5) : \A k \in j..(j + 5) : f.body[k].code = "23"
    /\ \A j \in DOMAIN Moved(f) : Moved(f)[j].day \in f.from..f.to

Squares(f) ==
    LET closing == f.body[Len(f.body)] IN
    /\ closing.credits =
         [count |-> Cardinality(CreditsOf(f)), total |-> SumOf(f, CreditsOf(f))]
    /\ closing.debits =
         [count |-> Cardinality(DebitsOf(f)), total |-> - SumOf(f, DebitsOf(f))]
    /\ f.opening + closing.credits.total - closing.debits.total = closing.balance

Overlapping(a, from, to) == \E j \in DOMAIN statements :
    statements[j].account = a /\ statements[j].from <= to /\ statements[j].to >= from

\* Under the lock of the account; what was looked at before it is looked at again.
ImportStatement(a, f) ==
    /\ bankAccount[a] = f.number /\ WellFormed(f) /\ Squares(f)
    /\ ~ Overlapping(a, f.from, f.to)
    /\ Len(movements) + Len(Moved(f)) <= MaxMovements
    /\ statements' = Append(statements,
         [account |-> a, from |-> f.from, to |-> f.to, opening |-> f.opening,
          closing |-> f.body[Len(f.body)].balance])
    /\ movements' = movements \o [j \in DOMAIN Moved(f) |->
         [account |-> a, amount |-> Moved(f)[j].amount, number |-> Unnumbered,
          statement |-> Len(statements) + 1]]
    /\ UNCHANGED <<bankAccount, reconciliations, returned, reconciler, unseen>>
-----------------------------------------------------------------------------
\* What of a movement, and of a payment, the active ones among some reconciliations take.
AppliedTo(m, rs) == SumFunction([j \in DOMAIN rs |->
    IF rs[j].status = "ACTIVE" /\ rs[j].movement = m
    THEN SumFunction(rs[j].applied) ELSE 0])
AppliedOf(c, rs) == SumFunction([j \in DOMAIN rs |->
    IF rs[j].status = "ACTIVE" /\ c \in DOMAIN rs[j].applied THEN rs[j].applied[c] ELSE 0])

\* The first read of the transaction takes its snapshot.
BeginReconciliation(q, m, applied) ==
    /\ reconciler[q] = NotReconciling /\ Len(reconciliations) < MaxReconciliations
    /\ reconciler' = [reconciler EXCEPT ![q] =
         [at |-> "READ", movement |-> m, applied |-> applied,
          reconciliations |-> reconciliations, returned |-> returned]]
    /\ UNCHANGED <<bankAccount, movements, statements, reconciliations, returned, unseen>>

\* Mutant: the sums are over the movement's and payments' rows, under READ COMMITTED.
Overtaken_Ignored(s) == FALSE
\* A serializable transaction that meets what another one added since its snapshot.
Overtaken(s) == \E j \in (Len(s.reconciliations) + 1)..Len(reconciliations) :
    \/ reconciliations[j].movement = s.movement
    \/ DOMAIN reconciliations[j].applied \cap DOMAIN s.applied # {}

ReconcileMovement(q) ==
    LET s == reconciler[q] IN
    /\ s.at = "READ" /\ ~ Overtaken(s) /\ Len(reconciliations) < MaxReconciliations
    /\ movements[s.movement].amount > 0
    /\ SumFunction(s.applied) <=
         movements[s.movement].amount - AppliedTo(s.movement, s.reconciliations)
    /\ \A c \in DOMAIN s.applied :
         s.applied[c] <= PaidIn[c] - s.returned[c] - AppliedOf(c, s.reconciliations)
    /\ reconciliations' = Append(reconciliations,
         [movement |-> s.movement, applied |-> s.applied, status |-> "ACTIVE"])
    /\ unseen' = unseen \cup {c \in DOMAIN s.applied : returned[c] # s.returned[c]}
    /\ reconciler' = [reconciler EXCEPT ![q] = NotReconciling]
    /\ UNCHANGED <<bankAccount, movements, statements, returned>>

\* It is refused, or the database gives up one of two transactions, after three attempts.
LeaveUnreconciled(q) ==
    /\ reconciler[q] # NotReconciling
    /\ reconciler' = [reconciler EXCEPT ![q] = NotReconciling]
    /\ UNCHANGED <<bankAccount, movements, statements, reconciliations, returned, unseen>>

UndoReconciliation(j) ==
    /\ reconciliations[j].status = "ACTIVE"
    /\ reconciliations' = [reconciliations EXCEPT ![j].status = "UNDONE"]
    /\ UNCHANGED <<bankAccount, movements, statements, returned, reconciler, unseen>>

\* Under the lock of the payment; the invoice and the due date are in Treasury.
ReturnCollection(c, x) ==
    /\ PaidIn[c] - returned[c] - x >= AppliedOf(c, reconciliations)
    /\ returned' = [returned EXCEPT ![c] = @ + x]
    /\ UNCHANGED <<bankAccount, movements, statements, reconciliations, reconciler, unseen>>

Applications == UNION {[cs -> UNION {1..PaidIn[c] : c \in cs}] : cs \in SUBSET Collections \ {{}}}
BankingNext ==
    \/ \E a \in BankAccounts :
        \/ \E n \in AccountNumbers : CreateBankAccount(a, n)
        \/ \E x \in Entered, n \in MovementNumbers \cup {Unnumbered} : CreateBankMovement(a, x, n)
        \/ \E f \in Files : ImportStatement(a, f)
    \/ \E q \in Reconcilers :
        \/ \E m \in DOMAIN movements, applied \in Applications : BeginReconciliation(q, m, applied)
        \/ ReconcileMovement(q) \/ LeaveUnreconciled(q)
    \/ \E j \in DOMAIN reconciliations : UndoReconciliation(j)
    \/ \E c \in Collections : \E x \in 1..PaidIn[c] : ReturnCollection(c, x)

BankingSpec == BankingInit /\ [][BankingNext]_bankingVars
-----------------------------------------------------------------------------
\* No more is reconciled with a movement than came in, nor of a payment than was not
\* returned, unless a return committed while the reconciliation was being made.
ReconciledOnce ==
    /\ \A m \in DOMAIN movements :
         AppliedTo(m, reconciliations) <= IF movements[m].amount > 0 THEN movements[m].amount ELSE 0
    /\ \A c \in Collections \ unseen : AppliedOf(c, reconciliations) <= PaidIn[c] - returned[c]

\* The movements of a statement are all there and lead from its first balance to its
\* last, and no two statements of an account are about the same day.
AmountOf(j, ms) ==
    SumFunction([k \in DOMAIN ms |-> IF ms[k].statement = j THEN ms[k].amount ELSE 0])
StatementsAddUp == \A j \in DOMAIN statements :
    LET s == statements[j] IN
    /\ s.opening + AmountOf(j, movements) = s.closing
    /\ \A k \in DOMAIN statements \ {j} :
         statements[k].account = s.account => statements[k].to < s.from \/ s.to < statements[k].from

(***************************************************************************)
(* The bank's figures are the company's: see the parts.                    *)
(***************************************************************************)
BankingAddsUp == ReconciledOnce /\ StatementsAddUp
==============================================================================
