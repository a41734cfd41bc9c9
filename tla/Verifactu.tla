------------------------------ MODULE Verifactu ------------------------------
(***************************************************************************)
(* The VERI*FACTU core of the Billing module: the chain of fiscal records  *)
(* of one SIF installation, the transactional outbox that carries every    *)
(* record to AEAT, the workers that drain it, the clerks' requests that    *)
(* extend the chain and the operator's interventions.  AEAT and the        *)
(* network are external and are modelled from how the transport uses them. *)
(*                                                                         *)
(* Every action is one database transaction or one step of a process       *)
(* outside a transaction.  Amounts, payloads, fiscal years and payments    *)
(* are left out: in this code they only make a request be refused.         *)
(***************************************************************************)
EXTENDS Naturals, Sequences

CONSTANTS
    Invoices,          \* invoice documents that may come to exist
    Workers,           \* worker processes, alive at the same time
    Clerks,            \* HTTP requests that prepare a record before they commit it
    MaxChain,          \* bound: fiscal records
    MaxAttempts,       \* maxAttempts of a new outbox message (20 in the schema)
    MaxInterventions,  \* bound: interventions of the operator
    MayPause           \* whether maintenance mode may be switched on

ASSUME BoundsAssumption ==
    /\ MaxChain \in Nat
    /\ MaxAttempts \in Nat \ {0}
    /\ MaxInterventions \in Nat
    /\ MayPause \in BOOLEAN

VARIABLES
    invoice,        \* invoices: document status, fiscal status, what it rectifies
    chain,          \* verifactu_fiscal_records in chain order
    msg,            \* verifactu_outbox_messages, by record and operation
    attempts,       \* verifactu_submission_attempts: outcomes, append-only
    worker,         \* memory of each worker process
    clerk,          \* memory of each request between preparing and committing
    maintenance,    \* platform_maintenance_state.enabled
    interventions,  \* how many interventions were made
    wire,           \* submissions that left and have not reached AEAT
    sent,           \* how many times each record left for AEAT
    verdict         \* what AEAT decided about each record

dbVars == <<invoice, chain, msg, attempts>>
aeatVars == <<wire, sent, verdict>>
vars == <<dbVars, worker, clerk, maintenance, interventions, aeatVars>>

Pos == 1..MaxChain
Op == {"SUBMIT", "RECONCILE"}
Accepted == {"ACCEPTED", "ACCEPTED_WITH_ERRORS"}
Terminal == Accepted \cup {"REJECTED"}
Outcome == Terminal \cup {"UNKNOWN", "RETRYABLE_FAILURE"}
FiscalStatus == Terminal \cup {"NOT_APPLICABLE", "PENDING", "SENT", "CANCELLED"}
ErrorClass == {"none", "credential", "integrity", "other"}

Invoice == [status : {"DRAFT", "ISSUED", "RECTIFIED", "VOIDED"},
            fiscal : FiscalStatus, rectifies : SUBSET Invoices]
Record == [type : {"ALTA", "ANULACION"}, invoice : Invoices,
           target : 0..MaxChain, over : 0..MaxChain]
\* lease is {} or the worker that holds the lease token, late says that the
\* lease has run out.
Message == [status : {"NONE", "PENDING", "CLAIMED", "PROCESSED", "DEAD"},
            tries : Nat, max : Nat, err : ErrorClass,
            lease : SUBSET Workers, late : BOOLEAN]
\* A transport result: outcome, retryDisposition and class of stableCode.
Answer == [outcome : Outcome, fate : {"NONE", "RETRY", "DEAD"}, err : ErrorClass]
Process == [pc : {"idle", "polling", "claimed", "sent", "answered"},
            pos : 0..MaxChain, op : Op, answer : Answer, onTime : BOOLEAN]
\* read says that the request has read the head of the chain, which is over.
Request == [kind : {"NONE", "ALTA", "ANULACION"}, target : 0..MaxChain,
            over : 0..MaxChain, read : BOOLEAN]

NoMessage == [status |-> "NONE", tries |-> 0, max |-> 0, err |-> "none",
              lease |-> {}, late |-> FALSE]
NewMessage == [NoMessage EXCEPT !.status = "PENDING", !.max = MaxAttempts]
NoRequest == [kind |-> "NONE", target |-> 0, over |-> 0, read |-> FALSE]

Verdict(v) == [outcome |-> v, fate |-> "NONE", err |-> "none"]
Uncertain == [outcome |-> "UNKNOWN", fate |-> "NONE", err |-> "other"]
Retry == [outcome |-> "RETRYABLE_FAILURE", fate |-> "RETRY", err |-> "other"]
Dead(e) == [outcome |-> "RETRYABLE_FAILURE", fate |-> "DEAD", err |-> e]

IdleProcess == [pc |-> "idle", pos |-> 0, op |-> "SUBMIT", answer |-> Retry, onTime |-> FALSE]

Init ==
    /\ invoice = [i \in Invoices |->
                    [status |-> "DRAFT", fiscal |-> "NOT_APPLICABLE", rectifies |-> {}]]
    /\ chain = <<>>
    /\ msg = [p \in Pos |-> [op \in Op |-> NoMessage]]
    /\ attempts = [p \in Pos |-> <<>>]
    /\ worker = [w \in Workers |-> IdleProcess]
    /\ clerk = [c \in Clerks |-> NoRequest]
    /\ maintenance = FALSE
    /\ interventions = 0
    /\ wire = {}
    /\ sent = [p \in Pos |-> 0]
    /\ verdict = [p \in Pos |-> "NONE"]
-----------------------------------------------------------------------------
(* What the queries of the code ask of the chain and of the attempts.      *)

Chained == 1..Len(chain)
Tip == Len(chain)
HasAttempt(p, outcomes) == \E k \in 1..Len(attempts[p]) : attempts[p][k] \in outcomes
Decided(p) == HasAttempt(p, Terminal)
LatestIn(p, outcomes) ==
    /\ attempts[p] # <<>>
    /\ attempts[p][Len(attempts[p])] \in outcomes
LatestAcceptance(p, outcome) ==
    \E k \in 1..Len(attempts[p]) :
        /\ attempts[p][k] = outcome
        /\ \A j \in (k + 1)..Len(attempts[p]) : attempts[p][j] \notin Accepted
\* A mutant: the records are read in ascending order.
LatestOf_Earliest(i, p) ==
    /\ chain[p].invoice = i
    /\ \A q \in Chained : q < p => chain[q].invoice # i
LatestOf(i, p) ==
    /\ chain[p].invoice = i
    /\ \A q \in Chained : q > p => chain[q].invoice # i
Unsucceeded(p, type) == \A q \in Chained : ~ (chain[q].type = type /\ chain[q].target = p)
AllProcessed(p) == \A op \in Op : msg[p][op].status \in {"NONE", "PROCESSED"}
Rectified(i) == \E j \in Invoices : i \in invoice[j].rectifies
-----------------------------------------------------------------------------
(* The clerks: extending the chain.                                        *)

\* The record, its SUBMIT message and the head of the installation change together.
Extend(type, i, t, over) ==
    /\ Len(chain) < MaxChain
    /\ chain' = Append(chain, [type |-> type, invoice |-> i, target |-> t, over |-> over])
    /\ msg' = [msg EXCEPT ![Len(chain) + 1]["SUBMIT"] = NewMessage]

\* The transaction holds the installation row from before it prepares the record.
Issue(i) ==
    /\ invoice[i].status = "DRAFT"
    /\ Extend("ALTA", i, 0, Tip)
    /\ invoice' = [invoice EXCEPT ![i].status = "ISSUED", ![i].fiscal = "PENDING"]
    /\ UNCHANGED <<attempts, worker, clerk, maintenance, interventions, aeatVars>>

\* The original must be an accepted, settled declaration; i is the new document.
Rectify(original, i) ==
    /\ invoice[original].status = "ISSUED"
    /\ invoice[original].rectifies = {}
    /\ ~ Rectified(original)
    /\ invoice[original].fiscal \in Accepted
    /\ \E p \in Chained :
         /\ LatestOf(original, p)
         /\ chain[p].type = "ALTA"
         /\ LatestIn(p, Accepted)
         /\ AllProcessed(p)
    /\ invoice[i].status = "DRAFT"
    /\ Extend("ALTA", i, 0, Tip)
    /\ invoice' = [invoice EXCEPT
         ![i] = [status |-> "ISSUED", fiscal |-> "PENDING", rectifies |-> {original}],
         ![original].status = "RECTIFIED"]
    /\ UNCHANGED <<attempts, worker, clerk, maintenance, interventions, aeatVars>>

Prepare(c, type, p) ==
    /\ clerk[c] = NoRequest
    /\ clerk' = [clerk EXCEPT ![c] = [NoRequest EXCEPT !.kind = type, !.target = p]]
    /\ UNCHANGED <<dbVars, worker, maintenance, interventions, aeatVars>>

\* Preparing a record takes several statements outside any transaction, and others
\* commit between them.  The first finds a declaration that may be cancelled ...
PrepareCancellation(c, p) ==
    /\ chain[p].type = "ALTA"
    /\ invoice[chain[p].invoice].status = "ISSUED"
    /\ Unsucceeded(p, "ANULACION")
    /\ HasAttempt(p, Accepted)
    /\ Prepare(c, "ANULACION", p)

\* ... or a rejected one that may be corrected ...
PrepareCorrection(c, p) ==
    /\ chain[p].type = "ALTA"
    /\ chain[p].target = 0
    /\ invoice[chain[p].invoice].status = "ISSUED"
    /\ Unsucceeded(p, "ALTA")
    /\ LatestIn(p, {"REJECTED"})
    /\ msg[p]["SUBMIT"].status = "PROCESSED"
    /\ Prepare(c, "ALTA", p)

\* ... and the last one reads the head, over which the record is hashed.  The answer
\* of AEAT to a record that is to be cancelled is read on the way, its invoice is not
\* looked at again.
ReadHead(c) ==
    /\ clerk[c].kind # "NONE"
    /\ ~ clerk[c].read
    /\ clerk[c].kind = "ANULACION" =>
         LatestIn(clerk[c].target, Accepted) /\ AllProcessed(clerk[c].target)
    /\ clerk' = [clerk EXCEPT ![c].over = Tip, ![c].read = TRUE]
    /\ UNCHANGED <<dbVars, worker, maintenance, interventions, aeatVars>>

\* A mutant: the head is not compared again.
HeadUnmoved_Skipped(c) == TRUE
\* The head of the installation, locked, is still the one the record was hashed over.
HeadUnmoved(c) == clerk[c].over = Tip

CommitSuccessor(c) ==
    LET p == clerk[c].target IN
    /\ clerk[c].read
    /\ Extend(clerk[c].kind, chain[p].invoice, p, clerk[c].over)
    /\ invoice' = [invoice EXCEPT ![chain[p].invoice].fiscal = "PENDING"]
    /\ clerk' = [clerk EXCEPT ![c] = NoRequest]
    /\ UNCHANGED <<attempts, worker, maintenance, interventions, aeatVars>>

\* The commit looks at the target again, but not at the status of the invoice.
CommitCancellation(c) ==
    /\ clerk[c].kind = "ANULACION"
    /\ HeadUnmoved(c)
    /\ HasAttempt(clerk[c].target, Accepted)
    /\ Unsucceeded(clerk[c].target, "ANULACION")
    /\ CommitSuccessor(c)

CommitCorrection(c) ==
    /\ clerk[c].kind = "ALTA"
    /\ HeadUnmoved(c)
    /\ LatestIn(clerk[c].target, {"REJECTED"})
    /\ msg[clerk[c].target]["SUBMIT"].status = "PROCESSED"
    /\ Unsucceeded(clerk[c].target, "ALTA")
    /\ CommitSuccessor(c)

\* The commit is refused with 409, or the request dies before it.
GiveUp(c) ==
    /\ clerk[c] # NoRequest
    /\ clerk' = [clerk EXCEPT ![c] = NoRequest]
    /\ UNCHANGED <<dbVars, worker, maintenance, interventions, aeatVars>>

\* Voids the invoice in the books once AEAT has accepted its cancellation.
VoidTechnically(i) ==
    /\ invoice[i].status = "ISSUED"
    /\ invoice[i].rectifies = {}
    /\ invoice[i].fiscal = "CANCELLED"
    /\ ~ Rectified(i)
    /\ \E p \in Chained :
         /\ LatestOf(i, p)
         /\ chain[p].type = "ANULACION"
         /\ LatestIn(p, Accepted)
         /\ AllProcessed(p)
    /\ invoice' = [invoice EXCEPT ![i].status = "VOIDED"]
    /\ UNCHANGED <<chain, msg, attempts, worker, clerk, maintenance, interventions, aeatVars>>
-----------------------------------------------------------------------------
(* The workers: one polling cycle recovers an expired lease, claims a      *)
(* message, talks to AEAT outside any transaction and records the answer.  *)

Released(m) == [m EXCEPT !.lease = {}, !.late = FALSE]
AtLeast(m) == IF m.max > m.tries THEN m.max ELSE m.tries + 1

\* A mutant: an unknown result is left without a query.
EnsureReconcile_Forgotten(m, p) == m
\* ensureReconcilePending: create the RECONCILE message or bring it back to life.
EnsureReconcile(m, p) ==
    CASE m.status = "NONE" -> NewMessage
      [] m.status \in {"PENDING", "CLAIMED"} \/ (m.status # "NONE" /\ Decided(p)) -> m
      [] OTHER -> [Released(m) EXCEPT !.status = "PENDING", !.max = AtLeast(m), !.err = "none"]

\* A mutant: an expired SUBMIT is sent again.
ExpiredSubmit_Resent(m) == [Released(m) EXCEPT !.status = "PENDING", !.err = "other"]
\* A SUBMIT whose lease ran out may have been sent: it is closed, never sent again.
ExpiredSubmit(m) == [Released(m) EXCEPT !.status = "PROCESSED", !.err = "other"]
\* A RECONCILE only reads, so it may simply be tried again.
ExpiredReconcile(m) == [Released(m) EXCEPT !.status = "PENDING", !.err = "other"]

Expired(p, op) == msg[p][op].status = "CLAIMED" /\ msg[p][op].late

RecoverSubmit(p) ==
    /\ Expired(p, "SUBMIT")
    /\ attempts' = [attempts EXCEPT ![p] = Append(@, "UNKNOWN")]
    /\ msg' = [msg EXCEPT ![p] = [op \in Op |->
                 IF op = "SUBMIT" THEN ExpiredSubmit(msg[p]["SUBMIT"])
                                  ELSE EnsureReconcile(msg[p]["RECONCILE"], p)]]
    /\ invoice' = [invoice EXCEPT ![chain[p].invoice].fiscal = "SENT"]

RecoverReconcile(p) ==
    /\ Expired(p, "RECONCILE")
    /\ msg' = [msg EXCEPT ![p]["RECONCILE"] = ExpiredReconcile(@)]
    /\ UNCHANGED <<invoice, attempts>>

\* One expired lease per cycle, none under maintenance.
Recover(w) ==
    /\ worker[w].pc = "idle"
    /\ worker' = [worker EXCEPT ![w].pc = "polling"]
    /\ \/ /\ ~ maintenance
          /\ \E p \in Chained : RecoverSubmit(p) \/ RecoverReconcile(p)
       \/ /\ maintenance \/ \A p \in Chained, op \in Op : ~ Expired(p, op)
          /\ UNCHANGED <<invoice, msg, attempts>>
    /\ UNCHANGED <<chain, clerk, maintenance, interventions, aeatVars>>

\* A mutant: earlier positions are not looked at.
EarlierDecided_Ignored(p) == TRUE
\* Every earlier record has an attempt with a final answer, a rejection included.
EarlierDecided(p) == \A q \in 1..(p - 1) : Decided(q)

Claimable(p, op) ==
    /\ msg[p][op].status = "PENDING"
    /\ msg[p][op].tries < msg[p][op].max
    /\ EarlierDecided(p)

\* A message that was tried before may still be waiting for its nextAttemptAt.
Due(p, op) == Claimable(p, op) /\ msg[p][op].tries = 0

Claimed(m, w) ==
    [m EXCEPT !.status = "CLAIMED", !.tries = m.tries + 1, !.lease = {w}, !.late = FALSE]

\* The first due message in chain order, with a fresh lease token.
Claim(w) ==
    /\ worker[w].pc = "polling"
    /\ ~ maintenance
    /\ \E p \in Chained, op \in Op :
         /\ Claimable(p, op)
         /\ \A q \in 1..(p - 1), o \in Op : ~ Due(q, o)
         /\ msg' = [msg EXCEPT ![p][op] = Claimed(@, w)]
         /\ worker' = [worker EXCEPT ![w] =
                         [IdleProcess EXCEPT !.pc = "claimed", !.pos = p, !.op = op]]
    /\ UNCHANGED <<invoice, chain, attempts, clerk, maintenance, interventions, aeatVars>>

NothingToDo(w) ==
    /\ worker[w].pc = "polling"
    /\ maintenance \/ \A p \in Chained, op \in Op : ~ Due(p, op)
    /\ worker' = [worker EXCEPT ![w] = IdleProcess]
    /\ UNCHANGED <<dbVars, clerk, maintenance, interventions, aeatVars>>

\* The answer is known: completedAt is taken now, before the final transaction.
Answered(w, a) ==
    worker' = [worker EXCEPT ![w].pc = "answered", ![w].answer = a,
                             ![w].onTime = ~ msg[worker[w].pos][worker[w].op].late]

\* Failures before anything leaves: credential, payload integrity, request or
\* adapter, no connection, and any other exception on the way; for a RECONCILE,
\* which changes nothing at AEAT, also a query that fails or contradicts itself.
UnsentAnswers(op) ==
    {Dead("credential"), Dead("integrity"), Dead("other"), Retry}
        \cup (IF op = "SUBMIT" THEN {Uncertain} ELSE {})

FailUnsent(w) ==
    /\ worker[w].pc = "claimed"
    /\ \E a \in UnsentAnswers(worker[w].op) : Answered(w, a)
    /\ UNCHANGED <<dbVars, clerk, maintenance, interventions, aeatVars>>

Send(w) ==
    /\ worker[w].pc = "claimed"
    /\ worker[w].op = "SUBMIT"
    /\ worker' = [worker EXCEPT ![w].pc = "sent"]
    /\ wire' = wire \cup {worker[w].pos}
    /\ sent' = [sent EXCEPT ![worker[w].pos] = @ + 1]
    /\ UNCHANGED <<dbVars, clerk, maintenance, interventions, verdict>>

\* After sending: AEAT's line for the record, a cut or timeout or unreadable
\* answer (UNKNOWN), or an answer that contradicts itself or the request (DEAD).
ReceiveAnswer(w) ==
    /\ worker[w].pc = "sent"
    /\ \/ verdict[worker[w].pos] # "NONE" /\ Answered(w, Verdict(verdict[worker[w].pos]))
       \/ Answered(w, Uncertain)
       \/ Answered(w, Dead("other"))
    /\ UNCHANGED <<dbVars, clerk, maintenance, interventions, aeatVars>>

\* AEAT's view of an invoice, which is all that its query service shows.
AeatStatus(i) ==
    LET Judged(type, vs) ==
          \E p \in Chained : chain[p].invoice = i /\ chain[p].type = type /\ verdict[p] \in vs
    IN  CASE Judged("ANULACION", Accepted) -> "Anulado"
          [] ~ Judged("ANULACION", Accepted) /\ Judged("ALTA", {"ACCEPTED"}) -> "Correcto"
          [] ~ Judged("ANULACION", Accepted) /\ ~ Judged("ALTA", {"ACCEPTED"})
               /\ Judged("ALTA", Accepted) -> "AceptadoConErrores"
          [] OTHER -> "SinDatos"

\* Mutant: any status the invoice has is taken for the answer to the record.
ReconcileAnswer_AnyStatus(type, status) ==
    CASE status = "SinDatos" -> Retry
      [] status \in {"Correcto", "Anulado"} -> Verdict("ACCEPTED")
      [] OTHER -> Verdict("ACCEPTED_WITH_ERRORS")
\* What the transport concludes from the status; it never concludes a rejection.
ReconcileAnswer(type, status) ==
    CASE status = "SinDatos" \/ (type = "ANULACION" /\ status # "Anulado") -> Retry
      [] status = "Anulado" \/ (type = "ALTA" /\ status = "Correcto") -> Verdict("ACCEPTED")
      [] OTHER -> Verdict("ACCEPTED_WITH_ERRORS")

Query(w) ==
    LET r == chain[worker[w].pos] IN
    /\ worker[w].pc = "claimed"
    /\ worker[w].op = "RECONCILE"
    /\ Answered(w, ReconcileAnswer(r.type, AeatStatus(r.invoice)))
    /\ UNCHANGED <<dbVars, clerk, maintenance, interventions, aeatVars>>

Closed(m, a) == [Released(m) EXCEPT !.status = "PROCESSED", !.err = a.err]
\* The message after its attempt: closed by a final answer, dead, or to be retried.
AfterAttempt(m, op, a) ==
    CASE a.outcome \in Terminal \/ (a.outcome = "UNKNOWN" /\ op = "SUBMIT") -> Closed(m, a)
      [] ~ (a.outcome \in Terminal \/ (a.outcome = "UNKNOWN" /\ op = "SUBMIT"))
           /\ (m.tries >= m.max \/ a.fate = "DEAD") ->
             [Released(m) EXCEPT !.status = "DEAD", !.err = a.err]
      [] OTHER -> [Released(m) EXCEPT !.status = "PENDING", !.err = a.err]

\* Mutants: the invoice shows the outcome as it is; a rejected cancellation
\* leaves it rejected.
FiscalAfter_RawOutcome(p, a) == a.outcome
FiscalAfter_Unrestored(p, a) ==
    CASE a.outcome \in Accepted /\ chain[p].type = "ANULACION" -> "CANCELLED"
      [] a.outcome \in Accepted /\ chain[p].type = "ALTA" -> a.outcome
      [] a.outcome = "REJECTED" -> "REJECTED"
      [] OTHER -> IF a.fate = "DEAD" THEN "PENDING" ELSE "SENT"
\* verifactuStatus of the invoice; a rejected cancellation restores what AEAT
\* had accepted.
FiscalAfter(p, a) ==
    CASE a.outcome \in Accepted /\ chain[p].type = "ANULACION" -> "CANCELLED"
      [] a.outcome \in Accepted /\ chain[p].type = "ALTA" -> a.outcome
      [] a.outcome = "REJECTED" /\ chain[p].type = "ANULACION" ->
           IF LatestAcceptance(chain[p].target, "ACCEPTED_WITH_ERRORS")
             THEN "ACCEPTED_WITH_ERRORS" ELSE "ACCEPTED"
      [] a.outcome = "REJECTED" /\ chain[p].type = "ALTA" -> "REJECTED"
      [] OTHER -> IF a.fate = "DEAD" THEN "PENDING" ELSE "SENT"

\* A mutant: the lease is not compared.
HoldsLease_NotChecked(w) == TRUE
\* The compare-and-set on the lease that protects the final transaction.
HoldsLease(w) ==
    LET m == msg[worker[w].pos][worker[w].op] IN
    m.status = "CLAIMED" /\ m.lease = {w} /\ worker[w].onTime

Finalize(w) ==
    LET p == worker[w].pos
        op == worker[w].op
        a == worker[w].answer
        n == AfterAttempt(msg[p][op], op, a)
    IN
    /\ worker[w].pc = "answered"
    /\ HoldsLease(w)
    /\ attempts' = [attempts EXCEPT ![p] = Append(@, a.outcome)]
    /\ msg' = [msg EXCEPT ![p] = [o \in Op |->
                 IF o = op THEN n
                 ELSE IF op = "SUBMIT" /\ a.outcome = "UNKNOWN"
                        THEN EnsureReconcile(msg[p][o], p) ELSE msg[p][o]]]
    /\ invoice' = [invoice EXCEPT ![chain[p].invoice].fiscal = FiscalAfter(p, a)]
    /\ worker' = [worker EXCEPT ![w] = IdleProcess]
    /\ UNCHANGED <<chain, clerk, maintenance, interventions, aeatVars>>

\* The answer came late or the message was taken over: it is dropped.
LoseLease(w) ==
    /\ worker[w].pc = "answered"
    /\ ~ HoldsLease(w)
    /\ worker' = [worker EXCEPT ![w] = IdleProcess]
    /\ UNCHANGED <<dbVars, clerk, maintenance, interventions, aeatVars>>

\* The process dies with a message in its hands and starts again.
Crash(w) ==
    /\ worker[w].pc \in {"claimed", "sent", "answered"}
    /\ worker' = [worker EXCEPT ![w] = IdleProcess]
    /\ UNCHANGED <<dbVars, clerk, maintenance, interventions, aeatVars>>
-----------------------------------------------------------------------------
(* The operator, time, maintenance mode and AEAT.                          *)

\* actionFor: whether a dead message may be sent again or only asked about.
Action(op, m) ==
    CASE m.err = "integrity" -> "NONE"
      [] op = "SUBMIT" /\ m.err = "credential" -> "RETRY_SUBMIT"
      [] OTHER -> "RECONCILE"

Revived(m) == [Released(m) EXCEPT !.status = "PENDING", !.max = AtLeast(m)]

\* A dead message goes back to work as it is ...
Reactivate(p, op) ==
    /\ msg[p][op].status = "DEAD"
    /\ Action(op, msg[p][op]) = "RETRY_SUBMIT" \/
         (op = "RECONCILE" /\ Action(op, msg[p][op]) = "RECONCILE")
    /\ interventions < MaxInterventions
    /\ msg' = [msg EXCEPT ![p][op] = Revived(@)]
    /\ interventions' = interventions + 1
    /\ UNCHANGED <<invoice, chain, attempts, worker, clerk, maintenance, aeatVars>>

\* ... but a SUBMIT that may have been sent is closed and asked about instead.
TurnIntoReconcile(p) ==
    LET s == msg[p]["SUBMIT"]
        r == msg[p]["RECONCILE"]
    IN
    /\ s.status = "DEAD"
    /\ Action("SUBMIT", s) = "RECONCILE"
    /\ ~ Decided(p)
    /\ r.status \notin {"PENDING", "CLAIMED"}
    /\ interventions < MaxInterventions
    /\ msg' = [msg EXCEPT ![p] = [op \in Op |->
                 IF op = "SUBMIT" THEN [Released(s) EXCEPT !.status = "PROCESSED"]
                 ELSE IF r.status = "NONE" THEN NewMessage ELSE Revived(r)]]
    /\ invoice' = [invoice EXCEPT ![chain[p].invoice].fiscal = "SENT"]
    /\ interventions' = interventions + 1
    /\ UNCHANGED <<chain, attempts, worker, clerk, maintenance, aeatVars>>

RunOutLease(p, op) ==
    /\ msg[p][op].status = "CLAIMED"
    /\ ~ msg[p][op].late
    /\ msg' = [msg EXCEPT ![p][op].late = TRUE]
    /\ UNCHANGED <<invoice, chain, attempts, worker, clerk, maintenance, interventions, aeatVars>>

SwitchMaintenance ==
    /\ MayPause
    /\ maintenance' = ~ maintenance
    /\ UNCHANGED <<dbVars, worker, clerk, interventions, aeatVars>>

\* AEAT registers an invoice once and cancels only what it has registered.
Admits(r, v) ==
    v \in Accepted =>
      IF r.type = "ALTA" THEN AeatStatus(r.invoice) = "SinDatos"
                         ELSE AeatStatus(r.invoice) \in {"Correcto", "AceptadoConErrores"}

AeatJudges(p) ==
    /\ p \in wire
    /\ \E v \in Terminal : Admits(chain[p], v) /\ verdict' = [verdict EXCEPT ![p] = v]
    /\ wire' = wire \ {p}
    /\ UNCHANGED <<dbVars, worker, clerk, maintenance, interventions, sent>>

LoseSubmission(p) ==
    /\ p \in wire
    /\ wire' = wire \ {p}
    /\ UNCHANGED <<dbVars, worker, clerk, maintenance, interventions, sent, verdict>>
-----------------------------------------------------------------------------
ClerkNext ==
    \/ \E i \in Invoices : Issue(i) \/ VoidTechnically(i)
    \/ \E o, i \in Invoices : Rectify(o, i)
    \/ \E c \in Clerks :
         \/ \E p \in Chained : PrepareCancellation(c, p) \/ PrepareCorrection(c, p)
         \/ ReadHead(c)
         \/ CommitCancellation(c)
         \/ CommitCorrection(c)
         \/ GiveUp(c)

WorkerNext(w) ==
    \/ Recover(w)
    \/ Claim(w)
    \/ NothingToDo(w)
    \/ FailUnsent(w)
    \/ Send(w)
    \/ ReceiveAnswer(w)
    \/ Query(w)
    \/ Finalize(w)
    \/ LoseLease(w)

AeatNext == \E p \in Chained : AeatJudges(p) \/ LoseSubmission(p)

Next ==
    \/ ClerkNext
    \/ \E w \in Workers : WorkerNext(w) \/ Crash(w)
    \/ \E p \in Chained, op \in Op : Reactivate(p, op) \/ RunOutLease(p, op)
    \/ \E p \in Chained : TurnIntoReconcile(p)
    \/ SwitchMaintenance
    \/ AeatNext

Spec == Init /\ [][Next]_vars

\* Fairness: the service manager keeps every worker polling, a transport call
\* ends in an answer or at its timeout, backoffs and leases run out.  Nothing
\* is assumed of clerks, of the operator, of AEAT or of the network.
WorkerFairness(w) ==
    /\ WF_vars(Recover(w))
    /\ WF_vars(Claim(w) \/ NothingToDo(w))
    /\ SF_vars(Claim(w))
    /\ WF_vars(FailUnsent(w) \/ Send(w) \/ Query(w))
    /\ WF_vars(ReceiveAnswer(w))
    /\ WF_vars(Finalize(w) \/ LoseLease(w))

LiveSpec ==
    /\ Spec
    /\ \A w \in Workers : WorkerFairness(w)
    /\ \A p \in Pos, op \in Op : WF_vars(RunOutLease(p, op))
-----------------------------------------------------------------------------
(* Properties.                                                             *)

\* Every variable keeps the type that the schema and the code give it.
TypeOK ==
    /\ invoice \in [Invoices -> Invoice]
    /\ chain \in Seq(Record)
    /\ Len(chain) <= MaxChain
    /\ msg \in [Pos -> [Op -> Message]]
    /\ attempts \in [Pos -> Seq(Outcome)]
    /\ worker \in [Workers -> Process]
    /\ \A w \in Workers : worker[w].pc \in {"claimed", "sent", "answered"} =>
          worker[w].pos \in Chained
    /\ clerk \in [Clerks -> Request]
    /\ \A c \in Clerks : clerk[c] # NoRequest => clerk[c].target \in Chained
    /\ maintenance \in BOOLEAN
    /\ interventions \in Nat
    /\ wire \in SUBSET Pos
    /\ sent \in [Pos -> Nat]
    /\ verdict \in [Pos -> Terminal \cup {"NONE"}]

\* No fiscal record leaves for AEAT twice, whatever crashes, expired leases,
\* retries and interventions happen: once its SUBMIT may have been sent, the
\* outbox only ever asks AEAT about it.
SubmittedAtMostOnce == \A p \in Pos : sent[p] <= 1

\* AEAT never judges a record before it has judged all earlier records of the
\* chain, although several workers claim from the same outbox.
AeatSeesChainInOrder ==
    \A p \in Pos : verdict[p] # "NONE" => \A q \in 1..(p - 1) : verdict[q] # "NONE"

\* The final answer kept in the attempts is the decision AEAT made on that very
\* record, also when it was learnt by a query that shows only the invoice.
VerdictAgrees ==
    \A p \in Pos : \A k \in 1..Len(attempts[p]) : attempts[p][k] \in Terminal =>
        \/ attempts[p][k] = verdict[p]
        \/ attempts[p][k] = "ACCEPTED" /\ verdict[p] = "ACCEPTED_WITH_ERRORS"

\* Once a record has its final answer no further attempt is ever written for
\* it: late answers of a worker that lost its lease are dropped.
VerdictStable == [][\A p \in Pos : Decided(p) => attempts'[p] = attempts[p]]_vars

\* The outbox never loses a record and never works twice on it: a record
\* without final answer has exactly one message that is pending, claimed or
\* dead, a record with one has none, and a RECONCILE replaces a closed SUBMIT.
Live(p, op) == msg[p][op].status \in {"PENDING", "CLAIMED", "DEAD"}
OneLive(p) ==
    /\ Decided(p) => \A op \in Op : ~ Live(p, op)
    /\ ~ Decided(p) => (Live(p, "SUBMIT") <=> ~ Live(p, "RECONCILE"))
    /\ msg[p]["RECONCILE"].status # "NONE" => msg[p]["SUBMIT"].status = "PROCESSED"
OneLiveMessage == \A p \in Chained : OneLive(p)

\* What makes SubmittedAtMostOnce inductive.  Positions beyond the chain are
\* blank; a record that left has a SUBMIT that nobody may send again; and a
\* worker with a SUBMIT in its hands is alone with it, still holds its lease or
\* has lost it for good, and does not report as unsent what it did send.
Blank(p) ==
    /\ \A op \in Op : msg[p][op].status = "NONE"
    /\ attempts[p] = <<>>
    /\ sent[p] = 0

Unsendable(p) ==
    /\ sent[p] = 1
    /\ msg[p]["SUBMIT"].status \in {"CLAIMED", "PROCESSED", "DEAD"}
    /\ msg[p]["SUBMIT"].status = "DEAD" => msg[p]["SUBMIT"].err # "credential"

Submitting(w, p) ==
    /\ worker[w].pc \in {"claimed", "sent", "answered"}
    /\ worker[w].pos = p
    /\ worker[w].op = "SUBMIT"

Alone(w, p) ==
    /\ \/ msg[p]["SUBMIT"].status = "CLAIMED" /\ msg[p]["SUBMIT"].lease = {w}
       \/ msg[p]["SUBMIT"].status = "PROCESSED"
    /\ \A v \in Workers : Submitting(v, p) => v = w
    /\ sent[p] > 0 => worker[w].pc # "claimed"
    /\ (sent[p] > 0 /\ worker[w].pc = "answered") =>
          \/ worker[w].answer.outcome # "RETRYABLE_FAILURE"
          \/ worker[w].answer.fate = "DEAD" /\ worker[w].answer.err # "credential"

Guarded(p) ==
    /\ sent[p] > 0 => Unsendable(p)
    /\ \A w \in Workers : Submitting(w, p) => Alone(w, p)

BlankBeyond == \A p \in Pos : p \notin Chained => Blank(p)

SubmissionInv == BlankBeyond /\ \A p \in Pos : Guarded(p)

\* Every record is hashed over the record just before it, although clerks
\* prepare records outside the transaction that appends them.
ChainLinked == \A p \in Chained : chain[p].over = p - 1

\* The fiscal status shown on an invoice is what its last fiscal record came to,
\* and "pending" or "sent" for as long as that record has no final answer.
LastOutcome(p) == attempts[p][Len(attempts[p])]
FiscalStatusFollowsChain ==
    \A p \in Chained : LatestOf(chain[p].invoice, p) =>
        LET f == invoice[chain[p].invoice].fiscal IN
        /\ ~ Decided(p) => f \in {"PENDING", "SENT"}
        /\ Decided(p) /\ chain[p].type = "ALTA" => f = LastOutcome(p)
        /\ Decided(p) /\ chain[p].type = "ANULACION" =>
              f = IF LastOutcome(p) = "REJECTED" THEN LastOutcome(chain[p].target) ELSE "CANCELLED"

\* An invoice that was to be cancelled at AEAT ends there: however the answers came,
\* no invoice that rectifies it is declared after its cancellation, and it is void in
\* the books only when AEAT itself shows it as annulled and nothing rectifies it.
Declares(p, j) == chain[p].type = "ALTA" /\ chain[p].target = 0 /\ chain[p].invoice = j
InvoiceEndsOnce ==
    /\ \A p, q \in Chained :
         (chain[p].type = "ANULACION" /\ p < q) =>
             \A j \in Invoices : Declares(q, j) => chain[p].invoice \notin invoice[j].rectifies
    /\ \A i \in Invoices : invoice[i].status = "VOIDED" =>
         AeatStatus(i) = "Anulado" /\ ~ Rectified(i)

\* docs/facturacion/06-contrato-verifactu-v1.md:134-135 says that preparing and
\* persisting a cancellation locks the header of the SIF and compares the last record,
\* and the request looks for an invoice that is still ISSUED: no record cancels an
\* invoice that another one has rectified before.
CancelledWhileIssued ==
    \A p, q \in Chained :
        (chain[p].type = "ANULACION" /\ q < p) =>
            \A j \in Invoices : Declares(q, j) => chain[p].invoice \notin invoice[j].rectifies

\* The outbox, its workers, leases and retries implement the fiscal register:
\* the chain grows only by legal records, AEAT judges in order and once, and
\* every judgement is learnt truthfully and at most once.
Register == INSTANCE FiscalRegister WITH
    entries <- [p \in Chained |->
                  [type |-> chain[p].type, invoice |-> chain[p].invoice, target |-> chain[p].target]],
    known <- [p \in Pos |-> IF Decided(p) THEN LastOutcome(p) ELSE "NONE"]
RefinesRegister == Register!Spec

\* docs/05-arquitectura-tecnica.md:213 says that a message goes to error once
\* it exceeds its limits: no pending message has used up its attempts.
ExhaustedIsDead ==
    \A p \in Chained, op \in Op :
        msg[p][op].status = "PENDING" => msg[p][op].tries < msg[p][op].max

\* Every record of the chain gets its final answer, unless it or a record
\* before it ends up with the operator: dead, or out of attempts.
AwaitsOperator(p) ==
    \E op \in Op :
        \/ msg[p][op].status = "DEAD"
        \/ msg[p][op].status = "PENDING" /\ msg[p][op].tries >= msg[p][op].max
Settled ==
    \A p \in Pos : p \in Chained ~> (Decided(p) \/ \E q \in 1..p : AwaitsOperator(q))
=============================================================================
