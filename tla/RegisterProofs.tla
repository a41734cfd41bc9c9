--------------------------- MODULE RegisterProofs ---------------------------
(***************************************************************************)
(* What the company knows is what AEAT decided: the answers recorded in    *)
(* the outbox are true, AEAT judges in chain order, the fiscal status of   *)
(* an invoice follows its records, and all of it implements the fiscal     *)
(* register.  For every value of the constants of Verifactu.               *)
(***************************************************************************)
EXTENDS VerifactuProofs, SequenceTheorems

USE BoundsAssumption DEF BoundsAssumption

\* Which records may stand in the chain: an invoice is declared once; every
\* other record succeeds a declaration of its invoice, a correction one that
\* AEAT rejected, a cancellation one that it accepted, once each.
Original(p) == chain[p].type = "ALTA" /\ chain[p].target = 0

SucceedsLegally(p) ==
    LET t == chain[p].target IN
    /\ t \in 1..(p - 1)
    /\ chain[t].type = "ALTA"
    /\ chain[t].invoice = chain[p].invoice
    /\ chain[p].type = "ALTA" => chain[t].target = 0 /\ HasAttempt(t, {"REJECTED"})
    /\ chain[p].type = "ANULACION" => HasAttempt(t, Accepted)

DeclaredOnce ==
    /\ \A p \in Chained : invoice[chain[p].invoice].status # "DRAFT"
    /\ \A p, q \in Chained :
         Original(p) /\ Original(q) /\ chain[p].invoice = chain[q].invoice => p = q

SucceededOnce ==
    /\ \A p \in Chained : ~ Original(p) => SucceedsLegally(p)
    /\ \A p, q \in Chained :
         ( /\ ~ Original(p) /\ ~ Original(q)
           /\ chain[p].type = chain[q].type
           /\ chain[p].target = chain[q].target ) => p = q

\* A final answer is the last attempt of its record.
AnsweredOnce ==
    \A p \in Pos : \A k \in 1..Len(attempts[p]) :
        attempts[p][k] \in Terminal => k = Len(attempts[p])

\* What a clerk prepares outside a transaction: its target is an ALTA.
RequestLegal(c) ==
    LET t == clerk[c].target IN
    clerk[c] # NoRequest =>
        /\ chain[t].type = "ALTA"
        /\ clerk[c].kind = "ALTA" => chain[t].target = 0

ChainInv ==
    DeclaredOnce /\ SucceededOnce /\ AnsweredOnce /\ \A c \in Clerks : RequestLegal(c)

\* A record is on its way, judged or in the hands of a worker only when every
\* earlier one has its final answer; one that is on its way is not judged.
InHands(w, p) == worker[w].pc \in {"claimed", "sent", "answered"} /\ worker[w].pos = p

WireInv ==
    /\ \A p \in wire : sent[p] > 0 /\ verdict[p] = "NONE"
    /\ \A p \in Pos : verdict[p] # "NONE" => sent[p] > 0
    /\ \A p \in Pos : sent[p] > 0 => EarlierDecided(p)
    /\ \A w \in Workers, p \in Pos : InHands(w, p) => EarlierDecided(p)

\* The final answer a worker is about to record, its lease still its own, is
\* what AEAT decided about that record.
Agrees(answer, v) == answer = v \/ (answer = "ACCEPTED" /\ v = "ACCEPTED_WITH_ERRORS")

AnswerTrue(w) ==
    LET m == msg[worker[w].pos][worker[w].op] IN
    ( /\ worker[w].pc = "answered"
      /\ worker[w].answer.outcome \in Terminal
      /\ m.status = "CLAIMED" /\ m.lease = {w} ) =>
        Agrees(worker[w].answer.outcome, verdict[worker[w].pos])

TruthInv == VerdictAgrees /\ \A w \in Workers : AnswerTrue(w)

RegisterInv ==
    TypeOK /\ SubmissionInv /\ OneLiveMessage /\ ChainInv /\ WireInv /\ TruthInv
-----------------------------------------------------------------------------
(* What every step preserves of chain, attempts and document status.        *)

LEMMA Shapes ==
    ASSUME TypeOK
    PROVE  /\ chain \in Seq(Record) /\ Len(chain) \in Nat /\ Tip = Len(chain)
           /\ invoice \in [Invoices -> Invoice]
           /\ msg \in [Pos -> [Op -> Message]]
           /\ attempts \in [Pos -> Seq(Outcome)]
           /\ worker \in [Workers -> Process]
           /\ clerk \in [Clerks -> Request]
           /\ Chained \subseteq Pos /\ Chained \subseteq Nat
           /\ \A p \in Chained : chain[p] \in Record
BY ChainElement DEF TypeOK, Tip, Chained

LEMMA Appended ==
    ASSUME TypeOK, NEW type, NEW i, NEW t, NEW over, Extend(type, i, t, over),
           NEW n, n = Len(chain) + 1
    PROVE  /\ Chained' = Chained \cup {n} /\ n \notin Chained /\ n \in Pos /\ Tip' = n
           /\ chain'[n] = [type |-> type, invoice |-> i, target |-> t, over |-> over]
           /\ \A p \in Chained : chain'[p] = chain[p] /\ p < n
<1>1. chain \in Seq(Record) /\ Len(chain) \in Nat BY Shapes
<1>2. chain' = Append(chain, [type |-> type, invoice |-> i, target |-> t, over |-> over])
  BY DEF Extend
<1>3. Len(chain') = n /\ Len(chain) < MaxChain BY <1>1, <1>2 DEF Extend
<1>4. chain'[n] = [type |-> type, invoice |-> i, target |-> t, over |-> over] BY <1>1, <1>2
<1>5. \A p \in 1..Len(chain) : chain'[p] = chain[p] BY <1>1, <1>2
<1> QED BY <1>1, <1>3, <1>4, <1>5 DEF Chained, Tip, Pos

LEMMA ChainGrows ==
    ASSUME TypeOK, [Next]_vars
    PROVE  Chained \subseteq Chained' /\ \A p \in Chained : chain'[p] = chain[p]
<1>1. CASE UNCHANGED chain BY <1>1 DEF Chained
<1>2. ASSUME NEW type, NEW i, NEW t, Extend(type, i, t, Tip)
      PROVE  Chained \subseteq Chained' /\ \A p \in Chained : chain'[p] = chain[p]
  BY <1>2, Appended
<1> QED BY <1>1, <1>2, ChainWriters

\* An attempt is written for a record of the chain that has no final answer.
LEMMA AttemptWriters ==
    ASSUME TypeOK, OneLiveMessage, [Next]_vars
    PROVE  \/ UNCHANGED attempts
           \/ \E p \in Chained, o \in Outcome :
                /\ ~ Decided(p)
                /\ attempts' = [attempts EXCEPT ![p] = Append(@, o)]
                /\ UNCHANGED <<chain, clerk>>
                /\ o \in Terminal => \E w \in Workers : Finalize(w) /\ worker[w].pos = p
                                                         /\ worker[w].answer.outcome = o
<1> DEFINE Written == \E p \in Chained, o \in Outcome :
                /\ ~ Decided(p)
                /\ attempts' = [attempts EXCEPT ![p] = Append(@, o)]
                /\ UNCHANGED <<chain, clerk>>
                /\ o \in Terminal => \E w \in Workers : Finalize(w) /\ worker[w].pos = p
                                                         /\ worker[w].answer.outcome = o
<1> SUFFICES ASSUME attempts' # attempts PROVE Written OBVIOUS
<1>1. ASSUME NEW w \in Workers, Finalize(w) PROVE Written
  <2>1. /\ worker[w].pos \in Chained /\ worker[w].op \in Op
        /\ worker[w].answer.outcome \in Outcome
    BY <1>1 DEF TypeOK, Finalize, Process, Answer
  <2>2. Live(worker[w].pos, worker[w].op) BY <1>1 DEF Finalize, HoldsLease, Live
  <2>3. ~ Decided(worker[w].pos) BY <2>1, <2>2 DEF OneLiveMessage, OneLive
  <2> QED BY <1>1, <2>1, <2>3 DEF Finalize
<1>2. ASSUME NEW w \in Workers, Recover(w) PROVE Written
  <2>1. ASSUME NEW p \in Chained, RecoverSubmit(p) PROVE Written
    <3>1. Live(p, "SUBMIT") BY <2>1 DEF RecoverSubmit, Expired, Live
    <3>2. ~ Decided(p) BY <3>1 DEF OneLiveMessage, OneLive, Op
    <3>3. "UNKNOWN" \in Outcome /\ "UNKNOWN" \notin Terminal BY DEF Outcome, Terminal, Accepted
    <3> QED BY <1>2, <2>1, <3>2, <3>3 DEF Recover, RecoverSubmit
  <2> HIDE DEF Written
  <2> QED BY <1>2, <2>1 DEF Recover, RecoverReconcile
<1> HIDE DEF Written
<1>3. ASSUME NEW w \in Workers, WorkerNext(w) \/ Crash(w) PROVE Written
  BY <1>1, <1>2, <1>3 DEF WorkerNext, Crash, Claim, NothingToDo, FailUnsent, Send, ReceiveAnswer,
     Query, LoseLease, dbVars
<1>4. CASE ClerkNext
  BY <1>4 DEF ClerkNext, Issue, Rectify, PrepareCancellation, PrepareCorrection, Prepare,
              ReadHead, CommitCancellation, CommitCorrection, CommitSuccessor, GiveUp,
              VoidTechnically, dbVars
<1>5. ASSUME NEW p \in Chained, TurnIntoReconcile(p) \/
                 \E op \in Op : Reactivate(p, op) \/ RunOutLease(p, op)
      PROVE  Written
  BY <1>5 DEF TurnIntoReconcile, Reactivate, RunOutLease
<1>6. CASE SwitchMaintenance \/ AeatNext \/ UNCHANGED vars
  BY <1>6 DEF SwitchMaintenance, AeatNext, AeatJudges, LoseSubmission, vars, dbVars
<1>7. Written BY <1>3, <1>4, <1>5, <1>6 DEF Next
<1> QED BY <1>7 DEF Written

LEMMA DecidedStays ==
    ASSUME TypeOK, OneLiveMessage, [Next]_vars, NEW p \in Pos, Decided(p)
    PROVE  attempts'[p] = attempts[p] /\ Decided(p)' /\ \A S : HasAttempt(p, S)' <=> HasAttempt(p, S)
BY StableStep DEF Decided, HasAttempt

\* The only ways in which the status of a document changes.
LEMMA StatusWriters ==
    ASSUME TypeOK, [Next]_vars, NEW j \in Invoices
    PROVE  \/ invoice'[j].status = invoice[j].status
           \/ VoidTechnically(j) /\ invoice'[j].status = "VOIDED"
           \/ Issue(j) /\ invoice'[j].status = "ISSUED"
           \/ \E o, i \in Invoices : /\ Rectify(o, i)
                                     /\ j = i /\ invoice'[j].status = "ISSUED"
           \/ \E o, i \in Invoices : /\ Rectify(o, i)
                                     /\ j = o /\ invoice'[j].status = "RECTIFIED"
<1> DEFINE Same == invoice'[j].status = invoice[j].status
<1>1. /\ invoice \in [Invoices -> Invoice]
      /\ \A p \in Chained : chain[p].invoice \in Invoices
  BY Shapes DEF Record
<1>2. ASSUME NEW i \in Invoices, NEW f, invoice' = [invoice EXCEPT ![i].fiscal = f] PROVE Same
  <2>1. invoice'[j] = invoice[j] \/ invoice'[j] = [invoice[j] EXCEPT !.fiscal = f] BY <1>1, <1>2
  <2> QED BY <1>1, <2>1 DEF Invoice
<1>3. ASSUME NEW i \in Invoices, VoidTechnically(i)
      PROVE  Same \/ (j = i /\ invoice'[j].status = "VOIDED")
  BY <1>1, <1>3 DEF VoidTechnically, Invoice
<1>4. ASSUME NEW i \in Invoices, Issue(i) PROVE Same \/ (j = i /\ invoice'[j].status = "ISSUED")
  <2>1. invoice' = [invoice EXCEPT ![i].status = "ISSUED", ![i].fiscal = "PENDING"]
    BY <1>4 DEF Issue
  <2> QED BY <1>1, <2>1 DEF Invoice
<1>5. ASSUME NEW o \in Invoices, NEW i \in Invoices, Rectify(o, i)
      PROVE  \/ Same
             \/ j = i /\ invoice'[j].status = "ISSUED"
             \/ j = o /\ invoice'[j].status = "RECTIFIED"
  <2>1. o # i BY <1>5 DEF Rectify
  <2>2. invoice' = [invoice EXCEPT
         ![i] = [status |-> "ISSUED", fiscal |-> "PENDING", rectifies |-> {o}],
         ![o].status = "RECTIFIED"]
    BY <1>5 DEF Rectify
  <2> QED BY <1>1, <2>1, <2>2 DEF Invoice
<1>6. ASSUME NEW c \in Clerks, CommitCancellation(c) \/ CommitCorrection(c) PROVE Same
  <2>1. clerk[c].target \in Chained
    BY <1>6 DEF TypeOK, CommitCancellation, CommitCorrection, NoRequest
  <2> QED BY <1>1, <1>2, <1>6, <2>1 DEF CommitCancellation, CommitCorrection, CommitSuccessor
<1>7. ASSUME NEW w \in Workers, WorkerNext(w) \/ Crash(w) PROVE Same
  <2>1. CASE Finalize(w)
    <3>1. worker[w].pos \in Chained BY <2>1 DEF TypeOK, Finalize
    <3> QED BY <1>1, <1>2, <2>1, <3>1 DEF Finalize
  <2>2. CASE Recover(w)
    BY <1>1, <1>2, <2>2 DEF Recover, RecoverSubmit, RecoverReconcile
  <2> QED BY <1>7, <2>1, <2>2 DEF WorkerNext, Crash, Claim, NothingToDo, FailUnsent, Send,
             ReceiveAnswer, Query, LoseLease, dbVars
<1>8. ASSUME NEW p \in Chained, TurnIntoReconcile(p) \/
                 \E op \in Op : Reactivate(p, op) \/ RunOutLease(p, op)
      PROVE  Same
  BY <1>1, <1>2, <1>8 DEF TurnIntoReconcile, Reactivate, RunOutLease
<1>9. CASE SwitchMaintenance \/ AeatNext \/ UNCHANGED vars
  BY <1>9 DEF SwitchMaintenance, AeatNext, AeatJudges, LoseSubmission, vars, dbVars
<1>10. CASE ClerkNext
  BY <1>3, <1>4, <1>5, <1>6, <1>10 DEF ClerkNext, PrepareCancellation, PrepareCorrection,
       Prepare, ReadHead, GiveUp, dbVars
<1> QED BY <1>7, <1>8, <1>9, <1>10 DEF Next
-----------------------------------------------------------------------------
(* The chain is legal.                                                      *)

\* What the four actions that append put at the end of the chain.
LEMMA NewRecord ==
    ASSUME TypeOK, ChainInv, [Next]_vars, chain' # chain, NEW n, n = Len(chain) + 1
    PROVE  \/ \E i \in Invoices :
                /\ \/ Issue(i)
                   \/ \E o \in Invoices : Rectify(o, i)
                /\ Extend("ALTA", i, 0, Tip)
                /\ UNCHANGED <<attempts, clerk>>
                /\ invoice[i].status = "DRAFT"
           \/ \E c \in Clerks, t \in Chained, type \in {"ALTA", "ANULACION"} :
                /\ CommitCancellation(c) \/ CommitCorrection(c)
                /\ clerk[c].target = t /\ clerk[c].kind = type /\ clerk[c] # NoRequest
                /\ Extend(type, chain[t].invoice, t, Tip)
                /\ chain[t].type = "ALTA" /\ Unsucceeded(t, type)
                /\ type = "ALTA" => chain[t].target = 0 /\ HasAttempt(t, {"REJECTED"})
                /\ type = "ANULACION" => HasAttempt(t, Accepted)
                /\ UNCHANGED attempts
                /\ clerk' = [clerk EXCEPT ![c] = NoRequest]
                /\ invoice' = [invoice EXCEPT ![chain[t].invoice].fiscal = "PENDING"]
<1> DEFINE Declared == \E i \in Invoices :
                /\ \/ Issue(i)
                   \/ \E o \in Invoices : Rectify(o, i)
                /\ Extend("ALTA", i, 0, Tip)
                /\ UNCHANGED <<attempts, clerk>>
                /\ invoice[i].status = "DRAFT"
           Succeeded == \E c \in Clerks, t \in Chained, type \in {"ALTA", "ANULACION"} :
                /\ CommitCancellation(c) \/ CommitCorrection(c)
                /\ clerk[c].target = t /\ clerk[c].kind = type /\ clerk[c] # NoRequest
                /\ Extend(type, chain[t].invoice, t, Tip)
                /\ chain[t].type = "ALTA" /\ Unsucceeded(t, type)
                /\ type = "ALTA" => chain[t].target = 0 /\ HasAttempt(t, {"REJECTED"})
                /\ type = "ANULACION" => HasAttempt(t, Accepted)
                /\ UNCHANGED attempts
                /\ clerk' = [clerk EXCEPT ![c] = NoRequest]
                /\ invoice' = [invoice EXCEPT ![chain[t].invoice].fiscal = "PENDING"]
<1> SUFFICES Declared \/ Succeeded OBVIOUS
<1>1. ASSUME NEW i \in Invoices, Issue(i) PROVE Declared
  BY <1>1 DEF Issue
<1>2. ASSUME NEW o \in Invoices, NEW i \in Invoices, Rectify(o, i) PROVE Declared
  BY <1>2 DEF Rectify
<1>3. ASSUME NEW c \in Clerks, CommitCancellation(c) PROVE Succeeded
  <2>1. clerk[c].kind = "ANULACION" /\ clerk[c] # NoRequest /\ clerk[c].over = Tip
    BY <1>3 DEF CommitCancellation, HeadUnmoved, NoRequest
  <2>2. clerk[c].target \in Chained BY <2>1 DEF TypeOK
  <2>3. RequestLegal(c) BY DEF ChainInv
  <2>4. chain[clerk[c].target].type = "ALTA" BY <2>1, <2>3 DEF RequestLegal
  <2>5. /\ Extend("ANULACION", chain[clerk[c].target].invoice, clerk[c].target, Tip)
        /\ clerk' = [clerk EXCEPT ![c] = NoRequest]
        /\ invoice' = [invoice EXCEPT ![chain[clerk[c].target].invoice].fiscal = "PENDING"]
        /\ UNCHANGED attempts
        /\ Unsucceeded(clerk[c].target, "ANULACION") /\ HasAttempt(clerk[c].target, Accepted)
    BY <1>3, <2>1 DEF CommitCancellation, CommitSuccessor
  <2> QED BY <1>3, <2>1, <2>2, <2>4, <2>5
<1>4. ASSUME NEW c \in Clerks, CommitCorrection(c) PROVE Succeeded
  <2>1. clerk[c].kind = "ALTA" /\ clerk[c] # NoRequest /\ clerk[c].over = Tip
    BY <1>4 DEF CommitCorrection, HeadUnmoved, NoRequest
  <2>2. clerk[c].target \in Chained BY <2>1 DEF TypeOK
  <2>3. RequestLegal(c) BY DEF ChainInv
  <2>4. chain[clerk[c].target].type = "ALTA" /\ chain[clerk[c].target].target = 0
    BY <2>1, <2>3 DEF RequestLegal
  <2>5. /\ Extend("ALTA", chain[clerk[c].target].invoice, clerk[c].target, Tip)
        /\ clerk' = [clerk EXCEPT ![c] = NoRequest]
        /\ invoice' = [invoice EXCEPT ![chain[clerk[c].target].invoice].fiscal = "PENDING"]
        /\ UNCHANGED attempts
        /\ Unsucceeded(clerk[c].target, "ALTA") /\ LatestIn(clerk[c].target, {"REJECTED"})
    BY <1>4, <2>1 DEF CommitCorrection, CommitSuccessor
  <2>6. HasAttempt(clerk[c].target, {"REJECTED"})
    <3>1. attempts[clerk[c].target] \in Seq(Outcome) BY <2>2, Shapes
    <3>2. Len(attempts[clerk[c].target]) \in 1..Len(attempts[clerk[c].target])
      BY <2>5, <3>1 DEF LatestIn
    <3> QED BY <2>5, <3>2 DEF LatestIn, HasAttempt
  <2> QED BY <1>4, <2>1, <2>2, <2>4, <2>5, <2>6
<1> HIDE DEF Declared, Succeeded
<1>5. CASE ClerkNext
  BY <1>1, <1>2, <1>3, <1>4, <1>5
  DEF ClerkNext, PrepareCancellation, PrepareCorrection, Prepare, ReadHead, GiveUp,
      VoidTechnically, dbVars
<1>6. ASSUME NEW w \in Workers, WorkerNext(w) \/ Crash(w) PROVE chain' = chain
  BY <1>6 DEF WorkerNext, Crash, Recover, Claim, NothingToDo, FailUnsent, Send, ReceiveAnswer,
              Query, Finalize, LoseLease, dbVars
<1>7. ASSUME NEW p \in Chained, TurnIntoReconcile(p) \/
                 \E op \in Op : Reactivate(p, op) \/ RunOutLease(p, op)
      PROVE  chain' = chain
  BY <1>7 DEF TurnIntoReconcile, Reactivate, RunOutLease
<1>8. CASE SwitchMaintenance \/ AeatNext \/ UNCHANGED vars
  BY <1>8 DEF SwitchMaintenance, AeatNext, AeatJudges, LoseSubmission, vars, dbVars
<1> QED BY <1>5, <1>6, <1>7, <1>8 DEF Next

LEMMA DeclaredOnceStep ==
    ASSUME TypeOK, ChainInv, [Next]_vars PROVE DeclaredOnce'
<1>1. \A p \in Chained : /\ chain'[p] = chain[p] /\ chain[p] \in Record
                         /\ chain[p].invoice \in Invoices /\ Chained \subseteq Chained'
  BY ChainGrows, Shapes DEF Record
<1>2. ASSUME NEW j \in Invoices, invoice[j].status # "DRAFT" PROVE invoice'[j].status # "DRAFT"
  BY <1>2, StatusWriters
<1>3. DeclaredOnce BY DEF ChainInv
<1>4. CASE UNCHANGED chain
  BY <1>1, <1>2, <1>3, <1>4 DEF DeclaredOnce, Original, Chained
<1> PICK n : n = Len(chain) + 1 OBVIOUS
<1>5. ASSUME NEW i \in Invoices, Issue(i) \/ \E o \in Invoices : Rectify(o, i),
             Extend("ALTA", i, 0, Tip), invoice[i].status = "DRAFT"
      PROVE  DeclaredOnce'
  <2>1. /\ Chained' = Chained \cup {n} /\ n \notin Chained
        /\ chain'[n] = [type |-> "ALTA", invoice |-> i, target |-> 0, over |-> Tip]
        /\ \A p \in Chained : chain'[p] = chain[p] /\ p < n
    BY <1>5, Appended
  <2>2. \A p \in Chained : chain[p].invoice # i BY <1>3, <1>5 DEF DeclaredOnce
  <2>3. invoice'[i].status = "ISSUED"
    <3>1. invoice \in [Invoices -> Invoice] BY Shapes
    <3>2. ASSUME Issue(i) PROVE invoice'[i].status = "ISSUED"
      <4>1. invoice' = [invoice EXCEPT ![i].status = "ISSUED", ![i].fiscal = "PENDING"]
        BY <3>2 DEF Issue
      <4> QED BY <3>1, <4>1 DEF Invoice
    <3>3. ASSUME NEW o \in Invoices, Rectify(o, i) PROVE invoice'[i].status = "ISSUED"
      <4>1. invoice' = [invoice EXCEPT
              ![i] = [status |-> "ISSUED", fiscal |-> "PENDING", rectifies |-> {o}],
              ![o].status = "RECTIFIED"] /\ o # i
        BY <3>3 DEF Rectify
      <4> QED BY <3>1, <4>1 DEF Invoice
    <3> QED BY <1>5, <3>2, <3>3
  <2>4. \A p \in Chained' : invoice'[chain'[p].invoice].status # "DRAFT"
    BY <1>1, <1>2, <1>3, <2>1, <2>3 DEF DeclaredOnce
  <2>5. \A p \in Chained : Original(p)' <=> Original(p) BY <2>1 DEF Original
  <2>6. ASSUME NEW p \in Chained', NEW q \in Chained', Original(p)', Original(q)',
               chain'[p].invoice = chain'[q].invoice
        PROVE  p = q
    BY <1>3, <2>1, <2>2, <2>5, <2>6 DEF DeclaredOnce
  <2> QED BY <2>4, <2>6 DEF DeclaredOnce
<1>6. ASSUME NEW t \in Chained, NEW type, Extend(type, chain[t].invoice, t, Tip)
      PROVE  DeclaredOnce'
  <2>1. /\ Chained' = Chained \cup {n} /\ n \notin Chained
        /\ chain'[n] = [type |-> type, invoice |-> chain[t].invoice, target |-> t, over |-> Tip]
        /\ \A p \in Chained : chain'[p] = chain[p] /\ p < n
    BY <1>6, Appended
  <2>2. ~ Original(n)' BY <2>1 DEF Original, Chained
  <2>3. \A p \in Chained' : invoice'[chain'[p].invoice].status # "DRAFT"
    BY <1>1, <1>2, <1>3, <2>1 DEF DeclaredOnce
  <2>4. \A p \in Chained : Original(p)' <=> Original(p) BY <2>1 DEF Original
  <2>5. ASSUME NEW p \in Chained', NEW q \in Chained', Original(p)', Original(q)',
               chain'[p].invoice = chain'[q].invoice
        PROVE  p = q
    BY <1>3, <2>1, <2>2, <2>4, <2>5 DEF DeclaredOnce
  <2> QED BY <2>3, <2>5 DEF DeclaredOnce
<1>7. CASE chain' # chain
  BY <1>5, <1>6, <1>7, NewRecord
<1> QED BY <1>4, <1>7

LEMMA SucceededOnceStep ==
    ASSUME TypeOK, OneLiveMessage, ChainInv, [Next]_vars PROVE SucceededOnce'
<1>1. \A p \in Chained : chain'[p] = chain[p] /\ chain[p] \in Record /\ p \in Pos /\ p \in Nat
  BY ChainGrows, Shapes
<1>2. SucceededOnce BY DEF ChainInv
<1>3. ASSUME NEW p \in Chained, ~ Original(p) PROVE SucceedsLegally(p)'
  <2> DEFINE t == chain[p].target
  <2>1. SucceedsLegally(p) BY <1>2, <1>3 DEF SucceededOnce
  <2>2. t \in Chained BY <1>1, <2>1 DEF SucceedsLegally, Chained
  <2>3. HasAttempt(t, {"REJECTED"}) \/ HasAttempt(t, Accepted)
    BY <1>1, <2>1 DEF SucceedsLegally, Record
  <2>4. Decided(t) BY <2>3 DEF Decided, HasAttempt, Terminal
  <2>5. \A S : HasAttempt(t, S)' <=> HasAttempt(t, S) BY <1>1, <2>2, <2>4, DecidedStays
  <2> QED BY <1>1, <2>1, <2>2, <2>5 DEF SucceedsLegally
<1>4. \A p \in Chained : Original(p)' <=> Original(p) BY <1>1 DEF Original
<1>5. CASE UNCHANGED chain
  BY <1>1, <1>2, <1>3, <1>4, <1>5 DEF SucceededOnce, Chained
<1> PICK n : n = Len(chain) + 1 OBVIOUS
<1>6. ASSUME NEW i \in Invoices, Extend("ALTA", i, 0, Tip) PROVE SucceededOnce'
  <2>1. /\ Chained' = Chained \cup {n} /\ n \notin Chained
        /\ chain'[n] = [type |-> "ALTA", invoice |-> i, target |-> 0, over |-> Tip]
    BY <1>6, Appended
  <2>2. Original(n)' BY <2>1 DEF Original
  <2> QED BY <1>1, <1>2, <1>3, <1>4, <2>1, <2>2 DEF SucceededOnce
<1>7. ASSUME NEW t \in Chained, NEW type \in {"ALTA", "ANULACION"},
             Extend(type, chain[t].invoice, t, Tip), UNCHANGED attempts,
             chain[t].type = "ALTA", Unsucceeded(t, type),
             type = "ALTA" => chain[t].target = 0 /\ HasAttempt(t, {"REJECTED"}),
             type = "ANULACION" => HasAttempt(t, Accepted)
      PROVE  SucceededOnce'
  <2>1. /\ Chained' = Chained \cup {n} /\ n \notin Chained /\ t < n /\ n \in Pos
        /\ chain'[n] = [type |-> type, invoice |-> chain[t].invoice, target |-> t, over |-> Tip]
    BY <1>7, Appended
  <2>2. \A S : HasAttempt(t, S)' <=> HasAttempt(t, S) BY <1>7 DEF HasAttempt
  <2>3. t \in 1..(n - 1) BY <1>1, <2>1 DEF Chained, Pos
  <2>4. SucceedsLegally(n)' BY <1>1, <1>7, <2>1, <2>2, <2>3 DEF SucceedsLegally
  <2>5. \A q \in Chained : ~ (chain'[q].type = type /\ chain'[q].target = t)
    BY <1>1, <1>7 DEF Unsucceeded
  <2> QED BY <1>1, <1>2, <1>3, <1>4, <2>1, <2>4, <2>5 DEF SucceededOnce
<1>8. CASE chain' # chain
  BY <1>6, <1>7, <1>8, NewRecord
<1> QED BY <1>5, <1>8
LEMMA AnsweredOnceStep ==
    ASSUME TypeOK, OneLiveMessage, AnsweredOnce, [Next]_vars PROVE AnsweredOnce'
<1>1. attempts \in [Pos -> Seq(Outcome)] BY Shapes
<1>2. CASE UNCHANGED attempts BY <1>2 DEF AnsweredOnce
<1>3. ASSUME NEW p \in Chained, NEW o \in Outcome, ~ Decided(p),
             attempts' = [attempts EXCEPT ![p] = Append(@, o)]
      PROVE  AnsweredOnce'
  <2>1. p \in Pos BY Shapes
  <2>2. \A q \in Pos \ {p} : attempts'[q] = attempts[q] BY <1>1, <1>3, <2>1
  <2> DEFINE s == attempts[p]
  <2>3. attempts'[p] = Append(s, o) /\ s \in Seq(Outcome) BY <1>1, <1>3, <2>1
  <2>4. \A k \in 1..Len(s) : s[k] \notin Terminal BY <1>3 DEF Decided, HasAttempt
  <2> HIDE DEF s
  <2>5. \A k \in 1..Len(attempts'[p]) : attempts'[p][k] \in Terminal => k = Len(attempts'[p])
    <3>1. Len(attempts'[p]) = Len(s) + 1 /\ \A k \in 1..Len(s) : attempts'[p][k] = s[k]
      BY <2>3
    <3>2. Len(s) \in Nat BY <2>3
    <3> QED BY <2>4, <3>1, <3>2
  <2> QED BY <2>2, <2>5 DEF AnsweredOnce
<1> QED BY <1>2, <1>3, AttemptWriters

LEMMA ClerkWriters ==
    ASSUME TypeOK, [Next]_vars, NEW c \in Clerks
    PROVE  \/ clerk'[c] = clerk[c]
           \/ clerk'[c] = NoRequest
           \/ ReadHead(c)
           \/ \E p \in Chained : PrepareCancellation(c, p) \/ PrepareCorrection(c, p)
<1>1. clerk \in [Clerks -> Request] BY Shapes
<1>2. CASE UNCHANGED clerk BY <1>2
<1>3. CASE ClerkNext
  <2>1. ASSUME NEW d \in Clerks,
               CommitCancellation(d) \/ CommitCorrection(d) \/ GiveUp(d)
        PROVE  clerk'[c] = clerk[c] \/ clerk'[c] = NoRequest
    BY <1>1, <2>1 DEF CommitCancellation, CommitCorrection, CommitSuccessor, GiveUp
  <2>2. ASSUME NEW d \in Clerks, NEW p \in Chained,
               PrepareCancellation(d, p) \/ PrepareCorrection(d, p), d # c
        PROVE  clerk'[c] = clerk[c]
    BY <1>1, <2>2 DEF PrepareCancellation, PrepareCorrection, Prepare
  <2>3. ASSUME NEW i \in Invoices, NEW o \in Invoices,
               Issue(i) \/ VoidTechnically(i) \/ Rectify(o, i)
        PROVE  UNCHANGED clerk
    BY <2>3 DEF Issue, VoidTechnically, Rectify
  <2>4. ASSUME NEW d \in Clerks, ReadHead(d), d # c PROVE clerk'[c] = clerk[c]
    BY <1>1, <2>4 DEF ReadHead
  <2> QED BY <1>2, <1>3, <2>1, <2>2, <2>3, <2>4 DEF ClerkNext
<1>4. ASSUME NEW w \in Workers, WorkerNext(w) \/ Crash(w) PROVE UNCHANGED clerk
  BY <1>4 DEF WorkerNext, Crash, Recover, Claim, NothingToDo, FailUnsent, Send, ReceiveAnswer,
              Query, Finalize, LoseLease
<1>5. ASSUME NEW p \in Chained, TurnIntoReconcile(p) \/
                 \E op \in Op : Reactivate(p, op) \/ RunOutLease(p, op)
      PROVE  UNCHANGED clerk
  BY <1>5 DEF TurnIntoReconcile, Reactivate, RunOutLease
<1>6. CASE SwitchMaintenance \/ AeatNext \/ UNCHANGED vars
  BY <1>6 DEF SwitchMaintenance, AeatNext, AeatJudges, LoseSubmission, vars
<1> QED BY <1>2, <1>3, <1>4, <1>5, <1>6 DEF Next

LEMMA RequestsStep ==
    ASSUME TypeOK, ChainInv, [Next]_vars, NEW c \in Clerks PROVE RequestLegal(c)'
<1>1. /\ clerk \in [Clerks -> Request]
      /\ \A p \in Chained : chain'[p] = chain[p]
  BY Shapes, ChainGrows
<1>2. CASE clerk'[c] = NoRequest BY <1>2 DEF RequestLegal
<1>3. ASSUME NEW p \in Chained, PrepareCancellation(c, p) \/ PrepareCorrection(c, p)
      PROVE  RequestLegal(c)'
  <2>1. \E kind \in {"ALTA", "ANULACION"} :
          Prepare(c, kind, p) /\ (kind = "ALTA" => chain[p].target = 0)
    BY <1>3 DEF PrepareCancellation, PrepareCorrection
  <2>2. chain[p].type = "ALTA" BY <1>3 DEF PrepareCancellation, PrepareCorrection
  <2> QED BY <1>1, <2>1, <2>2 DEF RequestLegal, Prepare, NoRequest
<1>4. ASSUME clerk'[c].kind = clerk[c].kind, clerk'[c].target = clerk[c].target,
             clerk[c] # NoRequest
      PROVE  RequestLegal(c)'
  <2>1. clerk[c].target \in Chained BY <1>4 DEF TypeOK
  <2>2. RequestLegal(c) BY DEF ChainInv
  <2> QED BY <1>1, <1>4, <2>1, <2>2 DEF RequestLegal
<1>5. CASE ReadHead(c)
  <2>1. clerk[c] # NoRequest BY <1>5 DEF ReadHead, NoRequest
  <2>2. clerk'[c].kind = clerk[c].kind /\ clerk'[c].target = clerk[c].target
    BY <1>1, <1>5 DEF ReadHead, Request
  <2> QED BY <1>4, <2>1, <2>2
<1> QED BY <1>2, <1>3, <1>4, <1>5, ClerkWriters

LEMMA ChainInvStep ==
    TypeOK /\ SubmissionInv /\ OneLiveMessage /\ ChainInv /\ [Next]_vars => ChainInv'
BY DeclaredOnceStep, SucceededOnceStep, AnsweredOnceStep, RequestsStep DEF ChainInv

LEMMA ChainInvInit == Init => ChainInv
<1> SUFFICES ASSUME Init PROVE ChainInv OBVIOUS
<1>1. Chained = {} BY DEF Init, Chained
<1>2. AnsweredOnce BY DEF Init, AnsweredOnce
<1>3. \A c \in Clerks : clerk[c] = NoRequest BY DEF Init
<1> QED BY <1>1, <1>2, <1>3 DEF ChainInv, DeclaredOnce, SucceededOnce, RequestLegal
-----------------------------------------------------------------------------
(* What the chain says about the answers.                                   *)

LEMMA FinalAnswer ==
    ASSUME TypeOK, AnsweredOnce, NEW p \in Pos, Decided(p)
    PROVE  /\ LastOutcome(p) \in Terminal
           /\ attempts[p] # <<>>
           /\ \A S : S \subseteq Terminal => (HasAttempt(p, S) <=> LastOutcome(p) \in S)
<1>1. attempts[p] \in Seq(Outcome) BY Shapes
<1>2. PICK k \in 1..Len(attempts[p]) : attempts[p][k] \in Terminal BY DEF Decided, HasAttempt
<1>3. k = Len(attempts[p]) BY <1>2 DEF AnsweredOnce
<1>4. \A S : S \subseteq Terminal => \A j \in 1..Len(attempts[p]) :
             attempts[p][j] \in S => j = Len(attempts[p])
  BY DEF AnsweredOnce
<1>5. attempts[p] # <<>> BY <1>1, <1>2
<1>6. LastOutcome(p) \in Terminal BY <1>2, <1>3 DEF LastOutcome
<1>7. Len(attempts[p]) \in 1..Len(attempts[p]) BY <1>2, <1>3
<1>8. ASSUME NEW S, S \subseteq Terminal PROVE HasAttempt(p, S) <=> LastOutcome(p) \in S
  BY <1>4, <1>7, <1>8 DEF LastOutcome, HasAttempt
<1> QED BY <1>5, <1>6, <1>8

LEMMA AcceptedOrRejected ==
    ASSUME TypeOK, AnsweredOnce, NEW p \in Pos, HasAttempt(p, {"REJECTED"})
    PROVE  Decided(p) /\ ~ HasAttempt(p, Accepted)
<1>1. Decided(p) BY DEF Decided, HasAttempt, Terminal
<1>2. LastOutcome(p) = "REJECTED" BY <1>1, FinalAnswer DEF Terminal
<1>3. HasAttempt(p, Accepted) => LastOutcome(p) \in Accepted BY <1>1, FinalAnswer DEF Terminal
<1> QED BY <1>1, <1>2, <1>3 DEF Accepted

\* Of two declarations of one invoice, one corrects the other, which was rejected.
LEMMA TwoDeclarations ==
    ASSUME TypeOK, ChainInv, NEW p \in Chained, NEW q \in Chained, p # q,
           chain[p].type = "ALTA", chain[q].type = "ALTA", chain[p].invoice = chain[q].invoice
    PROVE  \/ chain[q].target = p /\ HasAttempt(p, {"REJECTED"})
           \/ chain[p].target = q /\ HasAttempt(q, {"REJECTED"})
<1> USE DEF Original
<1>1. /\ ~ Original(p) => /\ SucceedsLegally(p) /\ chain[p].target \in Chained
                          /\ Original(chain[p].target)
      /\ ~ Original(q) => /\ SucceedsLegally(q) /\ chain[q].target \in Chained
                          /\ Original(chain[q].target)
  BY Shapes DEF ChainInv, SucceededOnce, SucceedsLegally, Chained
<1>2. \A a, b \in Chained :
        Original(a) /\ Original(b) /\ chain[a].invoice = chain[b].invoice => a = b
  BY DEF ChainInv, DeclaredOnce
<1>3. CASE Original(p) /\ Original(q) BY <1>2, <1>3
<1>4. CASE Original(p) /\ ~ Original(q)
  <2>1. chain[q].target = p BY <1>1, <1>2, <1>4 DEF SucceedsLegally
  <2> QED BY <1>1, <1>4, <2>1 DEF SucceedsLegally
<1>5. CASE ~ Original(p) /\ Original(q)
  <2>1. chain[p].target = q BY <1>1, <1>2, <1>5 DEF SucceedsLegally
  <2> QED BY <1>1, <1>5, <2>1 DEF SucceedsLegally
<1>6. CASE ~ Original(p) /\ ~ Original(q)
  <2>1. chain[p].target = chain[q].target BY <1>1, <1>2, <1>6 DEF SucceedsLegally
  <2> QED BY <1>6, <2>1 DEF ChainInv, SucceededOnce
<1> QED BY <1>3, <1>4, <1>5, <1>6

\* An invoice is cancelled once.
LEMMA OneCancellation ==
    ASSUME TypeOK, ChainInv, NEW p \in Chained, NEW q \in Chained,
           chain[p].type = "ANULACION", chain[q].type = "ANULACION",
           chain[p].invoice = chain[q].invoice
    PROVE  p = q
<1> DEFINE t == chain[p].target
           u == chain[q].target
<1>1. ~ Original(p) /\ ~ Original(q) BY DEF Original
<1>2. /\ SucceedsLegally(p) /\ t \in Chained /\ t \in Pos
      /\ SucceedsLegally(q) /\ u \in Chained /\ u \in Pos
  BY <1>1, Shapes DEF ChainInv, SucceededOnce, SucceedsLegally, Chained
<1>3. /\ chain[t].type = "ALTA" /\ chain[u].type = "ALTA"
      /\ chain[t].invoice = chain[u].invoice
      /\ HasAttempt(t, Accepted) /\ HasAttempt(u, Accepted)
  BY <1>2 DEF SucceedsLegally
<1> HIDE DEF t, u
<1>4. t = u BY <1>2, <1>3, TwoDeclarations, AcceptedOrRejected DEF ChainInv
<1> QED BY <1>1, <1>4 DEF ChainInv, SucceededOnce, t, u

\* Every record but the last of its invoice has its final answer, and nothing
\* follows a cancellation.
LEMMA EarlierOfInvoice ==
    ASSUME TypeOK, ChainInv, NEW p \in Chained, NEW q \in Chained, p < q,
           chain[p].invoice = chain[q].invoice
    PROVE  Decided(p) /\ chain[p].type = "ALTA"
<1> USE DEF Original
<1>1. chain[p].type \in {"ALTA", "ANULACION"} /\ chain[q].type \in {"ALTA", "ANULACION"}
  BY Shapes DEF Record
<1>2. \A r \in Chained : ~ Original(r) =>
        /\ SucceedsLegally(r) /\ chain[r].target \in Chained /\ chain[r].target < r
        /\ chain[r].target \in Pos /\ r \in Pos
  <2> SUFFICES ASSUME NEW r \in Chained, ~ Original(r)
               PROVE  /\ SucceedsLegally(r) /\ chain[r].target \in Chained
                      /\ chain[r].target < r /\ chain[r].target \in Pos /\ r \in Pos
    OBVIOUS
  <2>1. SucceedsLegally(r) BY DEF ChainInv, SucceededOnce
  <2>2. chain[r].target \in 1..(r - 1) BY <2>1 DEF SucceedsLegally
  <2>3. r \in 1..Len(chain) /\ Len(chain) \in Nat BY Shapes DEF Chained
  <2>4. chain[r].target \in Chained /\ chain[r].target < r BY <2>2, <2>3 DEF Chained
  <2> QED BY <2>1, <2>4, Shapes
<1>3. \A r \in Pos : HasAttempt(r, Accepted) \/ HasAttempt(r, {"REJECTED"}) => Decided(r)
  BY DEF Decided, HasAttempt, Terminal
<1>4. p \in Pos /\ q \in Pos /\ p \in Nat /\ q \in Nat BY Shapes
<1>5. CASE chain[p].type = "ALTA" /\ chain[q].type = "ALTA"
  <2>1. chain[p].target # q BY <1>2, <1>4, <1>5 DEF Chained
  <2> QED BY <1>3, <1>4, <1>5, <2>1, TwoDeclarations
<1>6. CASE chain[p].type = "ALTA" /\ chain[q].type = "ANULACION"
  <2> DEFINE t == chain[q].target
  <2>1. t \in Chained /\ chain[t].type = "ALTA" /\ HasAttempt(t, Accepted)
        /\ chain[t].invoice = chain[p].invoice /\ t \in Pos
    BY <1>2, <1>6 DEF SucceedsLegally
  <2> HIDE DEF t
  <2>2. CASE t = p BY <1>3, <1>4, <1>6, <2>1, <2>2
  <2>3. CASE t # p
    <3>1. ~ HasAttempt(t, {"REJECTED"}) BY <2>1, AcceptedOrRejected DEF ChainInv
    <3>2. HasAttempt(p, {"REJECTED"}) BY <1>6, <2>1, <2>3, <3>1, TwoDeclarations
    <3> QED BY <1>3, <1>4, <1>6, <3>2
  <2> QED BY <2>2, <2>3
<1>7. CASE chain[p].type = "ANULACION" /\ chain[q].type = "ALTA"
  <2> DEFINE t == chain[p].target
  <2>1. t \in Chained /\ chain[t].type = "ALTA" /\ HasAttempt(t, Accepted) /\ t < p
        /\ chain[t].invoice = chain[q].invoice /\ t \in Pos
    BY <1>2, <1>7 DEF SucceedsLegally
  <2> HIDE DEF t
  <2>2. t # q /\ ~ HasAttempt(t, {"REJECTED"})
    BY <1>4, <2>1, AcceptedOrRejected DEF ChainInv, Pos
  <2>3. chain[t].target = q BY <1>7, <2>1, <2>2, TwoDeclarations
  <2>4. chain[t].target < t BY <1>4, <1>2, <2>1, <2>3 DEF Pos
  <2> QED BY <1>4, <2>1, <2>3, <2>4 DEF Pos
<1>8. CASE chain[p].type = "ANULACION" /\ chain[q].type = "ANULACION"
  BY <1>4, <1>8, OneCancellation
<1> QED BY <1>1, <1>5, <1>6, <1>7, <1>8
-----------------------------------------------------------------------------
(* Records on their way, and what AEAT decided.                             *)

\* Only AEAT writes a verdict, and only for a record on its way.
LEMMA VerdictWriters ==
    ASSUME TypeOK, [Next]_vars
    PROVE  \/ UNCHANGED verdict
           \/ \E p \in Chained : AeatJudges(p)
BY DEF Next, vars, ClerkNext, WorkerNext, AeatNext, Issue, Rectify, PrepareCancellation,
       PrepareCorrection, Prepare, ReadHead, CommitCancellation, CommitCorrection,
       CommitSuccessor, GiveUp, VoidTechnically, Recover, Claim, NothingToDo, FailUnsent,
       Send, ReceiveAnswer, Query, Finalize, LoseLease, Crash, Reactivate, TurnIntoReconcile,
       RunOutLease, SwitchMaintenance, LoseSubmission, aeatVars

LEMMA WireWriters ==
    ASSUME TypeOK, [Next]_vars
    PROVE  \/ UNCHANGED <<wire, sent>>
           \/ \E p \in Chained : wire' = wire \ {p} /\ UNCHANGED sent
           \/ \E w \in Workers : Send(w)
BY DEF Next, vars, ClerkNext, WorkerNext, AeatNext, Issue, Rectify, PrepareCancellation,
       PrepareCorrection, Prepare, ReadHead, CommitCancellation, CommitCorrection,
       CommitSuccessor, GiveUp, VoidTechnically, Recover, Claim, NothingToDo, FailUnsent,
       ReceiveAnswer, Query, Finalize, LoseLease, Crash, Reactivate, TurnIntoReconcile,
       RunOutLease, SwitchMaintenance, AeatJudges, LoseSubmission, aeatVars

\* A worker has a record in its hands since it claimed a message of it.
LEMMA HandWriters ==
    ASSUME TypeOK, [Next]_vars, NEW w \in Workers, NEW p \in Pos, InHands(w, p)'
    PROVE  InHands(w, p) \/ \E op \in Op : Claimable(p, op)
<1>1. worker \in [Workers -> Process] BY Shapes
<1>2. CASE UNCHANGED worker BY <1>2 DEF InHands
<1>3. ASSUME NEW v \in Workers, Claim(v) PROVE InHands(w, p) \/ \E op \in Op : Claimable(p, op)
  <2>1. PICK q \in Chained, op \in Op :
          /\ Claimable(q, op)
          /\ worker' = [worker EXCEPT ![v] =
                         [IdleProcess EXCEPT !.pc = "claimed", !.pos = q, !.op = op]]
    BY <1>3 DEF Claim
  <2>2. v = w => worker'[w].pos = q BY <1>1, <2>1 DEF IdleProcess
  <2> QED BY <1>1, <2>1, <2>2 DEF InHands
<1>4. ASSUME NEW v \in Workers, NEW a, Answered(v, a), worker[v].pc \in {"claimed", "sent"}
      PROVE  InHands(w, p)
  BY <1>1, <1>4 DEF Answered, InHands, Process
<1>5. ASSUME NEW v \in Workers, FailUnsent(v) \/ ReceiveAnswer(v) \/ Query(v)
      PROVE  InHands(w, p)
  <2>1. worker[v].pc \in {"claimed", "sent"} BY <1>5 DEF FailUnsent, ReceiveAnswer, Query
  <2>2. \E a : Answered(v, a) BY <1>5, WorkerAnswers
  <2> QED BY <1>4, <2>1, <2>2
<1>6. ASSUME NEW v \in Workers, Send(v) PROVE InHands(w, p)
  BY <1>1, <1>6 DEF Send, InHands, Process
<1>7. ASSUME NEW v \in Workers, worker' = [worker EXCEPT ![v] = IdleProcess]
      PROVE  InHands(w, p)
  BY <1>1, <1>7, IdleType DEF InHands
<1>8. ASSUME NEW v \in Workers, Recover(v) PROVE InHands(w, p)
  BY <1>1, <1>8 DEF Recover, InHands, Process
<1>9. ASSUME NEW v \in Workers, WorkerNext(v) \/ Crash(v)
      PROVE  InHands(w, p) \/ \E op \in Op : Claimable(p, op)
  BY <1>3, <1>5, <1>6, <1>7, <1>8, <1>9
  DEF WorkerNext, Crash, NothingToDo, Finalize, LoseLease
<1>10. ClerkNext => UNCHANGED worker
  BY DEF ClerkNext, Issue, Rectify, PrepareCancellation, PrepareCorrection, Prepare,
         ReadHead, CommitCancellation, CommitCorrection, CommitSuccessor, GiveUp,
         VoidTechnically
<1>11. ASSUME NEW q \in Chained, TurnIntoReconcile(q) \/
                 \E op \in Op : Reactivate(q, op) \/ RunOutLease(q, op)
       PROVE  UNCHANGED worker
  BY <1>11 DEF TurnIntoReconcile, Reactivate, RunOutLease
<1>12. SwitchMaintenance \/ AeatNext \/ UNCHANGED vars => UNCHANGED worker
  BY DEF SwitchMaintenance, AeatNext, AeatJudges, LoseSubmission, vars
<1> QED BY <1>2, <1>9, <1>10, <1>11, <1>12 DEF Next

LEMMA JudgedStays ==
    ASSUME TypeOK, WireInv, [Next]_vars, NEW p \in Pos, verdict[p] # "NONE"
    PROVE  verdict'[p] = verdict[p]
<1>1. verdict \in [Pos -> Terminal \cup {"NONE"}] BY DEF TypeOK
<1>2. ASSUME NEW q \in Chained, AeatJudges(q) PROVE verdict'[p] = verdict[p]
  BY <1>1, <1>2 DEF AeatJudges, WireInv
<1> QED BY <1>2, VerdictWriters

LEMMA WireStep ==
    ASSUME TypeOK, SubmissionInv, OneLiveMessage, WireInv, [Next]_vars PROVE WireInv'
<1>1. /\ sent \in [Pos -> Nat] /\ wire \subseteq Pos
      /\ verdict \in [Pos -> Terminal \cup {"NONE"}]
  BY DEF TypeOK
<1>2. \A p \in Pos : EarlierDecided(p) => EarlierDecided(p)'
  BY DecidedStays DEF EarlierDecided, Pos
<1>3. ASSUME NEW w \in Workers, Send(w)
      PROVE  /\ worker[w].pos \in Pos /\ sent[worker[w].pos] = 0
             /\ sent' = [sent EXCEPT ![worker[w].pos] = @ + 1]
             /\ wire' = wire \cup {worker[w].pos}
             /\ UNCHANGED verdict
             /\ InHands(w, worker[w].pos)
  <2>1. worker[w].pos \in Pos /\ worker[w].pc = "claimed" /\ worker[w].op = "SUBMIT"
    BY <1>3, Shapes DEF TypeOK, Send
  <2>2. Alone(w, worker[w].pos) BY <2>1 DEF SubmissionInv, Guarded, Submitting
  <2> QED BY <1>1, <1>3, <2>1, <2>2 DEF Alone, Send, InHands
<1>4. \A p \in Pos : sent[p] > 0 => sent'[p] > 0
  <2>1. CASE UNCHANGED sent BY <2>1
  <2>2. ASSUME NEW w \in Workers, Send(w) PROVE \A p \in Pos : sent[p] > 0 => sent'[p] > 0
    BY <1>1, <1>3, <2>2
  <2> QED BY <2>1, <2>2, WireWriters
<1>5. \A p \in wire' : sent'[p] > 0 /\ verdict'[p] = "NONE"
  <2>1. ASSUME NEW w \in Workers, Send(w)
        PROVE  \A p \in wire' : sent'[p] > 0 /\ verdict'[p] = "NONE"
    BY <1>1, <1>3, <2>1 DEF WireInv
  <2>2. ASSUME NEW q \in Chained, AeatJudges(q)
        PROVE  \A p \in wire' : sent'[p] > 0 /\ verdict'[p] = "NONE"
    BY <1>1, <2>2 DEF AeatJudges, WireInv
  <2>3. CASE UNCHANGED <<sent, verdict>> /\ wire' \subseteq wire
    BY <2>3 DEF WireInv
  <2> QED BY <2>1, <2>2, <2>3, VerdictWriters, WireWriters
<1>6. \A p \in Pos : verdict'[p] # "NONE" => sent'[p] > 0
  <2>1. ASSUME NEW q \in Chained, AeatJudges(q), NEW p \in Pos, verdict'[p] # "NONE"
        PROVE  sent[p] > 0
    BY <1>1, <2>1 DEF AeatJudges, WireInv
  <2> QED BY <1>4, <2>1, VerdictWriters DEF WireInv
<1>7. \A p \in Pos : sent'[p] > 0 => EarlierDecided(p)'
  <2>1. ASSUME NEW w \in Workers, Send(w), NEW p \in Pos, sent'[p] > 0
        PROVE  EarlierDecided(p)
    BY <1>1, <1>3, <2>1 DEF WireInv
  <2>2. \A p \in Pos : sent'[p] > 0 => EarlierDecided(p)
    BY <2>1, WireWriters DEF WireInv
  <2> QED BY <1>2, <2>2
<1>8. \A w \in Workers, p \in Pos : InHands(w, p)' => EarlierDecided(p)'
  BY <1>2, HandWriters DEF WireInv, Claimable
<1> QED BY <1>5, <1>6, <1>7, <1>8 DEF WireInv

LEMMA WireInit == Init => WireInv
<1> SUFFICES ASSUME Init PROVE WireInv OBVIOUS
<1>1. \A w \in Workers : worker[w].pc = "idle" BY IdleType DEF Init
<1> QED BY <1>1 DEF Init, WireInv, InHands
-----------------------------------------------------------------------------
(* The answers are true.                                                    *)

\* What the query service of AEAT shows of an invoice, and why.
LEMMA StatusSays ==
    ASSUME NEW i
    PROVE  /\ AeatStatus(i) \in {"Anulado", "Correcto", "AceptadoConErrores", "SinDatos"}
           /\ AeatStatus(i) = "Anulado" <=>
                \E q \in Chained : chain[q].invoice = i /\ chain[q].type = "ANULACION"
                                     /\ verdict[q] \in Accepted
           /\ AeatStatus(i) = "Correcto" =>
                \E q \in Chained : chain[q].invoice = i /\ chain[q].type = "ALTA"
                                     /\ verdict[q] = "ACCEPTED"
           /\ AeatStatus(i) = "AceptadoConErrores" =>
                \E q \in Chained : chain[q].invoice = i /\ chain[q].type = "ALTA"
                                     /\ verdict[q] = "ACCEPTED_WITH_ERRORS"
<1> DEFINE Judged(type, vs) ==
      \E q \in Chained : chain[q].invoice = i /\ chain[q].type = type /\ verdict[q] \in vs
<1>1. AeatStatus(i) =
        CASE Judged("ANULACION", Accepted) -> "Anulado"
          [] ~ Judged("ANULACION", Accepted) /\ Judged("ALTA", {"ACCEPTED"}) -> "Correcto"
          [] ~ Judged("ANULACION", Accepted) /\ ~ Judged("ALTA", {"ACCEPTED"})
               /\ Judged("ALTA", Accepted) -> "AceptadoConErrores"
          [] OTHER -> "SinDatos"
  BY DEF AeatStatus
<1>2. Judged("ALTA", Accepted) /\ ~ Judged("ALTA", {"ACCEPTED"}) =>
        Judged("ALTA", {"ACCEPTED_WITH_ERRORS"})
  BY DEF Accepted
<1> HIDE DEF Judged
<1>3. /\ AeatStatus(i) \in {"Anulado", "Correcto", "AceptadoConErrores", "SinDatos"}
      /\ AeatStatus(i) = "Anulado" <=> Judged("ANULACION", Accepted)
      /\ AeatStatus(i) = "Correcto" => Judged("ALTA", {"ACCEPTED"})
      /\ AeatStatus(i) = "AceptadoConErrores" => Judged("ALTA", {"ACCEPTED_WITH_ERRORS"})
  BY <1>1, <1>2
<1> QED BY <1>3 DEF Judged

\* The status of the invoice is the answer to its one undecided record.
LEMMA QueryTruthful ==
    ASSUME TypeOK, ChainInv, VerdictAgrees, NEW p \in Chained, ~ Decided(p),
           NEW a, a = ReconcileAnswer(chain[p].type, AeatStatus(chain[p].invoice)),
           a.outcome \in Terminal
    PROVE  Agrees(a.outcome, verdict[p])
<1> DEFINE i == chain[p].invoice
<1>1. p \in Pos /\ p \in Nat /\ chain[p].type \in {"ALTA", "ANULACION"}
  BY Shapes DEF Record
<1>2. ASSUME NEW q \in Chained, chain[p].type = "ALTA", chain[q].type = "ALTA",
             chain[q].invoice = i, verdict[q] \in Accepted
      PROVE  q = p
  <2>1. ~ HasAttempt(p, {"REJECTED"}) BY DEF Decided, HasAttempt, Terminal
  <2>2. ~ HasAttempt(q, {"REJECTED"})
    BY <1>2, Shapes DEF HasAttempt, VerdictAgrees, Terminal, Accepted
  <2> QED BY <1>2, <2>1, <2>2, TwoDeclarations
<1>3. ASSUME NEW q \in Chained, chain[p].type = "ALTA", chain[q].type = "ANULACION",
             chain[q].invoice = i
      PROVE  FALSE
  <2>1. q \in Nat BY Shapes
  <2>2. p < q \/ q < p BY <1>1, <1>3, <2>1
  <2> QED BY <1>3, <2>2, EarlierOfInvoice
<1>4. CASE chain[p].type = "ALTA"
  <2>1. AeatStatus(i) # "Anulado" BY <1>3, <1>4, StatusSays
  <2>2. AeatStatus(i) = "Correcto" => verdict[p] = "ACCEPTED"
    BY <1>2, <1>4, StatusSays DEF Accepted
  <2>3. AeatStatus(i) = "AceptadoConErrores" => verdict[p] = "ACCEPTED_WITH_ERRORS"
    BY <1>2, <1>4, StatusSays DEF Accepted
  <2>4. AeatStatus(i) \in {"Correcto", "AceptadoConErrores", "SinDatos"} BY <2>1, StatusSays
  <2> HIDE DEF i
  <2>5. a = ReconcileAnswer("ALTA", AeatStatus(i)) BY <1>4 DEF i
  <2> QED BY <2>2, <2>3, <2>4, <2>5 DEF ReconcileAnswer, Verdict, Retry, Agrees, Terminal, Accepted
<1>5. CASE chain[p].type = "ANULACION"
  <2>1. AeatStatus(i) = "Anulado" => verdict[p] \in Accepted
    BY <1>5, StatusSays, OneCancellation
  <2> HIDE DEF i
  <2>2. a = ReconcileAnswer("ANULACION", AeatStatus(i)) BY <1>5 DEF i
  <2>3. CASE AeatStatus(i) = "Anulado"
    <3>1. a.outcome = "ACCEPTED" BY <2>2, <2>3 DEF ReconcileAnswer, Verdict
    <3> QED BY <2>1, <2>3, <3>1 DEF Agrees, Accepted
  <2>4. CASE AeatStatus(i) # "Anulado"
    <3>1. a = Retry BY <2>2, <2>4 DEF ReconcileAnswer
    <3> QED BY <3>1 DEF Retry, Terminal, Accepted
  <2> QED BY <2>3, <2>4
<1> QED BY <1>1, <1>4, <1>5

\* Only a worker's own claim puts a message into its hands.
LEMMA ClaimWriters ==
    ASSUME TypeOK, SubmissionInv, [Next]_vars, NEW w \in Workers, NEW p \in Pos, NEW op \in Op,
           msg'[p][op].status = "CLAIMED", msg'[p][op].lease = {w}
    PROVE  \/ msg[p][op].status = "CLAIMED" /\ msg[p][op].lease = {w}
           \/ Claim(w) /\ worker'[w].pc = "claimed"
<1> DEFINE Held == msg[p][op].status = "CLAIMED" /\ msg[p][op].lease = {w}
           Kept(m, n) == n.status = "CLAIMED" /\ n.lease = {w} =>
                           m.status = "CLAIMED" /\ m.lease = {w}
<1> SUFFICES ASSUME ~ Held PROVE Claim(w) /\ worker'[w].pc = "claimed" OBVIOUS
<1>1. msg \in [Pos -> [Op -> Message]] /\ Chained \subseteq Pos /\ worker \in [Workers -> Process]
  BY Shapes
<1>2. ASSUME UNCHANGED msg PROVE FALSE BY <1>2
<1>3. ASSUME NEW q \in Pos, NEW o \in Op, NEW n, msg' = [msg EXCEPT ![q][o] = n],
             Kept(msg[q][o], n)
      PROVE  FALSE
  <2>1. msg'[p][op] = msg[p][op] \/ (q = p /\ o = op /\ msg'[p][op] = n) BY <1>1, <1>3
  <2> QED BY <1>3, <2>1
<1>4. ASSUME NEW q \in Pos, NEW f, msg' = [msg EXCEPT ![q] = f],
             \A o \in Op : Kept(msg[q][o], f[o])
      PROVE  FALSE
  <2>1. msg'[p] = msg[p] \/ (q = p /\ msg'[p] = f) BY <1>1, <1>4
  <2> QED BY <1>4, <2>1
<1>5. ASSUME NEW m \in Message
      PROVE  /\ Kept(m, m)
             /\ \A q : Kept(m, EnsureReconcile(m, q))
             /\ Kept(m, ExpiredSubmit(m)) /\ Kept(m, ExpiredReconcile(m))
             /\ Kept(m, Revived(m)) /\ Kept(m, NewMessage)
             /\ Kept(m, [Released(m) EXCEPT !.status = "PROCESSED"])
             /\ Kept(m, [m EXCEPT !.late = TRUE])
             /\ \A o, a : Kept(m, AfterAttempt(m, o, a))
  <2>1. /\ Released(m).lease = {} /\ ExpiredSubmit(m).lease = {} /\ ExpiredReconcile(m).lease = {}
        /\ Revived(m).lease = {} /\ NewMessage.lease = {}
        /\ [Released(m) EXCEPT !.status = "PROCESSED"].lease = {}
        /\ [m EXCEPT !.late = TRUE].lease = m.lease /\ [m EXCEPT !.late = TRUE].status = m.status
        /\ \A a : Closed(m, a).lease = {}
        /\ \A x, e : [Released(m) EXCEPT !.status = x, !.err = e].lease = {}
        /\ \A x, y, e : [Released(m) EXCEPT !.status = x, !.max = y, !.err = e].lease = {}
    BY DEF Released, ExpiredSubmit, ExpiredReconcile, Revived, NewMessage, NoMessage, Closed, Message
  <2>2. \A q : EnsureReconcile(m, q) = m \/ EnsureReconcile(m, q).lease = {}
    BY <2>1, NewMessageType DEF EnsureReconcile, NewMessage, NoMessage
  <2>3. \A o, a : AfterAttempt(m, o, a).lease = {}
    BY <2>1 DEF AfterAttempt
  <2> QED BY <2>1, <2>2, <2>3
<1> HIDE DEF Kept
<1>6. \A q \in Chained, o \in Op : q \in Pos /\ msg[q][o] \in Message BY <1>1
<1>7. ASSUME NEW t, NEW i, NEW k, NEW over, Extend(t, i, k, over) PROVE FALSE
  <2> PICK n : n = Len(chain) + 1 OBVIOUS
  <2>1. n \in Pos BY <1>7, Appended
  <2>2. msg[n]["SUBMIT"] \in Message /\ "SUBMIT" \in Op BY <1>1, <2>1 DEF Op
  <2>3. msg' = [msg EXCEPT ![n]["SUBMIT"] = NewMessage] BY <1>7 DEF Extend
  <2> QED BY <1>3, <1>5, <2>1, <2>2, <2>3
<1>8. CASE ClerkNext
  BY <1>2, <1>7, <1>8 DEF ClerkNext, Issue, Rectify, CommitCancellation, CommitCorrection,
     CommitSuccessor, PrepareCancellation, PrepareCorrection, Prepare, ReadHead, GiveUp,
     VoidTechnically, dbVars
<1>9. ASSUME NEW q \in Chained, RecoverSubmit(q) PROVE FALSE
  <2> DEFINE f == [o \in Op |-> IF o = "SUBMIT" THEN ExpiredSubmit(msg[q]["SUBMIT"])
                                ELSE EnsureReconcile(msg[q]["RECONCILE"], q)]
  <2>1. msg' = [msg EXCEPT ![q] = f] BY <1>9 DEF RecoverSubmit
  <2>2. \A o \in Op : Kept(msg[q][o], f[o]) BY <1>5, <1>6 DEF Op
  <2> HIDE DEF f
  <2> QED BY <1>4, <1>6, <2>1, <2>2
<1>10. ASSUME NEW q \in Chained, RecoverReconcile(q) PROVE FALSE
  <2> PICK n : n = ExpiredReconcile(msg[q]["RECONCILE"]) OBVIOUS
  <2>1. q \in Pos /\ "RECONCILE" \in Op /\ msg[q]["RECONCILE"] \in Message BY <1>6 DEF Op
  <2>2. msg' = [msg EXCEPT ![q]["RECONCILE"] = n] BY <1>10 DEF RecoverReconcile
  <2>3. Kept(msg[q]["RECONCILE"], n) BY <1>5, <2>1
  <2> QED BY <1>3, <2>1, <2>2, <2>3
<1>11. ASSUME NEW v \in Workers, Finalize(v) PROVE FALSE
  <2> DEFINE q == worker[v].pos
             op2 == worker[v].op
             a == worker[v].answer
             f == [o \in Op |->
                 IF o = op2 THEN AfterAttempt(msg[q][op2], op2, a)
                 ELSE IF op2 = "SUBMIT" /\ a.outcome = "UNKNOWN"
                        THEN EnsureReconcile(msg[q][o], q) ELSE msg[q][o]]
  <2>1. msg' = [msg EXCEPT ![q] = f] BY <1>11 DEF Finalize
  <2>2. q \in Chained BY <1>11 DEF Finalize, TypeOK
  <2>3. \A o \in Op : Kept(msg[q][o], f[o]) BY <1>5, <1>6, <2>2
  <2> HIDE DEF f, q
  <2> QED BY <1>4, <1>6, <2>1, <2>2, <2>3
<1>12. ASSUME NEW v \in Workers, Claim(v) PROVE Claim(w) /\ worker'[w].pc = "claimed"
  <2>1. PICK q \in Chained, o \in Op :
          /\ msg' = [msg EXCEPT ![q][o] = Claimed(@, v)]
          /\ worker' = [worker EXCEPT ![v] =
                         [IdleProcess EXCEPT !.pc = "claimed", !.pos = q, !.op = o]]
    BY <1>12 DEF Claim
  <2>2. Claimed(msg[q][o], v).lease = {v} BY <1>6 DEF Claimed, Message
  <2>3. v # w => Kept(msg[q][o], Claimed(msg[q][o], v)) BY <2>2 DEF Kept
  <2>4. v = w BY <1>3, <1>6, <2>1, <2>3
  <2> QED BY <1>1, <1>12, <2>1, <2>4 DEF IdleProcess
<1>13. ASSUME NEW v \in Workers, WorkerNext(v) \/ Crash(v)
       PROVE  Claim(w) /\ worker'[w].pc = "claimed"
  BY <1>2, <1>9, <1>10, <1>11, <1>12, <1>13 DEF WorkerNext, Crash, Recover, NothingToDo,
     FailUnsent, Send, ReceiveAnswer, Query, LoseLease, dbVars
<1>14. ASSUME NEW q \in Chained, NEW o \in Op, Reactivate(q, o) \/ RunOutLease(q, o)
       PROVE  FALSE
  <2>1. CASE Reactivate(q, o)
    <3>1. q \in Pos /\ Kept(msg[q][o], Revived(msg[q][o])) BY <1>5, <1>6
    <3>2. msg' = [msg EXCEPT ![q][o] = Revived(msg[q][o])] BY <2>1 DEF Reactivate
    <3> QED BY <1>3, <3>1, <3>2
  <2>2. CASE RunOutLease(q, o)
    <3>1. msg' = [msg EXCEPT ![q][o] = [msg[q][o] EXCEPT !.late = TRUE]]
      BY <1>1, <2>2 DEF RunOutLease
    <3> QED BY <1>3, <1>5, <1>6, <3>1
  <2> QED BY <1>14, <2>1, <2>2
<1>15. ASSUME NEW q \in Chained, TurnIntoReconcile(q) PROVE FALSE
  <2> DEFINE s == msg[q]["SUBMIT"]
             r == msg[q]["RECONCILE"]
             f == [o \in Op |->
                    IF o = "SUBMIT" THEN [Released(s) EXCEPT !.status = "PROCESSED"]
                    ELSE IF r.status = "NONE" THEN NewMessage ELSE Revived(r)]
  <2>1. msg' = [msg EXCEPT ![q] = f] BY <1>15 DEF TurnIntoReconcile
  <2>2. \A o \in Op : Kept(msg[q][o], f[o]) BY <1>5, <1>6 DEF Op
  <2> HIDE DEF f
  <2> QED BY <1>4, <1>6, <2>1, <2>2
<1>16. ASSUME SwitchMaintenance \/ AeatNext \/ UNCHANGED vars PROVE FALSE
  BY <1>2, <1>16 DEF SwitchMaintenance, AeatNext, AeatJudges, LoseSubmission, vars, dbVars
<1> QED BY <1>8, <1>13, <1>14, <1>15, <1>16 DEF Next

\* How a worker comes to an answer that it has yet to record.
LEMMA AnswerWriters ==
    ASSUME TypeOK, [Next]_vars, NEW w \in Workers, worker'[w].pc = "answered"
    PROVE  \/ worker'[w] = worker[w]
           \/ /\ FailUnsent(w) \/ ReceiveAnswer(w) \/ Query(w)
              /\ worker'[w].pos = worker[w].pos /\ worker'[w].op = worker[w].op
              /\ UNCHANGED verdict
<1> DEFINE Same == worker'[w] = worker[w]
           Told == /\ FailUnsent(w) \/ ReceiveAnswer(w) \/ Query(w)
                   /\ worker'[w].pos = worker[w].pos /\ worker'[w].op = worker[w].op
                   /\ UNCHANGED verdict
<1>1. worker \in [Workers -> Process] BY Shapes
<1>2. ASSUME UNCHANGED worker PROVE Same BY <1>2
<1>3. ASSUME NEW v \in Workers, NEW x, worker' = [worker EXCEPT ![v] = x], x.pc # "answered"
      PROVE  Same
  BY <1>1, <1>3
<1>4. ASSUME NEW v \in Workers, FailUnsent(v) \/ ReceiveAnswer(v) \/ Query(v)
      PROVE  Same \/ Told
  <2>1. PICK a : Answered(v, a) /\ UNCHANGED verdict BY <1>4, WorkerAnswers DEF aeatVars
  <2>2. v # w => Same BY <1>1, <2>1 DEF Answered
  <2>3. v = w => worker'[w].pos = worker[w].pos /\ worker'[w].op = worker[w].op
    BY <1>1, <2>1 DEF Answered, Process
  <2> QED BY <1>4, <2>1, <2>2, <2>3
<1>5. ASSUME NEW v \in Workers, Claim(v) PROVE Same
  <2>1. PICK q \in Chained, o \in Op : worker' = [worker EXCEPT ![v] =
                         [IdleProcess EXCEPT !.pc = "claimed", !.pos = q, !.op = o]]
    BY <1>5 DEF Claim
  <2>2. [IdleProcess EXCEPT !.pc = "claimed", !.pos = q, !.op = o].pc = "claimed"
    BY DEF IdleProcess
  <2> QED BY <1>3, <2>1, <2>2
<1>6. ASSUME NEW v \in Workers, Recover(v) PROVE Same
  BY <1>1, <1>6 DEF Recover, Process
<1>7. ASSUME NEW v \in Workers, Send(v) PROVE Same
  BY <1>1, <1>7 DEF Send, Process
<1>8. ASSUME NEW v \in Workers, worker' = [worker EXCEPT ![v] = IdleProcess] PROVE Same
  BY <1>3, <1>8, IdleType
<1> HIDE DEF Same, Told
<1>9. ASSUME NEW v \in Workers, WorkerNext(v) \/ Crash(v) PROVE Same \/ Told
  BY <1>4, <1>5, <1>6, <1>7, <1>8, <1>9
  DEF WorkerNext, Crash, NothingToDo, Finalize, LoseLease
<1>10. ClerkNext => UNCHANGED worker
  BY DEF ClerkNext, Issue, Rectify, PrepareCancellation, PrepareCorrection, Prepare,
         ReadHead, CommitCancellation, CommitCorrection, CommitSuccessor, GiveUp,
         VoidTechnically
<1>11. ASSUME NEW q \in Chained, TurnIntoReconcile(q) \/
                 \E op \in Op : Reactivate(q, op) \/ RunOutLease(q, op)
       PROVE  UNCHANGED worker
  BY <1>11 DEF TurnIntoReconcile, Reactivate, RunOutLease
<1>12. SwitchMaintenance \/ AeatNext \/ UNCHANGED vars => UNCHANGED worker
  BY DEF SwitchMaintenance, AeatNext, AeatJudges, LoseSubmission, vars
<1>13. Same \/ Told BY <1>2, <1>9, <1>10, <1>11, <1>12 DEF Next
<1> QED BY <1>13 DEF Same, Told

LEMMA AgreesStep ==
    ASSUME TypeOK, OneLiveMessage, WireInv, TruthInv, [Next]_vars PROVE VerdictAgrees'
<1>1. attempts \in [Pos -> Seq(Outcome)] BY Shapes
<1>2. ASSUME NEW p \in Pos, NEW o \in Terminal, Agrees(o, verdict[p])
      PROVE  Agrees(o, verdict'[p])
  <2>1. verdict[p] # "NONE" BY <1>2 DEF Agrees, Terminal, Accepted
  <2> QED BY <1>2, <2>1, JudgedStays
<1>3. ASSUME NEW p \in Pos, NEW k \in 1..Len(attempts[p]), attempts[p][k] \in Terminal
      PROVE  Agrees(attempts[p][k], verdict'[p])
  BY <1>2, <1>3 DEF TruthInv, VerdictAgrees, Agrees
<1>4. CASE UNCHANGED attempts
  BY <1>3, <1>4 DEF VerdictAgrees, Agrees
<1>5. ASSUME NEW p \in Chained, NEW o \in Outcome,
             attempts' = [attempts EXCEPT ![p] = Append(@, o)],
             o \in Terminal => \E w \in Workers : Finalize(w) /\ worker[w].pos = p
                                                    /\ worker[w].answer.outcome = o
      PROVE  VerdictAgrees'
  <2>1. p \in Pos BY Shapes
  <2>2. o \in Terminal => Agrees(o, verdict'[p])
    <3>1. ASSUME NEW w \in Workers, Finalize(w), worker[w].pos = p,
                 worker[w].answer.outcome = o, o \in Terminal
          PROVE  Agrees(o, verdict'[p])
      <4>1. AnswerTrue(w) BY DEF TruthInv
      <4>2. Agrees(o, verdict[p]) BY <3>1, <4>1 DEF AnswerTrue, Finalize, HoldsLease
      <4> QED BY <1>2, <2>1, <3>1, <4>2
    <3> QED BY <1>5, <3>1
  <2>3. \A q \in Pos \ {p} : attempts'[q] = attempts[q] BY <1>1, <1>5, <2>1
  <2> DEFINE s == attempts[p]
  <2>4. attempts'[p] = Append(s, o) /\ s \in Seq(Outcome) BY <1>1, <1>5, <2>1
  <2>5. \A k \in 1..Len(s) : s[k] \in Terminal => Agrees(s[k], verdict'[p]) BY <1>3, <2>1
  <2> HIDE DEF s
  <2>6. \A k \in 1..Len(attempts'[p]) : attempts'[p][k] \in Terminal =>
            Agrees(attempts'[p][k], verdict'[p])
    <3>1. /\ Len(attempts'[p]) = Len(s) + 1 /\ Len(s) \in Nat
          /\ \A k \in 1..Len(s) : attempts'[p][k] = s[k]
          /\ attempts'[p][Len(s) + 1] = o
      BY <2>4
    <3>2. \A k \in 1..Len(attempts'[p]) : k \in 1..Len(s) \/ k = Len(s) + 1 BY <3>1
    <3> QED BY <2>2, <2>5, <3>1, <3>2
  <2> QED BY <1>3, <2>1, <2>3, <2>6 DEF VerdictAgrees, Agrees
<1> QED BY <1>4, <1>5, AttemptWriters

LEMMA AnswerTrueStep ==
    ASSUME TypeOK, SubmissionInv, OneLiveMessage, ChainInv, WireInv, TruthInv, [Next]_vars,
           NEW w \in Workers
    PROVE  AnswerTrue(w)'
<1> DEFINE p == worker'[w].pos
           op == worker'[w].op
           o == worker'[w].answer.outcome
<1> SUFFICES ASSUME worker'[w].pc = "answered", o \in Terminal,
                    msg'[p][op].status = "CLAIMED", msg'[p][op].lease = {w}
             PROVE  Agrees(o, verdict'[p])
  BY DEF AnswerTrue
<1>1. worker \in [Workers -> Process] BY Shapes
<1>2. worker' \in [Workers -> Process] /\ p \in Chained' /\ p \in Pos /\ op \in Op
  <2>1. TypeOK' BY TypeStep
  <2>2. Chained' \subseteq Pos BY <2>1 DEF TypeOK, Chained, Pos
  <2> QED BY <2>1, <2>2 DEF TypeOK, Process
<1>3. msg[p][op].status = "CLAIMED" /\ msg[p][op].lease = {w}
  BY <1>2, ClaimWriters
<1>4. Agrees(o, verdict[p]) => Agrees(o, verdict'[p])
  BY <1>2, JudgedStays DEF Agrees, Terminal, Accepted
<1>5. CASE worker'[w] = worker[w]
  <2>1. AnswerTrue(w) BY DEF TruthInv
  <2> QED BY <1>3, <1>4, <1>5, <2>1 DEF AnswerTrue
<1>6. CASE p = worker[w].pos /\ op = worker[w].op /\ FailUnsent(w)
  <2>1. PICK a \in UnsentAnswers(worker[w].op) : Answered(w, a) BY <1>6 DEF FailUnsent
  <2>2. worker'[w].answer = a BY <1>1, <2>1 DEF Answered, Process
  <2>3. a.outcome \notin Terminal
    BY <2>1 DEF UnsentAnswers, Dead, Retry, Uncertain, Terminal, Accepted
  <2> QED BY <2>2, <2>3
<1>7. CASE p = worker[w].pos /\ op = worker[w].op /\ ReceiveAnswer(w)
  <2>1. PICK a \in {Verdict(verdict[p]), Uncertain, Dead("other")} : Answered(w, a)
    BY <1>7 DEF ReceiveAnswer
  <2>2. worker'[w].answer = a BY <1>1, <2>1 DEF Answered, Process
  <2>3. a = Verdict(verdict[p])
    BY <2>1, <2>2 DEF Dead, Uncertain, Terminal, Accepted
  <2>4. o = verdict[p] BY <2>2, <2>3 DEF Verdict
  <2> HIDE DEF p, o
  <2> QED BY <1>4, <2>4 DEF Agrees
<1>8. CASE p = worker[w].pos /\ op = worker[w].op /\ Query(w)
  <2> DEFINE a == ReconcileAnswer(chain[p].type, AeatStatus(chain[p].invoice))
  <2>1. Answered(w, a) BY <1>8 DEF Query
  <2> HIDE DEF a
  <2>2. worker'[w].answer = a BY <1>1, <2>1 DEF Answered, Process
  <2>3. p \in Chained BY <1>8 DEF TypeOK, Query
  <2>4. ~ Decided(p) BY <1>2, <1>3, <2>3 DEF OneLiveMessage, OneLive, Live
  <2>5. Agrees(a.outcome, verdict[p]) BY <2>2, <2>3, <2>4, QueryTruthful DEF TruthInv, a
  <2> QED BY <1>4, <2>2, <2>5
<1> QED BY <1>5, <1>6, <1>7, <1>8, AnswerWriters

LEMMA RegisterStep == RegisterInv /\ [Next]_vars => RegisterInv'
<1> SUFFICES ASSUME RegisterInv, [Next]_vars PROVE RegisterInv' OBVIOUS
<1> USE DEF RegisterInv
<1>1. TypeOK' BY TypeStep
<1>2. SubmissionInv' BY SubmissionStep
<1>3. OneLiveMessage' BY OneLiveStep DEF SubmissionInv
<1>4. ChainInv' BY ChainInvStep
<1>5. WireInv' BY WireStep
<1>6. TruthInv' BY AgreesStep, AnswerTrueStep DEF TruthInv
<1> QED BY <1>1, <1>2, <1>3, <1>4, <1>5, <1>6

LEMMA RegisterInit == Init => RegisterInv
<1> SUFFICES ASSUME Init PROVE RegisterInv OBVIOUS
<1>1. \A w \in Workers : AnswerTrue(w) BY IdleType DEF Init, AnswerTrue
<1>2. VerdictAgrees BY DEF Init, VerdictAgrees
<1> QED BY <1>1, <1>2, InitType, SubmissionInit, ChainInvInit, WireInit DEF RegisterInv, TruthInv

LEMMA RegisterInvariant == Spec => []RegisterInv
BY RegisterInit, RegisterStep, PTL DEF Spec

\* The final answer recorded for a record is what AEAT decided about that very
\* record, also when it was learnt by a query that shows only the invoice.
THEOREM AnswersAreTrue == Spec => []VerdictAgrees
<1>1. RegisterInv => VerdictAgrees BY DEF RegisterInv, TruthInv
<1> QED BY <1>1, RegisterInvariant, PTL

\* AEAT judges no record before it has judged every earlier one of the chain.
THEOREM JudgedInOrder == Spec => []AeatSeesChainInOrder
<1>1. RegisterInv => AeatSeesChainInOrder
  <2> SUFFICES ASSUME RegisterInv, NEW p \in Pos, verdict[p] # "NONE", NEW q \in 1..(p - 1)
               PROVE  verdict[q] # "NONE"
    BY DEF AeatSeesChainInOrder
  <2>1. q \in Pos BY DEF Pos
  <2>2. Decided(q) BY DEF RegisterInv, WireInv, EarlierDecided
  <2>3. PICK k \in 1..Len(attempts[q]) : attempts[q][k] \in Terminal
    BY <2>2 DEF Decided, HasAttempt
  <2>4. Agrees(attempts[q][k], verdict[q])
    BY <2>1, <2>3 DEF RegisterInv, TruthInv, VerdictAgrees, Agrees
  <2> QED BY <2>3, <2>4 DEF Agrees, Terminal, Accepted
<1> QED BY <1>1, RegisterInvariant, PTL
-----------------------------------------------------------------------------
(* The fiscal status of an invoice.                                         *)

OthersKept(i) == \A j \in Invoices \ {i} : invoice'[j].fiscal = invoice[j].fiscal

\* Every step that writes a fiscal status, and the attempts it writes with it.
LEMMA FiscalWriters ==
    ASSUME TypeOK, OneLiveMessage, ChainInv, [Next]_vars
    PROVE  \/ /\ UNCHANGED <<chain, attempts>>
              /\ \A j \in Invoices : invoice'[j].fiscal = invoice[j].fiscal
           \/ \E type, t, over : \E i \in Invoices :
                /\ Extend(type, i, t, over) /\ UNCHANGED attempts
                /\ invoice'[i].fiscal = "PENDING" /\ OthersKept(i)
           \/ \E p \in Chained :
                /\ UNCHANGED chain /\ ~ Decided(p)
                /\ invoice'[chain[p].invoice].fiscal = "SENT" /\ OthersKept(chain[p].invoice)
                /\ UNCHANGED attempts \/ attempts' = [attempts EXCEPT ![p] = Append(@, "UNKNOWN")]
           \/ \E w \in Workers : Finalize(w)
<1> DEFINE Quiet == /\ UNCHANGED <<chain, attempts>>
                    /\ \A j \in Invoices : invoice'[j].fiscal = invoice[j].fiscal
           Entered == \E type, t, over : \E i \in Invoices :
                /\ Extend(type, i, t, over) /\ UNCHANGED attempts
                /\ invoice'[i].fiscal = "PENDING" /\ OthersKept(i)
           Asked == \E p \in Chained :
                /\ UNCHANGED chain /\ ~ Decided(p)
                /\ invoice'[chain[p].invoice].fiscal = "SENT" /\ OthersKept(chain[p].invoice)
                /\ UNCHANGED attempts \/ attempts' = [attempts EXCEPT ![p] = Append(@, "UNKNOWN")]
           Goal == Quiet \/ Entered \/ Asked \/ \E w \in Workers : Finalize(w)
<1> SUFFICES Goal OBVIOUS
<1>1. /\ invoice \in [Invoices -> Invoice]
      /\ \A p \in Chained : chain[p].invoice \in Invoices
  BY Shapes DEF Record
<1>2. ASSUME NEW i \in Invoices, NEW f, invoice' = [invoice EXCEPT ![i].fiscal = f]
      PROVE  invoice'[i].fiscal = f /\ OthersKept(i)
  BY <1>1, <1>2 DEF OthersKept, Invoice
<1>3. UNCHANGED <<chain, attempts, invoice>> => Goal OBVIOUS
<1>4. ASSUME NEW i \in Invoices, VoidTechnically(i) PROVE Goal
  <2>1. \A j \in Invoices : invoice'[j].fiscal = invoice[j].fiscal
    BY <1>1, <1>4 DEF VoidTechnically, Invoice
  <2> QED BY <1>4, <2>1 DEF VoidTechnically
<1>5. ASSUME NEW i \in Invoices, Issue(i) PROVE Goal
  <2>1. invoice' = [invoice EXCEPT ![i].status = "ISSUED", ![i].fiscal = "PENDING"]
    BY <1>5 DEF Issue
  <2>2. invoice'[i].fiscal = "PENDING" /\ OthersKept(i) BY <1>1, <2>1 DEF OthersKept, Invoice
  <2>3. Extend("ALTA", i, 0, Tip) /\ UNCHANGED attempts BY <1>5 DEF Issue
  <2>4. Entered BY <2>2, <2>3
  <2> QED BY <2>4
<1>6. ASSUME NEW o \in Invoices, NEW i \in Invoices, Rectify(o, i) PROVE Goal
  <2>1. o # i BY <1>6 DEF Rectify
  <2>2. invoice' = [invoice EXCEPT
         ![i] = [status |-> "ISSUED", fiscal |-> "PENDING", rectifies |-> {o}],
         ![o].status = "RECTIFIED"]
    BY <1>6 DEF Rectify
  <2>3. invoice'[i].fiscal = "PENDING" /\ OthersKept(i)
    BY <1>1, <2>1, <2>2 DEF OthersKept, Invoice
  <2>4. Extend("ALTA", i, 0, Tip) /\ UNCHANGED attempts BY <1>6 DEF Rectify
  <2>5. Entered BY <2>3, <2>4
  <2> QED BY <2>5
<1>7. ASSUME NEW c \in Clerks, CommitCancellation(c) \/ CommitCorrection(c) PROVE Goal
  <2>1. CommitSuccessor(c) /\ clerk[c].target \in Chained
    BY <1>7 DEF TypeOK, CommitCancellation, CommitCorrection, NoRequest
  <2> PICK i : i = chain[clerk[c].target].invoice OBVIOUS
  <2>2. /\ Extend(clerk[c].kind, i, clerk[c].target, clerk[c].over) /\ UNCHANGED attempts
        /\ invoice' = [invoice EXCEPT ![i].fiscal = "PENDING"] /\ i \in Invoices
    BY <1>1, <2>1 DEF CommitSuccessor
  <2>3. Entered BY <1>2, <2>2
  <2> QED BY <2>3
<1>8. ASSUME NEW p \in Chained, ~ Decided(p), UNCHANGED chain,
             invoice' = [invoice EXCEPT ![chain[p].invoice].fiscal = "SENT"],
             UNCHANGED attempts \/ attempts' = [attempts EXCEPT ![p] = Append(@, "UNKNOWN")]
      PROVE  Goal
  <2>1. Asked BY <1>1, <1>2, <1>8
  <2> QED BY <2>1
<1>9. ASSUME NEW p \in Chained, RecoverSubmit(p), UNCHANGED chain PROVE Goal
  <2>1. Live(p, "SUBMIT") BY <1>9 DEF RecoverSubmit, Expired, Live
  <2>2. ~ Decided(p) BY <2>1 DEF OneLiveMessage, OneLive, Op
  <2> QED BY <1>8, <1>9, <2>2 DEF RecoverSubmit
<1>10. ASSUME NEW p \in Chained, TurnIntoReconcile(p) PROVE Goal
  BY <1>8, <1>10 DEF TurnIntoReconcile
<1>11. ASSUME NEW w \in Workers, Finalize(w) PROVE Goal BY <1>11
<1> HIDE DEF Goal
<1>12. CASE ClerkNext
  BY <1>3, <1>4, <1>5, <1>6, <1>7, <1>12
  DEF ClerkNext, PrepareCancellation, PrepareCorrection, Prepare, ReadHead, GiveUp, dbVars
<1>13. ASSUME NEW w \in Workers, WorkerNext(w) \/ Crash(w) PROVE Goal
  BY <1>3, <1>9, <1>11, <1>13 DEF WorkerNext, Crash, Recover, RecoverReconcile, Claim,
     NothingToDo, FailUnsent, Send, ReceiveAnswer, Query, LoseLease, dbVars
<1>14. ASSUME NEW p \in Chained, NEW op \in Op, Reactivate(p, op) \/ RunOutLease(p, op)
       PROVE  Goal
  BY <1>3, <1>14 DEF Reactivate, RunOutLease
<1>15. CASE SwitchMaintenance \/ AeatNext \/ UNCHANGED vars
  BY <1>3, <1>15 DEF SwitchMaintenance, AeatNext, AeatJudges, LoseSubmission, vars, dbVars
<1> QED BY <1>10, <1>12, <1>13, <1>14, <1>15 DEF Next

\* What the fiscal status of the invoice of p says of p.
Shows(p) ==
    LET f == invoice[chain[p].invoice].fiscal IN
    /\ ~ Decided(p) => f \in {"PENDING", "SENT"}
    /\ Decided(p) /\ chain[p].type = "ALTA" => f = LastOutcome(p)
    /\ Decided(p) /\ chain[p].type = "ANULACION" =>
          f = IF LastOutcome(p) = "REJECTED" THEN LastOutcome(chain[p].target) ELSE "CANCELLED"

\* A cancellation cancels an accepted declaration of its invoice.
LEMMA CancelledTarget ==
    ASSUME TypeOK, ChainInv, NEW p \in Chained, chain[p].type = "ANULACION", NEW t,
           t = chain[p].target
    PROVE  /\ t \in Chained /\ t \in Pos /\ t # p /\ chain[t].invoice = chain[p].invoice
           /\ Decided(t) /\ LastOutcome(t) \in Accepted
<1>1. SucceedsLegally(p) BY DEF ChainInv, SucceededOnce, Original
<1>2. t \in 1..(p - 1) /\ chain[t].invoice = chain[p].invoice /\ HasAttempt(t, Accepted)
  BY <1>1 DEF SucceedsLegally
<1>3. p \in 1..Len(chain) /\ Len(chain) \in Nat BY Shapes DEF Chained
<1>4. t \in Chained /\ t # p /\ t \in Pos BY <1>2, <1>3, Shapes DEF Chained
<1>5. Decided(t) BY <1>2 DEF Decided, HasAttempt, Terminal
<1> QED BY <1>2, <1>4, <1>5, FinalAnswer DEF ChainInv, Terminal

LEMMA RestoredStatus ==
    ASSUME TypeOK, AnsweredOnce, NEW t \in Pos, Decided(t), LastOutcome(t) \in Accepted
    PROVE  LatestAcceptance(t, "ACCEPTED_WITH_ERRORS") <=> LastOutcome(t) = "ACCEPTED_WITH_ERRORS"
<1>1. attempts[t] \in Seq(Outcome) /\ attempts[t] # <<>> BY Shapes, FinalAnswer
<1> DEFINE s == attempts[t]
           m == Len(s)
<1>2. m \in 1..m /\ m \in Nat BY <1>1
<1>3. LastOutcome(t) = s[m] BY DEF LastOutcome
<1>4. \A k \in 1..m : s[k] \in Terminal => k = m BY DEF AnsweredOnce
<1> HIDE DEF s, m
<1>5. (m + 1)..m = {} BY <1>2
<1>6. LatestAcceptance(t, "ACCEPTED_WITH_ERRORS") =>
        \E k \in 1..m : s[k] = "ACCEPTED_WITH_ERRORS"
  BY DEF LatestAcceptance, s, m
<1>7. s[m] = "ACCEPTED_WITH_ERRORS" => LatestAcceptance(t, "ACCEPTED_WITH_ERRORS")
  BY <1>2, <1>5 DEF LatestAcceptance, s, m
<1> QED BY <1>3, <1>4, <1>6, <1>7 DEF Terminal, Accepted

\* The last record of an invoice is a new one or was the last one before.
LEMMA LastOfInvoice ==
    ASSUME TypeOK, [Next]_vars, NEW p \in Chained', LatestOf(chain[p].invoice, p)'
    PROVE  \/ /\ p \in Chained /\ chain'[p] = chain[p] /\ LatestOf(chain[p].invoice, p)
              /\ \A q \in Chained' \ Chained : chain'[q].invoice # chain[p].invoice
           \/ chain' # chain /\ p = Len(chain) + 1
<1>1. \A q \in Chained : chain'[q] = chain[q] BY ChainGrows
<1>2. CASE UNCHANGED chain BY <1>2 DEF LatestOf, Chained
<1>3. ASSUME NEW type, NEW i, NEW t, NEW over, Extend(type, i, t, over), chain' # chain
      PROVE  \/ /\ p \in Chained /\ chain'[p] = chain[p] /\ LatestOf(chain[p].invoice, p)
                /\ \A q \in Chained' \ Chained : chain'[q].invoice # chain[p].invoice
             \/ chain' # chain /\ p = Len(chain) + 1
  <2> PICK n : n = Len(chain) + 1 OBVIOUS
  <2>1. /\ Chained' = Chained \cup {n} /\ n \notin Chained
        /\ \A q \in Chained : q < n
    BY <1>3, Appended
  <2> QED BY <1>1, <1>3, <2>1 DEF LatestOf
<1> QED BY <1>2, <1>3, ChainWriters

\* Among the records of an invoice, only the last one may be undecided.
LEMMA UndecidedIsLast ==
    ASSUME TypeOK, ChainInv, NEW p \in Chained, NEW q \in Chained,
           LatestOf(chain[p].invoice, p), chain[q].invoice = chain[p].invoice, ~ Decided(q)
    PROVE  q = p
<1>1. p \in Nat /\ q \in Nat BY Shapes
<1>2. ~ (q > p) BY DEF LatestOf
<1>3. ~ (q < p) BY EarlierOfInvoice
<1> QED BY <1>1, <1>2, <1>3

LEMMA FollowStep ==
    ASSUME RegisterInv, FiscalStatusFollowsChain, [Next]_vars PROVE FiscalStatusFollowsChain'
<1> USE DEF RegisterInv
<1>1. /\ invoice \in [Invoices -> Invoice] /\ attempts \in [Pos -> Seq(Outcome)]
      /\ \A p \in Chained : chain[p].invoice \in Invoices /\ p \in Pos
      /\ \A p \in Chained : chain'[p] = chain[p] /\ p \in Chained'
  BY Shapes, ChainGrows DEF Record
<1> SUFFICES ASSUME NEW p \in Chained', LatestOf(chain[p].invoice, p)' PROVE Shows(p)'
  BY DEF FiscalStatusFollowsChain, Shows
<1>2. ASSUME ~ Decided(p)', invoice'[chain'[p].invoice].fiscal \in {"PENDING", "SENT"}
      PROVE  Shows(p)'
  BY <1>2 DEF Shows
<1>3. ASSUME p \in Chained, LatestOf(chain[p].invoice, p),
             invoice'[chain[p].invoice].fiscal = invoice[chain[p].invoice].fiscal,
             \A q \in Chained : chain[q].invoice = chain[p].invoice => attempts'[q] = attempts[q]
      PROVE  Shows(p)'
  <2>1. Shows(p) BY <1>3 DEF FiscalStatusFollowsChain, Shows
  <2>2. attempts'[p] = attempts[p] /\ chain'[p] = chain[p] BY <1>1, <1>3
  <2>3. chain[p].type = "ANULACION" => attempts'[chain[p].target] = attempts[chain[p].target]
    BY <1>3, CancelledTarget
  <2> QED BY <1>3, <2>1, <2>2, <2>3 DEF Shows, Decided, HasAttempt, LastOutcome
<1>4. CASE /\ UNCHANGED <<chain, attempts>>
           /\ \A j \in Invoices : invoice'[j].fiscal = invoice[j].fiscal
  BY <1>1, <1>3, <1>4, LastOfInvoice
<1>5. ASSUME NEW type, NEW t, NEW over, NEW i \in Invoices, Extend(type, i, t, over),
             UNCHANGED attempts, invoice'[i].fiscal = "PENDING", OthersKept(i)
      PROVE  Shows(p)'
  <2> PICK n : n = Len(chain) + 1 OBVIOUS
  <2>1. /\ Chained' = Chained \cup {n} /\ n \notin Chained /\ n \in Pos
        /\ chain'[n] = [type |-> type, invoice |-> i, target |-> t, over |-> over]
    BY <1>5, Appended
  <2>2. CASE p = n
    <3>1. attempts[n] = <<>> BY <2>1 DEF SubmissionInv, BlankBeyond, Blank
    <3>2. ~ Decided(n)' BY <1>5, <3>1 DEF Decided, HasAttempt
    <3> QED BY <1>2, <1>5, <2>1, <2>2, <3>2
  <2>3. CASE p # n
    <3>1. p \in Chained /\ LatestOf(chain[p].invoice, p) /\ chain[p].invoice # i
      BY <2>1, <2>3, LastOfInvoice
    <3> QED BY <1>1, <1>3, <1>5, <3>1 DEF OthersKept
  <2> QED BY <2>2, <2>3
<1>6. ASSUME NEW q \in Chained, UNCHANGED chain, ~ Decided(q),
             invoice'[chain[q].invoice].fiscal = "SENT", OthersKept(chain[q].invoice),
             UNCHANGED attempts \/ attempts' = [attempts EXCEPT ![q] = Append(@, "UNKNOWN")]
      PROVE  Shows(p)'
  <2>1. p \in Chained /\ LatestOf(chain[p].invoice, p) BY <1>6, LastOfInvoice DEF Chained
  <2>2. CASE chain[q].invoice = chain[p].invoice
    <3>1. q = p BY <1>6, <2>1, <2>2, UndecidedIsLast
    <3>2. ~ Decided(p)'
      <4>1. CASE UNCHANGED attempts BY <1>6, <3>1, <4>1 DEF Decided, HasAttempt
      <4>2. CASE attempts' = [attempts EXCEPT ![q] = Append(@, "UNKNOWN")]
        <5>1. "UNKNOWN" \in Outcome /\ "UNKNOWN" \notin Terminal BY DEF Outcome, Terminal, Accepted
        <5> QED BY <1>1, <1>6, <3>1, <4>2, <5>1, DecidedByAppend
      <4> QED BY <1>6, <4>1, <4>2
    <3> QED BY <1>2, <1>6, <3>1, <3>2
  <2>3. CASE chain[q].invoice # chain[p].invoice
    <3>1. \A r \in Chained : chain[r].invoice = chain[p].invoice => attempts'[r] = attempts[r]
      BY <1>1, <1>6, <2>3
    <3> QED BY <1>1, <1>3, <1>6, <2>1, <2>3, <3>1 DEF OthersKept
  <2> QED BY <2>2, <2>3
<1>7. ASSUME NEW w \in Workers, Finalize(w) PROVE Shows(p)'
  <2> PICK q : q = worker[w].pos OBVIOUS
  <2> PICK a : a = worker[w].answer OBVIOUS
  <2>1. /\ q \in Chained /\ a \in Answer /\ UNCHANGED chain
        /\ attempts' = [attempts EXCEPT ![q] = Append(@, a.outcome)]
        /\ invoice' = [invoice EXCEPT ![chain[q].invoice].fiscal = FiscalAfter(q, a)]
    BY Shapes, <1>7 DEF Finalize, TypeOK, Process
  <2>2. ~ Decided(q)
    <3>1. worker[w].op \in Op BY Shapes DEF Process
    <3>2. Live(q, worker[w].op) BY <1>7 DEF Finalize, HoldsLease, Live
    <3> QED BY <2>1, <3>1, <3>2 DEF OneLiveMessage, OneLive
  <2>3. p \in Chained /\ LatestOf(chain[p].invoice, p) BY <2>1, LastOfInvoice DEF Chained
  <2>4. /\ invoice'[chain[q].invoice].fiscal = FiscalAfter(q, a)
        /\ OthersKept(chain[q].invoice)
    BY <1>1, <2>1 DEF OthersKept, Invoice
  <2>5. \A r \in Pos \ {q} : attempts'[r] = attempts[r] BY <1>1, <2>1
  <2>6. CASE chain[q].invoice # chain[p].invoice
    <3>1. \A r \in Chained : chain[r].invoice = chain[p].invoice => attempts'[r] = attempts[r]
      BY <1>1, <2>5, <2>6
    <3> QED BY <1>1, <1>3, <2>3, <2>4, <2>6, <3>1 DEF OthersKept
  <2>7. CASE chain[q].invoice = chain[p].invoice
    <3>1. q = p BY <2>1, <2>2, <2>3, <2>7, UndecidedIsLast
    <3>2. p \in Pos /\ chain'[p] = chain[p] /\ a.outcome \in Outcome
      BY <1>1, <2>1, <2>3 DEF Answer
    <3>3. Decided(p)' <=> a.outcome \in Terminal
      BY <1>1, <2>1, <2>2, <3>1, <3>2, DecidedByAppend
    <3>4. LastOutcome(p)' = a.outcome
      <4> DEFINE s == attempts[p]
      <4>1. s \in Seq(Outcome) /\ attempts'[p] = Append(s, a.outcome) BY <1>1, <2>1, <3>1, <3>2
      <4> HIDE DEF s
      <4>2. attempts'[p][Len(attempts'[p])] = a.outcome BY <4>1
      <4> QED BY <4>2 DEF LastOutcome
    <3>5. CASE a.outcome \notin Terminal
      <4>1. FiscalAfter(q, a) \in {"PENDING", "SENT"}
        BY <3>5 DEF FiscalAfter, Terminal
      <4> QED BY <1>2, <2>4, <3>1, <3>2, <3>3, <3>5, <4>1
    <3>6. CASE a.outcome \in Terminal /\ chain[p].type = "ALTA"
      <4>1. FiscalAfter(q, a) = a.outcome
        BY <3>1, <3>6 DEF FiscalAfter, Terminal
      <4> QED BY <2>4, <3>1, <3>2, <3>3, <3>4, <3>6, <4>1 DEF Shows
    <3>7. CASE a.outcome \in Terminal /\ chain[p].type = "ANULACION"
      <4> PICK t : t = chain[p].target OBVIOUS
      <4>1. /\ t \in Pos /\ t # p /\ Decided(t) /\ LastOutcome(t) \in Accepted
        BY <2>3, <3>7, CancelledTarget
      <4>2. LastOutcome(t)' = LastOutcome(t) BY <2>5, <3>1, <4>1 DEF LastOutcome
      <4>3. a.outcome \in Accepted => FiscalAfter(q, a) = "CANCELLED" /\ a.outcome # "REJECTED"
        BY <3>1, <3>7 DEF FiscalAfter, Accepted
      <4>4. a.outcome = "REJECTED" => FiscalAfter(q, a) = LastOutcome(t)
        <5>1. LatestAcceptance(t, "ACCEPTED_WITH_ERRORS") <=>
                LastOutcome(t) = "ACCEPTED_WITH_ERRORS"
          BY <4>1, RestoredStatus DEF ChainInv
        <5> QED BY <3>1, <3>7, <4>1, <5>1 DEF FiscalAfter, Accepted
      <4>5. a.outcome \in Accepted \/ a.outcome = "REJECTED" BY <3>7 DEF Terminal
      <4>6. invoice'[chain'[p].invoice].fiscal =
              IF LastOutcome(p)' = "REJECTED" THEN LastOutcome(t)' ELSE "CANCELLED"
        BY <2>4, <3>1, <3>2, <3>4, <4>2, <4>3, <4>4, <4>5
      <4>7. chain'[p].target = t /\ chain'[p].type = "ANULACION" /\ Decided(p)'
        BY <3>2, <3>3, <3>7
      <4> QED BY <4>6, <4>7 DEF Shows, LastOutcome
    <3> QED BY <2>3, <3>5, <3>6, <3>7, Shapes DEF Record
  <2> QED BY <2>6, <2>7
<1> QED BY <1>4, <1>5, <1>6, <1>7, FiscalWriters

\* The fiscal status shown on an invoice is what its last record came to, and
\* "pending" or "sent" for as long as that record has no final answer.
THEOREM StatusFollows == Spec => []FiscalStatusFollowsChain
<1>1. Init => FiscalStatusFollowsChain BY DEF Init, FiscalStatusFollowsChain, Chained
<1>2. RegisterInv /\ FiscalStatusFollowsChain /\ [Next]_vars => FiscalStatusFollowsChain'
  BY FollowStep
<1> QED BY <1>1, <1>2, RegisterInvariant, PTL DEF Spec
-----------------------------------------------------------------------------
(* An invoice ends in one way.                                              *)

LEMMA RectifiesWriters ==
    ASSUME TypeOK, [Next]_vars, NEW j \in Invoices
    PROVE  \/ invoice'[j].rectifies = invoice[j].rectifies
           \/ \E o \in Invoices : Rectify(o, j) /\ invoice'[j].rectifies = {o}
<1> DEFINE Same == invoice'[j].rectifies = invoice[j].rectifies
<1>1. /\ invoice \in [Invoices -> Invoice]
      /\ \A p \in Chained : chain[p].invoice \in Invoices
  BY Shapes DEF Record
<1>2. ASSUME NEW i \in Invoices, NEW f, invoice' = [invoice EXCEPT ![i].fiscal = f] PROVE Same
  <2>1. invoice'[j] = invoice[j] \/ invoice'[j] = [invoice[j] EXCEPT !.fiscal = f] BY <1>1, <1>2
  <2> QED BY <1>1, <2>1 DEF Invoice
<1>3. ASSUME NEW i \in Invoices, VoidTechnically(i) PROVE Same
  BY <1>1, <1>3 DEF VoidTechnically, Invoice
<1>4. ASSUME NEW i \in Invoices, Issue(i) PROVE Same
  <2>1. invoice' = [invoice EXCEPT ![i].status = "ISSUED", ![i].fiscal = "PENDING"]
    BY <1>4 DEF Issue
  <2> QED BY <1>1, <2>1 DEF Invoice
<1>5. ASSUME NEW o \in Invoices, NEW i \in Invoices, Rectify(o, i)
      PROVE  Same \/ (j = i /\ invoice'[j].rectifies = {o})
  <2>1. o # i BY <1>5 DEF Rectify
  <2>2. invoice' = [invoice EXCEPT
         ![i] = [status |-> "ISSUED", fiscal |-> "PENDING", rectifies |-> {o}],
         ![o].status = "RECTIFIED"]
    BY <1>5 DEF Rectify
  <2> QED BY <1>1, <2>1, <2>2 DEF Invoice
<1>6. ASSUME NEW c \in Clerks, CommitCancellation(c) \/ CommitCorrection(c) PROVE Same
  <2>1. clerk[c].target \in Chained
    BY <1>6 DEF TypeOK, CommitCancellation, CommitCorrection, NoRequest
  <2> QED BY <1>1, <1>2, <1>6, <2>1 DEF CommitCancellation, CommitCorrection, CommitSuccessor
<1>7. ASSUME NEW w \in Workers, WorkerNext(w) \/ Crash(w) PROVE Same
  <2>1. CASE Finalize(w)
    <3>1. worker[w].pos \in Chained BY <2>1 DEF TypeOK, Finalize
    <3> QED BY <1>1, <1>2, <2>1, <3>1 DEF Finalize
  <2>2. CASE Recover(w)
    BY <1>1, <1>2, <2>2 DEF Recover, RecoverSubmit, RecoverReconcile
  <2> QED BY <1>7, <2>1, <2>2 DEF WorkerNext, Crash, Claim, NothingToDo, FailUnsent, Send,
             ReceiveAnswer, Query, LoseLease, dbVars
<1>8. ASSUME NEW p \in Chained, TurnIntoReconcile(p) \/
                 \E op \in Op : Reactivate(p, op) \/ RunOutLease(p, op)
      PROVE  Same
  BY <1>1, <1>2, <1>8 DEF TurnIntoReconcile, Reactivate, RunOutLease
<1>9. CASE SwitchMaintenance \/ AeatNext \/ UNCHANGED vars
  BY <1>9 DEF SwitchMaintenance, AeatNext, AeatJudges, LoseSubmission, vars, dbVars
<1>10. CASE ClerkNext
  BY <1>3, <1>4, <1>5, <1>6, <1>10 DEF ClerkNext, PrepareCancellation, PrepareCorrection,
       Prepare, ReadHead, GiveUp, dbVars
<1> QED BY <1>7, <1>8, <1>9, <1>10 DEF Next

\* An accepted attempt is an acceptance by AEAT.
LEMMA AcceptedAtAeat ==
    ASSUME TypeOK, VerdictAgrees, NEW p \in Pos, LatestIn(p, Accepted)
    PROVE  verdict[p] \in Accepted
<1>1. attempts[p] \in Seq(Outcome) BY Shapes
<1>2. Len(attempts[p]) \in 1..Len(attempts[p]) BY <1>1 DEF LatestIn
<1> QED BY <1>2 DEF LatestIn, VerdictAgrees, Terminal, Accepted

\* A draft rectifies nothing: documents never go back to being drafts.
DraftsRectifyNothing == \A j \in Invoices : invoice[j].status = "DRAFT" => invoice[j].rectifies = {}

LEMMA DraftsStep ==
    ASSUME TypeOK, DraftsRectifyNothing, [Next]_vars PROVE DraftsRectifyNothing'
<1> SUFFICES ASSUME NEW j \in Invoices, invoice'[j].status = "DRAFT"
             PROVE  invoice'[j].rectifies = {}
  BY DEF DraftsRectifyNothing
<1>1. invoice[j].status = "DRAFT" BY StatusWriters
<1>2. ASSUME NEW o \in Invoices, Rectify(o, j) PROVE FALSE
  <2>1. o # j BY <1>2 DEF Rectify
  <2>2. invoice' = [invoice EXCEPT
         ![j] = [status |-> "ISSUED", fiscal |-> "PENDING", rectifies |-> {o}],
         ![o].status = "RECTIFIED"]
    BY <1>2 DEF Rectify
  <2>3. invoice \in [Invoices -> Invoice] BY Shapes
  <2> QED BY <2>1, <2>2, <2>3
<1> QED BY <1>1, <1>2, RectifiesWriters DEF DraftsRectifyNothing

\* The records of an invoice that is rectified end in a declaration, not in a
\* cancellation.
LEMMA NotCancelledBefore ==
    ASSUME RegisterInv, NEW o \in Invoices, NEW i \in Invoices, Rectify(o, i),
           NEW p \in Chained, chain[p].type = "ANULACION"
    PROVE  chain[p].invoice # o
<1> USE DEF RegisterInv
<1> SUFFICES ASSUME chain[p].invoice = o PROVE FALSE OBVIOUS
<1>1. PICK q \in Chained : LatestOf(o, q) /\ chain[q].type = "ALTA" BY DEF Rectify
<1>2. p \in Nat /\ q \in Nat BY Shapes
<1>3. ~ (p > q) /\ p # q BY <1>1 DEF LatestOf
<1>4. p < q BY <1>2, <1>3
<1>5. chain[p].type = "ALTA" BY <1>1, <1>4, EarlierOfInvoice DEF LatestOf
<1> QED BY <1>5

\* Only an issue and a rectification declare an invoice, both of a draft.
LEMMA NoneAfterCancellation ==
    ASSUME RegisterInv, DraftsRectifyNothing, InvoiceEndsOnce, [Next]_vars,
           NEW p \in Chained', NEW q \in Chained', NEW j \in Invoices,
           chain'[p].type = "ANULACION", p < q, Declares(q, j)'
    PROVE  chain'[p].invoice \notin invoice'[j].rectifies
<1> USE DEF RegisterInv
<1>1. \A r \in Chained : chain'[r] = chain[r] /\ r \in Nat /\ r # 0
  BY Shapes, ChainGrows DEF Chained
<1> PICK n : n = Len(chain) + 1 OBVIOUS
<1>2. CASE q \in Chained
  <2>1. p \in Chained
    <3>1. p \in Nat /\ p >= 1 BY DEF Chained
    <3>2. q \in Nat /\ q <= Len(chain) /\ Len(chain) \in Nat BY <1>2, Shapes DEF Chained
    <3> QED BY <3>1, <3>2 DEF Chained
  <2>2. Declares(q, j) BY <1>1, <1>2 DEF Declares
  <2>3. chain[p].invoice \notin invoice[j].rectifies
    BY <1>1, <1>2, <2>1, <2>2 DEF InvoiceEndsOnce
  <2>4. invoice[j].status # "DRAFT"
    BY <1>2, <2>2 DEF ChainInv, DeclaredOnce, Declares
  <2>5. \A o \in Invoices : ~ Rectify(o, j) BY <2>4 DEF Rectify
  <2> QED BY <1>1, <2>1, <2>3, <2>5, RectifiesWriters
<1>3. CASE q \notin Chained
  <2>1. ASSUME NEW t \in Chained, NEW type \in {"ALTA", "ANULACION"},
               Extend(type, chain[t].invoice, t, Tip)
        PROVE  FALSE
    <3>1. /\ Chained' = Chained \cup {n}
          /\ chain'[n] = [type |-> type, invoice |-> chain[t].invoice, target |-> t, over |-> Tip]
      BY <2>1, Appended
    <3> QED BY <1>1, <1>3, <3>1 DEF Declares
  <2>2. ASSUME NEW i \in Invoices, Extend("ALTA", i, 0, Tip), invoice[i].status = "DRAFT"
        PROVE  i = j /\ p \in Chained
    <3>1. /\ Chained' = Chained \cup {n}
          /\ chain'[n] = [type |-> "ALTA", invoice |-> i, target |-> 0, over |-> Tip]
      BY <2>2, Appended
    <3> QED BY <1>3, <3>1 DEF Declares
  <2>3. chain' # chain BY <1>3 DEF Chained
  <2>4. p \in Chained /\ invoice[j].status = "DRAFT" BY <2>1, <2>2, <2>3, NewRecord
  <2>5. invoice[j].rectifies = {} BY <2>4 DEF DraftsRectifyNothing
  <2>6. \A o \in Invoices : Rectify(o, j) => chain[p].invoice # o
    BY <1>1, <2>4, NotCancelledBefore
  <2> QED BY <1>1, <2>4, <2>5, <2>6, RectifiesWriters
<1> QED BY <1>2, <1>3

LEMMA VoidedStep ==
    ASSUME RegisterInv, InvoiceEndsOnce, [Next]_vars, NEW i \in Invoices,
           invoice'[i].status = "VOIDED"
    PROVE  (AeatStatus(i) = "Anulado" /\ ~ Rectified(i))'
<1> USE DEF RegisterInv
<1> DEFINE Annulled == \E q \in Chained : chain[q].invoice = i /\ chain[q].type = "ANULACION"
                                            /\ verdict[q] \in Accepted
<1>1. Chained \subseteq Pos BY Shapes
<1>2. Annulled /\ (\A j \in Invoices : ~ Rectify(i, j)) /\ ~ Rectified(i)
  <2>1. CASE invoice[i].status = "VOIDED"
    <3>1. AeatStatus(i) = "Anulado" /\ ~ Rectified(i) BY <2>1 DEF InvoiceEndsOnce
    <3> QED BY <2>1, <3>1, StatusSays DEF Rectify
  <2>2. CASE invoice[i].status # "VOIDED"
    <3>1. VoidTechnically(i) BY <2>2, StatusWriters
    <3>2. PICK q \in Chained : LatestOf(i, q) /\ chain[q].type = "ANULACION" /\ LatestIn(q, Accepted)
      BY <3>1 DEF VoidTechnically
    <3>3. verdict[q] \in Accepted BY <1>1, <3>2, AcceptedAtAeat DEF TruthInv
    <3>4. UNCHANGED chain BY <3>1 DEF VoidTechnically
    <3>5. \A x : Append(chain, x) # chain BY Shapes
    <3> QED BY <3>1, <3>2, <3>3, <3>4, <3>5 DEF VoidTechnically, LatestOf, Rectify, Extend
  <2> QED BY <2>1, <2>2
<1>3. Annulled'
  <2>1. PICK q \in Chained : chain[q].invoice = i /\ chain[q].type = "ANULACION"
                               /\ verdict[q] \in Accepted
    BY <1>2
  <2>2. chain'[q] = chain[q] /\ q \in Chained' BY ChainGrows
  <2>3. verdict'[q] = verdict[q] BY <1>1, <2>1, JudgedStays DEF Accepted
  <2> QED BY <2>1, <2>2, <2>3
<1>4. AeatStatus(i)' = "Anulado"
  <2> DEFINE Judged(type, vs) == \E q \in Chained' :
               chain'[q].invoice = i /\ chain'[q].type = type /\ verdict'[q] \in vs
  <2>1. Judged("ANULACION", Accepted) BY <1>3
  <2>2. AeatStatus(i)' =
          CASE Judged("ANULACION", Accepted) -> "Anulado"
            [] ~ Judged("ANULACION", Accepted) /\ Judged("ALTA", {"ACCEPTED"}) -> "Correcto"
            [] ~ Judged("ANULACION", Accepted) /\ ~ Judged("ALTA", {"ACCEPTED"})
                 /\ Judged("ALTA", Accepted) -> "AceptadoConErrores"
            [] OTHER -> "SinDatos"
    BY DEF AeatStatus
  <2> HIDE DEF Judged
  <2> QED BY <2>1, <2>2
<1>5. ~ Rectified(i)' BY <1>2, RectifiesWriters DEF Rectified
<1> QED BY <1>4, <1>5

\* No invoice that rectifies another is declared after the cancellation of that other
\* one (the opposite order is reachable), and an invoice is void in the books only when
\* AEAT shows it as annulled and nothing rectifies it.
THEOREM EndsOnce == Spec => []InvoiceEndsOnce
<1>1. Init => DraftsRectifyNothing /\ InvoiceEndsOnce
  BY DEF Init, DraftsRectifyNothing, InvoiceEndsOnce, Chained
<1>2. /\ RegisterInv /\ DraftsRectifyNothing /\ InvoiceEndsOnce /\ [Next]_vars
      => DraftsRectifyNothing' /\ InvoiceEndsOnce'
  <2>1. RegisterInv /\ DraftsRectifyNothing /\ [Next]_vars => DraftsRectifyNothing'
    BY DraftsStep DEF RegisterInv
  <2> QED BY <2>1, NoneAfterCancellation, VoidedStep DEF InvoiceEndsOnce
<1> QED BY <1>1, <1>2, RegisterInvariant, PTL DEF Spec
-----------------------------------------------------------------------------
(* The outbox implements the fiscal register.                               *)

LEMMA AppendIsExtension ==
    ASSUME NEW S, NEW n \in Nat, NEW f \in [1..n -> S], NEW g \in [1..(n + 1) -> S], NEW e \in S,
           \A k \in 1..n : g[k] = f[k], g[n + 1] = e
    PROVE  f \in Seq(S) /\ Len(f) = n /\ g = Append(f, e)
<1>1. f \in Seq(S) /\ g \in Seq(S) BY SeqDef
<1>2. Len(f) = n /\ Len(g) = n + 1 BY <1>1, LenProperties
<1>3. Append(f, e) \in Seq(S) /\ Len(Append(f, e)) = n + 1 BY <1>1, <1>2
<1>4. \A k \in 1..(n + 1) : g[k] = Append(f, e)[k]
  <2> SUFFICES ASSUME NEW k \in 1..(n + 1) PROVE g[k] = Append(f, e)[k] OBVIOUS
  <2>1. CASE k \in 1..n BY <1>1, <1>2, <2>1
  <2>2. CASE k = n + 1 BY <1>1, <1>2, <2>2
  <2> QED BY <2>1, <2>2
<1>5. g = Append(f, e) BY <1>1, <1>2, <1>3, <1>4, SeqEqual
<1> QED BY <1>1, <1>2, <1>5

\* The refinement mapping: the chain without its hashes, and the last final
\* answer of every record.
Entries == [p \in Chained |->
              [type |-> chain[p].type, invoice |-> chain[p].invoice, target |-> chain[p].target]]
Known == [p \in Pos |-> IF Decided(p) THEN LastOutcome(p) ELSE "NONE"]

LEMMA EntriesType ==
    ASSUME TypeOK PROVE Entries \in [1..Len(chain) -> Register!Entry] /\ DOMAIN Entries = Chained
BY Shapes DEF Entries, Chained, Register!Entry, Record

LEMMA KnownFrame ==
    ASSUME UNCHANGED attempts PROVE Known' = Known
BY DEF Known, Decided, HasAttempt, LastOutcome

LEMMA EntriesFrame == ASSUME UNCHANGED chain PROVE Entries' = Entries
BY DEF Entries, Chained

\* A new record declares an invoice that no record is of, or succeeds once a
\* declaration that was rejected or accepted.
LEMMA EnterRefined ==
    ASSUME RegisterInv, [Next]_vars, chain' # chain
    PROVE  \E e \in Register!Entry : Register!Enter(e)
<1> USE DEF RegisterInv
<1> PICK n : n = Len(chain) + 1 OBVIOUS
<1>1. /\ Len(chain) \in Nat /\ Chained = 1..Len(chain)
      /\ \A p \in Chained : p \in Pos /\ chain[p] \in Record /\ p # 0
  <2>1. Len(chain) \in Nat /\ Chained \subseteq Pos /\ \A p \in Chained : chain[p] \in Record
    BY Shapes
  <2>2. Chained = 1..Len(chain) BY DEF Chained
  <2> QED BY <2>1, <2>2
<1>2. UNCHANGED <<attempts, verdict>>
  <2>1. UNCHANGED attempts BY NewRecord
  <2>2. \A p \in Chained : AeatJudges(p) => UNCHANGED chain BY DEF AeatJudges, dbVars
  <2> QED BY <2>1, <2>2, VerdictWriters
<1>3. ASSUME NEW type \in {"ALTA", "ANULACION"}, NEW i \in Invoices, NEW t \in 0..MaxChain,
             NEW over, Extend(type, i, t, over),
             NEW e, e = [type |-> type, invoice |-> i, target |-> t]
      PROVE  /\ e \in Register!Entry /\ Len(Entries) < MaxChain
             /\ Entries' = Append(Entries, e) /\ UNCHANGED <<verdict, Known>>
  <2>1. /\ Chained' = Chained \cup {n}
        /\ chain'[n] = [type |-> type, invoice |-> i, target |-> t, over |-> over]
        /\ \A p \in Chained : chain'[p] = chain[p]
    BY <1>3, Appended
  <2>2. e \in Register!Entry BY <1>3 DEF Register!Entry
  <2>3. \A p \in Chained : Entries'[p] = Entries[p] BY <2>1 DEF Entries
  <2>4. Entries'[n] = e BY <1>3, <2>1 DEF Entries
  <2>5. TypeOK' BY TypeStep
  <2>6. Entries' \in [1..Len(chain') -> Register!Entry]
    <3>1. chain' \in Seq(Record) /\ Chained' = 1..Len(chain') BY <2>5 DEF TypeOK, Chained
    <3>2. \A p \in Chained' : chain'[p] \in Record BY <3>1
    <3> QED BY <3>1, <3>2 DEF Entries, Register!Entry, Record
  <2>7. Len(chain') = n /\ Len(chain) < MaxChain BY <1>3, Shapes DEF Extend
  <2>8. Entries \in [1..Len(chain) -> Register!Entry] BY EntriesType
  <2> PICK f, g : f = Entries /\ g = Entries' OBVIOUS
  <2>9. Len(f) = Len(chain) /\ g = Append(f, e)
    BY <1>1, <2>2, <2>3, <2>4, <2>6, <2>7, <2>8, AppendIsExtension
  <2>10. Known' = Known BY <1>2, KnownFrame
  <2>11. Len(Entries) < MaxChain /\ Entries' = Append(Entries, e) BY <2>7, <2>9
  <2> QED BY <1>2, <2>2, <2>10, <2>11
<1>4. ASSUME NEW i \in Invoices, Extend("ALTA", i, 0, Tip), invoice[i].status = "DRAFT"
      PROVE  \E e \in Register!Entry : Register!Enter(e)
  <2> PICK e : e = [type |-> "ALTA", invoice |-> i, target |-> 0] OBVIOUS
  <2>1. /\ e \in Register!Entry /\ Len(Entries) < MaxChain
        /\ Entries' = Append(Entries, e) /\ UNCHANGED <<verdict, Known>>
    <3>1. 0 \in 0..MaxChain /\ "ALTA" \in {"ALTA", "ANULACION"} OBVIOUS
    <3> QED BY <1>3, <1>4, <3>1
  <2>2. \A q \in Chained : chain[q].invoice # i BY <1>4 DEF ChainInv, DeclaredOnce
  <2>3. \A q \in DOMAIN Entries : Entries[q].invoice # i BY <2>2, EntriesType DEF Entries
  <2>4. Register!Declares(e) BY <2>3 DEF Register!Declares, Entries
  <2>5. Register!Enter(e) BY <2>1, <2>4 DEF Register!Enter, Entries, Known
  <2> QED BY <2>1, <2>5
<1>5. ASSUME NEW t \in Chained, NEW type \in {"ALTA", "ANULACION"},
             Extend(type, chain[t].invoice, t, Tip),
             chain[t].type = "ALTA", Unsucceeded(t, type),
             type = "ALTA" => HasAttempt(t, {"REJECTED"}),
             type = "ANULACION" => HasAttempt(t, Accepted)
      PROVE  \E e \in Register!Entry : Register!Enter(e)
  <2> PICK i : i = chain[t].invoice OBVIOUS
  <2> PICK e : e = [type |-> type, invoice |-> i, target |-> t] OBVIOUS
  <2>1. i \in Invoices /\ t \in 0..MaxChain BY <1>1 DEF Record, Pos
  <2>2. /\ e \in Register!Entry /\ Len(Entries) < MaxChain
        /\ Entries' = Append(Entries, e) /\ UNCHANGED <<verdict, Known>>
    BY <1>3, <1>5, <2>1
  <2>3. \A q \in Chained : chain[q].target # t
    <3> SUFFICES ASSUME NEW q \in Chained, chain[q].target = t PROVE FALSE OBVIOUS
    <3>1. chain[q].type # type BY <1>5 DEF Unsucceeded
    <3>2. SucceedsLegally(q) BY <1>1 DEF ChainInv, SucceededOnce, Original
    <3>3. HasAttempt(t, {"REJECTED"}) /\ HasAttempt(t, Accepted)
      BY <1>1, <1>5, <3>1, <3>2 DEF SucceedsLegally, Record
    <3> QED BY <1>1, <3>3, AcceptedOrRejected DEF ChainInv
  <2>4. Decided(t) BY <1>5 DEF Decided, HasAttempt, Terminal
  <2>5. Known[t] \in IF type = "ALTA" THEN {"REJECTED"} ELSE Accepted
    <3>1. Known[t] = LastOutcome(t) BY <1>1, <2>4 DEF Known
    <3>2. AnsweredOnce /\ t \in Pos BY <1>1 DEF ChainInv
    <3> QED BY <1>5, <2>4, <3>1, <3>2, FinalAnswer DEF Terminal
  <2>6. Register!Succeeds(e)
    <3>1. t \in DOMAIN Entries /\ DOMAIN Entries = Chained BY EntriesType
    <3>2. Entries[t].type = "ALTA" /\ Entries[t].invoice = i BY <1>5 DEF Entries
    <3>3. \A q \in DOMAIN Entries : Entries[q].target # t BY <2>3, <3>1 DEF Entries
    <3>4. e.target = t /\ e.type = type /\ e.invoice = i OBVIOUS
    <3> QED BY <2>5, <3>1, <3>2, <3>3, <3>4
        DEF Register!Succeeds, Register!Free, Register!Accepted, Accepted, Entries, Known
  <2>7. Register!Enter(e) BY <2>2, <2>6 DEF Register!Enter, Entries, Known
  <2> QED BY <2>2, <2>7
<1> QED BY <1>4, <1>5, NewRecord

\* AEAT judges a record on its way once, when every earlier one has its answer.
LEMMA JudgeRefined ==
    ASSUME RegisterInv, [Next]_vars, verdict' # verdict
    PROVE  \E p \in DOMAIN Entries : Register!Judge(p)
<1> USE DEF RegisterInv
<1>1. PICK p \in Chained : AeatJudges(p) BY VerdictWriters
<1>2. verdict[p] = "NONE" /\ p \in Pos /\ EarlierDecided(p)
  <2>1. p \in wire /\ p \in Pos BY <1>1, Shapes DEF AeatJudges
  <2> QED BY <2>1 DEF WireInv
<1>3. \A q \in 1..(p - 1) : Known[q] \in Terminal
  <2> SUFFICES ASSUME NEW q \in 1..(p - 1) PROVE Known[q] \in Terminal OBVIOUS
  <2>1. q \in Pos BY <1>2 DEF Pos
  <2>2. Decided(q) BY <1>2 DEF EarlierDecided
  <2> QED BY <2>1, <2>2, FinalAnswer DEF Known, ChainInv
<1>4. Known' = Known /\ Entries' = Entries
  BY <1>1, KnownFrame, EntriesFrame DEF AeatJudges, dbVars
<1>5. \E v \in Terminal : verdict' = [verdict EXCEPT ![p] = v] BY <1>1 DEF AeatJudges
<1>6. Register!Judge(p)
  BY <1>2, <1>3, <1>4, <1>5 DEF Register!Judge, Register!Terminal, Register!Accepted, Terminal,
     Accepted, Entries, Known
<1> QED BY <1>6, EntriesType

\* A final answer is recorded once, and it is the decision of AEAT.
LEMMA LearnRefined ==
    ASSUME RegisterInv, [Next]_vars, attempts' # attempts
    PROVE  \/ \E p \in DOMAIN Entries : Register!Learn(p)
           \/ UNCHANGED <<Entries, verdict, Known>>
<1> USE DEF RegisterInv
<1>1. PICK p \in Chained, o \in Outcome :
        /\ ~ Decided(p)
        /\ attempts' = [attempts EXCEPT ![p] = Append(@, o)]
        /\ UNCHANGED <<chain, clerk>>
        /\ o \in Terminal => \E w \in Workers : Finalize(w) /\ worker[w].pos = p
                                                 /\ worker[w].answer.outcome = o
  BY AttemptWriters
<1>2. p \in Pos /\ attempts \in [Pos -> Seq(Outcome)] BY Shapes
<1>3. \A q \in Pos \ {p} : attempts'[q] = attempts[q] BY <1>1, <1>2
<1>4. \A q \in Pos \ {p} : Known'[q] = Known[q]
  BY <1>3 DEF Known, Decided, HasAttempt, LastOutcome
<1>5. Decided(p)' <=> o \in Terminal BY <1>1, <1>2, DecidedByAppend
<1>6. UNCHANGED verdict
  <2>1. \A q \in Chained : AeatJudges(q) => UNCHANGED attempts BY DEF AeatJudges, dbVars
  <2> QED BY <2>1, VerdictWriters
<1>7. Entries' = Entries BY <1>1, EntriesFrame
<1>8. CASE o \notin Terminal
  <2>1. Known'[p] = Known[p] BY <1>1, <1>2, <1>5, <1>8 DEF Known
  <2>2. Known' = Known BY <1>4, <2>1 DEF Known
  <2> QED BY <1>6, <1>7, <2>2
<1>9. CASE o \in Terminal
  <2>1. PICK w \in Workers : Finalize(w) /\ worker[w].pos = p /\ worker[w].answer.outcome = o
    BY <1>1, <1>9
  <2>2. AnswerTrue(w) BY DEF TruthInv
  <2>3. Agrees(o, verdict[p]) BY <1>9, <2>1, <2>2 DEF AnswerTrue, Finalize, HoldsLease
  <2>4. verdict[p] \in Terminal /\ Register!Reads(verdict[p], o)
    BY <1>9, <2>3 DEF Agrees, Terminal, Accepted, Register!Reads, Register!Accepted
  <2>5. LastOutcome(p)' = o
    <3> DEFINE s == attempts[p]
    <3>1. s \in Seq(Outcome) /\ attempts'[p] = Append(s, o) BY <1>1, <1>2
    <3> HIDE DEF s
    <3>2. attempts'[p][Len(attempts'[p])] = o BY <3>1
    <3> QED BY <3>2 DEF LastOutcome
  <2>6. Known[p] = "NONE" /\ Known'[p] = o BY <1>1, <1>2, <1>5, <1>9, <2>5 DEF Known
  <2>7. Known' = [Known EXCEPT ![p] = o] BY <1>2, <1>4, <2>6 DEF Known
  <2>8. Register!Learn(p)
    BY <1>6, <1>7, <1>9, <2>4, <2>6, <2>7 DEF Register!Learn, Register!Terminal,
       Register!Accepted, Terminal, Accepted, Entries, Known
  <2> QED BY <2>8, EntriesType
<1> QED BY <1>8, <1>9

LEMMA RefinementStep ==
    RegisterInv /\ [Next]_vars => [Register!Next]_(Register!vars)
<1> SUFFICES ASSUME RegisterInv, [Next]_vars PROVE [Register!Next]_(Register!vars) OBVIOUS
<1>1. CASE chain' # chain BY <1>1, EnterRefined DEF Register!Next
<1>2. CASE verdict' # verdict BY <1>2, JudgeRefined DEF Register!Next, Entries
<1>3. UNCHANGED <<Entries, verdict, Known>> => UNCHANGED Register!vars
  BY DEF Register!vars, Entries, Known
<1>4. CASE attempts' # attempts BY <1>3, <1>4, LearnRefined DEF Register!Next, Entries
<1>5. CASE UNCHANGED <<chain, verdict, attempts>>
  BY <1>3, <1>5, EntriesFrame, KnownFrame
<1> QED BY <1>1, <1>2, <1>4, <1>5

\* The outbox, its workers, leases, retries and the operator's interventions
\* implement the fiscal register: the chain grows by legal records only, AEAT
\* judges in order and once, and each judgement is learnt truly, once.
THEOREM RegisterRefined == Spec => RefinesRegister
<1>1. Init => Register!Init
  <2> SUFFICES ASSUME Init PROVE Register!Init OBVIOUS
  <2>1. Entries = <<>> BY DEF Init, Entries, Chained
  <2>2. Known = [p \in Pos |-> "NONE"] BY DEF Init, Known, Decided, HasAttempt
  <2> QED BY <2>1, <2>2 DEF Init, Register!Init, Register!Pos, Pos, Entries, Known
<1> QED BY <1>1, RegisterInvariant, RefinementStep, PTL DEF Spec, RefinesRegister, Register!Spec
=============================================================================
