-------------------------- MODULE VerifactuProofs --------------------------
(* Theorems about module Verifactu, for every value of its constants. *)
EXTENDS Verifactu, TLAPS

USE BoundsAssumption DEF BoundsAssumption

LEMMA ChainElement == ASSUME TypeOK, NEW p \in Chained PROVE chain[p] \in Record /\ p \in Pos
BY DEF TypeOK, Chained, Pos

\* Updates of nested functions and of records keep their types.
LEMMA UpdateMsg ==
    ASSUME msg \in [Pos -> [Op -> Message]], NEW p \in Pos, NEW op \in Op, NEW m \in Message,
           msg' = [msg EXCEPT ![p][op] = m]
    PROVE  msg' \in [Pos -> [Op -> Message]]
<1>1. [msg[p] EXCEPT ![op] = m] \in [Op -> Message] OBVIOUS
<1> QED BY <1>1

LEMMA UpdateBoth ==
    ASSUME msg \in [Pos -> [Op -> Message]], NEW p \in Pos, NEW f \in [Op -> Message],
           msg' = [msg EXCEPT ![p] = f]
    PROVE  msg' \in [Pos -> [Op -> Message]]
OBVIOUS

LEMMA UpdateAttempts ==
    ASSUME attempts \in [Pos -> Seq(Outcome)], NEW p \in Pos, NEW o \in Outcome,
           attempts' = [attempts EXCEPT ![p] = Append(@, o)]
    PROVE  attempts' \in [Pos -> Seq(Outcome)]
<1>1. Append(attempts[p], o) \in Seq(Outcome) OBVIOUS
<1> QED BY <1>1

LEMMA UpdateFiscal ==
    ASSUME invoice \in [Invoices -> Invoice], NEW i \in Invoices, NEW f \in FiscalStatus,
           invoice' = [invoice EXCEPT ![i].fiscal = f]
    PROVE  invoice' \in [Invoices -> Invoice]
<1>1. [invoice[i] EXCEPT !.fiscal = f] \in Invoice BY DEF Invoice
<1> QED BY <1>1

LEMMA MessageFields ==
    ASSUME NEW A, NEW B, NEW C, NEW D, NEW E, NEW F,
           NEW m \in [status : A, tries : B, max : C, err : D, lease : E, late : F],
           NEW s \in A, NEW k \in B, NEW l \in E, NEW b \in F
    PROVE  [m EXCEPT !.status = s, !.tries = k, !.lease = l, !.late = b] \in
               [status : A, tries : B, max : C, err : D, lease : E, late : F]
OBVIOUS

LEMMA ProcessFields ==
    ASSUME NEW x \in Process, NEW p \in 0..MaxChain, NEW op \in Op
    PROVE  [x EXCEPT !.pc = "claimed", !.pos = p, !.op = op] \in Process
BY DEF Process

LEMMA IdleType == IdleProcess \in Process /\ IdleProcess.pc = "idle"
BY DEF IdleProcess, Process, Answer, Op, Retry, Outcome, Terminal, Accepted, ErrorClass

LEMMA NewMessageType == NewMessage \in Message
BY DEF Message, NewMessage, NoMessage, ErrorClass

LEMMA InitType == Init => TypeOK
<1> SUFFICES ASSUME Init PROVE TypeOK OBVIOUS
<1>1. invoice \in [Invoices -> Invoice] BY DEF Init, Invoice, FiscalStatus
<1>2. chain \in Seq(Record) /\ Len(chain) = 0 BY DEF Init
<1>3. msg \in [Pos -> [Op -> Message]]
  <2>1. NoMessage \in Message BY DEF NoMessage, Message, ErrorClass
  <2> QED BY <2>1 DEF Init
<1>4. attempts \in [Pos -> Seq(Outcome)] BY DEF Init
<1>5. worker \in [Workers -> Process] /\ \A w \in Workers : worker[w].pc = "idle"
  BY IdleType DEF Init
<1>6. clerk \in [Clerks -> Request] /\ \A c \in Clerks : clerk[c] = NoRequest
  BY DEF Init, NoRequest, Request
<1>7. verdict \in [Pos -> Terminal \cup {"NONE"}] BY DEF Init
<1>8. /\ maintenance \in BOOLEAN /\ interventions \in Nat /\ wire \in SUBSET Pos
      /\ sent \in [Pos -> Nat]
  BY DEF Init
<1> QED BY <1>1, <1>2, <1>3, <1>4, <1>5, <1>6, <1>7, <1>8 DEF TypeOK

LEMMA ExtendType ==
    ASSUME TypeOK, NEW type \in {"ALTA", "ANULACION"}, NEW i \in Invoices, NEW t \in 0..MaxChain,
           NEW over \in 0..MaxChain, Extend(type, i, t, over)
    PROVE  /\ chain' \in Seq(Record)
           /\ Len(chain') = Len(chain) + 1
           /\ Len(chain') <= MaxChain
           /\ msg' \in [Pos -> [Op -> Message]]
<1>1. [type |-> type, invoice |-> i, target |-> t, over |-> over] \in Record BY DEF Record
<1>2. chain \in Seq(Record) BY DEF TypeOK
<1>3. chain' \in Seq(Record) /\ Len(chain') = Len(chain) + 1 BY <1>1, <1>2 DEF Extend
<1>4. Len(chain') <= MaxChain BY <1>2, <1>3 DEF Extend
<1>5. msg' \in [Pos -> [Op -> Message]] BY NewMessageType DEF Extend, TypeOK, Pos, Op
<1> QED BY <1>3, <1>4, <1>5

-----------------------------------------------------------------------------
(* Type correctness, one lemma per action that changes more than a status.  *)

LEMMA IssueType == ASSUME TypeOK, NEW i \in Invoices, Issue(i) PROVE TypeOK'
<1>1. /\ Extend("ALTA", i, 0, Tip)
      /\ Tip \in 0..MaxChain
  BY DEF Issue, Tip, TypeOK
<1>2. /\ chain' \in Seq(Record)
      /\ Len(chain') = Len(chain) + 1
      /\ Len(chain') <= MaxChain
      /\ msg' \in [Pos -> [Op -> Message]]
  BY <1>1, ExtendType
<1>3. invoice' \in [Invoices -> Invoice]
  <2>1. \A x \in Invoice : [x EXCEPT !.status = "ISSUED", !.fiscal = "PENDING"] \in Invoice
    BY DEF Invoice, FiscalStatus
  <2> QED BY <2>1 DEF Issue, TypeOK
<1> QED BY <1>2, <1>3 DEF Issue, TypeOK, aeatVars, Chained

LEMMA RectifyType ==
    ASSUME TypeOK, NEW o \in Invoices, NEW i \in Invoices, Rectify(o, i) PROVE TypeOK'
<1>1. /\ Extend("ALTA", i, 0, Tip)
      /\ Tip \in 0..MaxChain
  BY DEF Rectify, Tip, TypeOK
<1>2. /\ chain' \in Seq(Record)
      /\ Len(chain') = Len(chain) + 1
      /\ Len(chain') <= MaxChain
      /\ msg' \in [Pos -> [Op -> Message]]
  BY <1>1, ExtendType
<1>3. invoice' \in [Invoices -> Invoice]
  <2>1. [status |-> "ISSUED", fiscal |-> "PENDING", rectifies |-> {o}] \in Invoice
    BY DEF Invoice, FiscalStatus
  <2>2. \A x \in Invoice : [x EXCEPT !.status = "RECTIFIED"] \in Invoice BY DEF Invoice
  <2> QED BY <2>1, <2>2 DEF Rectify, TypeOK
<1>4. UNCHANGED <<attempts, worker, clerk, maintenance, interventions, wire, sent, verdict>>
  BY DEF Rectify, aeatVars
<1> QED BY <1>2, <1>3, <1>4 DEF TypeOK, Chained

LEMMA NoRequestType == NoRequest \in Request
<1>1. 0 \in 0..MaxChain /\ FALSE \in BOOLEAN OBVIOUS
<1> QED BY <1>1 DEF NoRequest, Request

LEMMA PrepareType ==
    ASSUME TypeOK, NEW c \in Clerks, NEW p \in Chained,
           PrepareCancellation(c, p) \/ PrepareCorrection(c, p)
    PROVE  TypeOK'
<1>1. p \in 0..MaxChain BY DEF Chained, TypeOK
<1>2. PICK kind \in {"ALTA", "ANULACION"} : Prepare(c, kind, p)
  BY DEF PrepareCancellation, PrepareCorrection
<1>3. PICK x : x = [NoRequest EXCEPT !.kind = kind, !.target = p] OBVIOUS
<1>4. x \in Request /\ x.target = p BY <1>1, <1>3, NoRequestType DEF Request
<1>5. clerk' = [clerk EXCEPT ![c] = x] BY <1>2, <1>3 DEF Prepare
<1>6. /\ clerk' \in [Clerks -> Request]
      /\ \A d \in Clerks : clerk'[d] # NoRequest => clerk'[d].target \in Chained
  BY <1>4, <1>5 DEF TypeOK
<1> QED BY <1>2, <1>6 DEF TypeOK, Chained, Prepare, dbVars, aeatVars

LEMMA ReadHeadType == ASSUME TypeOK, NEW c \in Clerks, ReadHead(c) PROVE TypeOK'
<1>1. Tip \in 0..MaxChain BY DEF Tip, TypeOK
<1>2. clerk \in [Clerks -> Request] /\ clerk[c] # NoRequest BY DEF TypeOK, ReadHead, NoRequest
<1>3. clerk' = [clerk EXCEPT ![c].over = Tip, ![c].read = TRUE] BY DEF ReadHead
<1>4. PICK x : x = [clerk[c] EXCEPT !.over = Tip, !.read = TRUE] OBVIOUS
<1>5. x \in Request /\ x.target = clerk[c].target BY <1>1, <1>2, <1>4 DEF Request
<1>6. clerk' = [clerk EXCEPT ![c] = x] BY <1>2, <1>3, <1>4
<1>7. clerk[c].target \in Chained BY <1>2 DEF TypeOK
<1>8. /\ clerk' \in [Clerks -> Request]
      /\ \A d \in Clerks : clerk'[d] # NoRequest => clerk'[d].target \in Chained
  BY <1>2, <1>5, <1>6, <1>7 DEF TypeOK
<1> QED BY <1>8 DEF TypeOK, Chained, ReadHead, dbVars, aeatVars

LEMMA CommitType ==
    ASSUME TypeOK, NEW c \in Clerks, CommitCancellation(c) \/ CommitCorrection(c) PROVE TypeOK'
<1>1. CommitSuccessor(c) /\ clerk[c].kind \in {"ALTA", "ANULACION"}
  BY DEF CommitCancellation, CommitCorrection
<1> DEFINE p == clerk[c].target
<1>2. p \in Chained /\ p \in 0..MaxChain /\ clerk[c].over \in 0..MaxChain
  <2>1. clerk[c] # NoRequest BY <1>1 DEF NoRequest
  <2> QED BY <2>1 DEF TypeOK, Request
<1>3. chain[p].invoice \in Invoices BY <1>2, ChainElement DEF Record
<1>4. Extend(clerk[c].kind, chain[p].invoice, p, clerk[c].over) BY <1>1 DEF CommitSuccessor
<1> HIDE DEF p
<1>5. /\ chain' \in Seq(Record)
      /\ Len(chain') = Len(chain) + 1
      /\ Len(chain') <= MaxChain
      /\ msg' \in [Pos -> [Op -> Message]]
  BY <1>1, <1>2, <1>3, <1>4, ExtendType
<1>6. invoice' \in [Invoices -> Invoice]
  <2>1. \A x \in Invoice : [x EXCEPT !.fiscal = "PENDING"] \in Invoice
    BY DEF Invoice, FiscalStatus
  <2> QED BY <1>1, <2>1 DEF CommitSuccessor, TypeOK
<1>7. /\ clerk' \in [Clerks -> Request]
      /\ \A d \in Clerks : clerk'[d] # NoRequest => clerk'[d].target \in Chained
  <2>1. clerk' = [clerk EXCEPT ![c] = NoRequest] /\ NoRequest \in Request
    BY <1>1, NoRequestType DEF CommitSuccessor
  <2> QED BY <2>1 DEF TypeOK
<1> QED BY <1>1, <1>5, <1>6, <1>7 DEF CommitSuccessor, TypeOK, aeatVars, Chained

LEMMA GiveUpType == ASSUME TypeOK, NEW c \in Clerks, GiveUp(c) PROVE TypeOK'
<1>1. /\ clerk' \in [Clerks -> Request]
      /\ \A d \in Clerks : clerk'[d] # NoRequest => clerk'[d].target \in Chained
  BY NoRequestType DEF GiveUp, TypeOK
<1> QED BY <1>1 DEF GiveUp, TypeOK, dbVars, aeatVars, Chained

LEMMA VoidType == ASSUME TypeOK, NEW i \in Invoices, VoidTechnically(i) PROVE TypeOK'
<1>1. invoice' \in [Invoices -> Invoice] BY DEF VoidTechnically, TypeOK, Invoice
<1> QED BY <1>1 DEF VoidTechnically, TypeOK, aeatVars, Chained

LEMMA ReviveType ==
    ASSUME NEW m \in Message
    PROVE  /\ Released(m) \in Message
           /\ Revived(m) \in Message
           /\ ExpiredSubmit(m) \in Message
           /\ ExpiredReconcile(m) \in Message
           /\ \A p : EnsureReconcile(m, p) \in Message
<1>1. Released(m) \in Message BY DEF Released, Message
<1>2. AtLeast(m) \in Nat BY DEF AtLeast, Message
<1>3. Revived(m) \in Message BY <1>1, <1>2 DEF Revived, Message
<1>4. ExpiredSubmit(m) \in Message BY <1>1 DEF ExpiredSubmit, Message, ErrorClass
<1>5. ExpiredReconcile(m) \in Message BY <1>1 DEF ExpiredReconcile, Message, ErrorClass
<1>6. \A p : EnsureReconcile(m, p) \in Message
  BY <1>1, <1>2, NewMessageType DEF EnsureReconcile, Message, ErrorClass
<1> QED BY <1>1, <1>3, <1>4, <1>5, <1>6

LEMMA RecoverType == ASSUME TypeOK, NEW w \in Workers, Recover(w) PROVE TypeOK'
<1>1. /\ worker' \in [Workers -> Process]
      /\ \A v \in Workers : worker'[v].pc \in {"claimed", "sent", "answered"} =>
            worker'[v].pos \in Chained
  <2>1. worker \in [Workers -> Process] /\ worker' = [worker EXCEPT ![w].pc = "polling"]
    BY DEF Recover, TypeOK
  <2> QED BY <2>1 DEF TypeOK, Process
<1>2. UNCHANGED <<chain, clerk, maintenance, interventions, wire, sent, verdict>>
  BY DEF Recover, aeatVars
<1>3. /\ invoice \in [Invoices -> Invoice]
      /\ msg \in [Pos -> [Op -> Message]]
      /\ attempts \in [Pos -> Seq(Outcome)]
  BY DEF TypeOK
<1>4. /\ invoice' \in [Invoices -> Invoice]
      /\ msg' \in [Pos -> [Op -> Message]]
      /\ attempts' \in [Pos -> Seq(Outcome)]
  <2>1. CASE UNCHANGED <<invoice, msg, attempts>> BY <1>3, <2>1
  <2>2. ASSUME NEW p \in Chained, RecoverSubmit(p)
        PROVE  /\ invoice' \in [Invoices -> Invoice]
               /\ msg' \in [Pos -> [Op -> Message]]
               /\ attempts' \in [Pos -> Seq(Outcome)]
    <3>1. p \in Pos /\ chain[p].invoice \in Invoices BY ChainElement DEF Record
    <3>2. "SENT" \in FiscalStatus /\ "UNKNOWN" \in Outcome BY DEF FiscalStatus, Outcome
    <3>3. invoice' \in [Invoices -> Invoice]
      BY <1>3, <2>2, <3>1, <3>2, UpdateFiscal DEF RecoverSubmit
    <3>4. [op \in Op |-> IF op = "SUBMIT" THEN ExpiredSubmit(msg[p]["SUBMIT"])
                         ELSE EnsureReconcile(msg[p]["RECONCILE"], p)] \in [Op -> Message]
      BY <1>3, <3>1, ReviveType DEF Op
    <3>5. msg' \in [Pos -> [Op -> Message]] BY <1>3, <2>2, <3>1, <3>4, UpdateBoth DEF RecoverSubmit
    <3>6. attempts' \in [Pos -> Seq(Outcome)]
      BY <1>3, <2>2, <3>1, <3>2, UpdateAttempts DEF RecoverSubmit
    <3> QED BY <3>3, <3>5, <3>6
  <2>3. ASSUME NEW p \in Chained, RecoverReconcile(p)
        PROVE  /\ invoice' \in [Invoices -> Invoice]
               /\ msg' \in [Pos -> [Op -> Message]]
               /\ attempts' \in [Pos -> Seq(Outcome)]
    <3>1. p \in Pos BY ChainElement
    <3>2. ExpiredReconcile(msg[p]["RECONCILE"]) \in Message BY <1>3, <3>1, ReviveType DEF Op
    <3>3. msg' = [msg EXCEPT ![p]["RECONCILE"] = ExpiredReconcile(msg[p]["RECONCILE"])]
      BY <2>3 DEF RecoverReconcile
    <3>4. "RECONCILE" \in Op BY DEF Op
    <3>5. msg' \in [Pos -> [Op -> Message]] BY <1>3, <3>1, <3>2, <3>3, <3>4, UpdateMsg
    <3> QED BY <1>3, <2>3, <3>5 DEF RecoverReconcile
  <2> QED BY <2>1, <2>2, <2>3 DEF Recover
<1> QED BY <1>1, <1>2, <1>4 DEF TypeOK, Chained

LEMMA ClaimType == ASSUME TypeOK, NEW w \in Workers, Claim(w) PROVE TypeOK'
<1>1. PICK p \in Chained, op \in Op :
         /\ msg' = [msg EXCEPT ![p][op] = Claimed(@, w)]
         /\ worker' = [worker EXCEPT ![w] =
                         [IdleProcess EXCEPT !.pc = "claimed", !.pos = p, !.op = op]]
  BY DEF Claim
<1>2. UNCHANGED <<invoice, chain, attempts, clerk, maintenance, interventions,
                  wire, sent, verdict>>
  BY DEF Claim, aeatVars
<1>3. msg \in [Pos -> [Op -> Message]] /\ worker \in [Workers -> Process] /\ p \in Pos
  BY ChainElement DEF TypeOK
<1>4. Claimed(msg[p][op], w) \in Message
  <2>1. msg[p][op] \in Message BY <1>3
  <2>2. msg[p][op].tries + 1 \in Nat /\ {w} \in SUBSET Workers BY <2>1 DEF Message
  <2> QED BY <2>1, <2>2, MessageFields DEF Message, Claimed
<1>5. msg' \in [Pos -> [Op -> Message]] BY <1>1, <1>3, <1>4, UpdateMsg
<1>6. [IdleProcess EXCEPT !.pc = "claimed", !.pos = p, !.op = op] \in Process
  <2>1. p \in 0..MaxChain BY <1>3 DEF Pos
  <2> QED BY <2>1, IdleType, ProcessFields
<1>7. worker' \in [Workers -> Process] BY <1>1, <1>3, <1>6
<1>8. ASSUME NEW v \in Workers, worker'[v].pc \in {"claimed", "sent", "answered"}
      PROVE  worker'[v].pos \in Chained
  <2>1. CASE v = w BY <1>1, <1>3, <2>1 DEF IdleProcess
  <2>2. CASE v # w BY <1>1, <1>3, <1>8, <2>2 DEF TypeOK
  <2> QED BY <2>1, <2>2
<1> QED BY <1>2, <1>5, <1>7, <1>8 DEF TypeOK, Chained

\* A worker that goes back to idle: NothingToDo, LoseLease and Crash.
LEMMA ResetType ==
    ASSUME TypeOK, NEW w \in Workers, worker' = [worker EXCEPT ![w] = IdleProcess],
           UNCHANGED <<dbVars, clerk, maintenance, interventions, aeatVars>>
    PROVE  TypeOK'
<1>1. worker \in [Workers -> Process] BY DEF TypeOK
<1>2. worker' \in [Workers -> Process] BY <1>1, IdleType
<1>3. ASSUME NEW v \in Workers, worker'[v].pc \in {"claimed", "sent", "answered"}
      PROVE  worker'[v].pos \in Chained
  <2>1. v # w BY <1>1, <1>3, IdleType
  <2> QED BY <1>1, <1>3, <2>1 DEF TypeOK
<1> QED BY <1>2, <1>3 DEF TypeOK, Chained, dbVars, aeatVars

LEMMA AnswerTypes ==
    /\ \A e \in ErrorClass : Dead(e) \in Answer
    /\ Retry \in Answer
    /\ Uncertain \in Answer
    /\ \A v \in Terminal : Verdict(v) \in Answer
    /\ \A op : UnsentAnswers(op) \subseteq Answer
    /\ \A type, status : ReconcileAnswer(type, status) \in Answer
<1>1. \A e \in ErrorClass : Dead(e) \in Answer BY DEF Dead, Answer, Outcome
<1>2. Retry \in Answer BY DEF Retry, Answer, Outcome, ErrorClass
<1>3. Uncertain \in Answer BY DEF Uncertain, Answer, Outcome, ErrorClass
<1>4. \A v \in Terminal : Verdict(v) \in Answer BY DEF Verdict, Answer, Outcome, ErrorClass
<1>5. \A op : UnsentAnswers(op) \subseteq Answer
  <2>1. {"credential", "integrity", "other"} \subseteq ErrorClass BY DEF ErrorClass
  <2> QED BY <1>1, <1>2, <1>3, <2>1 DEF UnsentAnswers
<1>6. \A type, status : ReconcileAnswer(type, status) \in Answer
  <2>1. "ACCEPTED" \in Terminal /\ "ACCEPTED_WITH_ERRORS" \in Terminal BY DEF Terminal, Accepted
  <2> QED BY <1>2, <1>4, <2>1 DEF ReconcileAnswer
<1> QED BY <1>1, <1>2, <1>3, <1>4, <1>5, <1>6

LEMMA AnsweredType ==
    ASSUME TypeOK, NEW w \in Workers, NEW a \in Answer, Answered(w, a),
           worker[w].pc \in {"claimed", "sent"},
           UNCHANGED <<dbVars, clerk, maintenance, interventions, aeatVars>>
    PROVE  TypeOK'
<1>1. worker \in [Workers -> Process] BY DEF TypeOK
<1> DEFINE late == msg[worker[w].pos][worker[w].op].late
           x == [worker[w] EXCEPT !.pc = "answered", !.answer = a, !.onTime = ~ late]
<1>2. (~ late) \in BOOLEAN OBVIOUS
<1>3. worker' = [worker EXCEPT ![w] = x] BY <1>1 DEF Answered
<1> HIDE DEF late
<1>4. x \in Process /\ x.pos = worker[w].pos BY <1>1, <1>2 DEF Process
<1> HIDE DEF x
<1>5. worker' \in [Workers -> Process] BY <1>1, <1>3, <1>4
<1>6. ASSUME NEW v \in Workers, worker'[v].pc \in {"claimed", "sent", "answered"}
      PROVE  worker'[v].pos \in Chained
  <2>1. worker[w].pos \in Chained BY DEF TypeOK
  <2>2. v # w => worker'[v] = worker[v] BY <1>1, <1>3
  <2>3. v # w => worker[v].pos \in Chained BY <1>6, <2>2 DEF TypeOK
  <2> QED BY <1>1, <1>3, <1>4, <2>1, <2>2, <2>3
<1> QED BY <1>5, <1>6 DEF TypeOK, Chained, dbVars, aeatVars

LEMMA WorkerAnswers ==
    ASSUME TypeOK, NEW w \in Workers, FailUnsent(w) \/ ReceiveAnswer(w) \/ Query(w)
    PROVE  \E a \in Answer :
              /\ Answered(w, a)
              /\ worker[w].pc \in {"claimed", "sent"}
              /\ UNCHANGED <<dbVars, clerk, maintenance, interventions, aeatVars>>
<1>1. CASE FailUnsent(w) BY <1>1, AnswerTypes DEF FailUnsent
<1>2. CASE ReceiveAnswer(w)
  <2>1. worker[w].pos \in Pos BY <1>2, ChainElement DEF TypeOK, ReceiveAnswer
  <2>2. verdict[worker[w].pos] # "NONE" => verdict[worker[w].pos] \in Terminal
    BY <2>1 DEF TypeOK
  <2>3. "other" \in ErrorClass BY DEF ErrorClass
  <2> QED BY <1>2, <2>2, <2>3, AnswerTypes DEF ReceiveAnswer
<1>3. CASE Query(w) BY <1>3, AnswerTypes DEF Query
<1> QED BY <1>1, <1>2, <1>3

LEMMA SendType == ASSUME TypeOK, NEW w \in Workers, Send(w) PROVE TypeOK'
<1>1. worker \in [Workers -> Process] /\ sent \in [Pos -> Nat] /\ wire \in SUBSET Pos
  BY DEF TypeOK
<1>2. worker[w].pos \in Chained /\ worker[w].pos \in Pos BY ChainElement DEF Send, TypeOK
<1>3. worker' = [worker EXCEPT ![w].pc = "sent"] BY DEF Send
<1>4. worker' \in [Workers -> Process] BY <1>1, <1>3 DEF Process
<1>5. ASSUME NEW v \in Workers, worker'[v].pc \in {"claimed", "sent", "answered"}
      PROVE  worker'[v].pos \in Chained
  <2>1. v = w => worker'[v].pos = worker[w].pos BY <1>1, <1>3 DEF Process
  <2>2. v # w => worker'[v] = worker[v] BY <1>1, <1>3
  <2>3. v # w => worker[v].pos \in Chained BY <1>5, <2>2 DEF TypeOK
  <2> QED BY <1>2, <2>1, <2>2, <2>3
<1>6. sent' \in [Pos -> Nat] /\ wire' \in SUBSET Pos
  <2>1. sent[worker[w].pos] + 1 \in Nat BY <1>1, <1>2
  <2> QED BY <1>1, <1>2, <2>1 DEF Send
<1> QED BY <1>4, <1>5, <1>6 DEF TypeOK, Chained, Send, dbVars

LEMMA FinalizeType == ASSUME TypeOK, NEW w \in Workers, Finalize(w) PROVE TypeOK'
<1> DEFINE p == worker[w].pos
           op == worker[w].op
           a == worker[w].answer
<1>1. /\ worker' = [worker EXCEPT ![w] = IdleProcess]
      /\ UNCHANGED <<chain, clerk, maintenance, interventions, wire, sent, verdict>>
  BY DEF Finalize, aeatVars
<1>2. /\ worker \in [Workers -> Process]
      /\ invoice \in [Invoices -> Invoice]
      /\ msg \in [Pos -> [Op -> Message]]
      /\ attempts \in [Pos -> Seq(Outcome)]
  BY DEF TypeOK
<1>3. p \in Chained /\ worker[w].pc = "answered" BY DEF TypeOK, Finalize
<1>4. /\ p \in Pos /\ chain[p].invoice \in Invoices /\ chain[p].type \in {"ALTA", "ANULACION"}
      /\ op \in Op /\ a.outcome \in Outcome /\ a.err \in ErrorClass
  BY <1>2, <1>3, ChainElement DEF Record, Process, Answer
<1>5. attempts' \in [Pos -> Seq(Outcome)]
  <2>1. attempts' = [attempts EXCEPT ![p] = Append(@, a.outcome)] BY DEF Finalize
  <2> QED BY <1>2, <1>4, <2>1, UpdateAttempts
<1>6. invoice' \in [Invoices -> Invoice]
  <2>1. invoice' = [invoice EXCEPT ![chain[p].invoice].fiscal = FiscalAfter(p, a)]
    BY DEF Finalize
  <2>2. FiscalAfter(p, a) \in FiscalStatus
    BY <1>4 DEF FiscalAfter, FiscalStatus, Outcome, Terminal, Accepted
  <2> HIDE DEF p, a
  <2> QED BY <1>2, <1>4, <2>1, <2>2, UpdateFiscal
<1>7. msg' \in [Pos -> [Op -> Message]]
  <2> DEFINE n == AfterAttempt(msg[p][op], op, a)
             f == [o \in Op |-> IF o = op THEN n
                                ELSE IF op = "SUBMIT" /\ a.outcome = "UNKNOWN"
                                       THEN EnsureReconcile(msg[p][o], p) ELSE msg[p][o]]
  <2>1. msg' = [msg EXCEPT ![p] = f] BY DEF Finalize
  <2>2. n \in Message
    <3> DEFINE m == msg[p][op]
    <3>1. m \in Message BY <1>2, <1>4
    <3>2. Released(m) \in Message BY <3>1, ReviveType
    <3>3. n \in {[Released(m) EXCEPT !.status = "PROCESSED", !.err = a.err],
                 [Released(m) EXCEPT !.status = "DEAD", !.err = a.err],
                 [Released(m) EXCEPT !.status = "PENDING", !.err = a.err]}
      BY DEF AfterAttempt, Closed
    <3> HIDE DEF m, n
    <3> QED BY <1>4, <3>2, <3>3 DEF Message
  <2>3. \A o \in Op : EnsureReconcile(msg[p][o], p) \in Message BY <1>2, <1>4, ReviveType
  <2> HIDE DEF n
  <2>4. f \in [Op -> Message] BY <1>2, <1>4, <2>2, <2>3
  <2> HIDE DEF f, p
  <2> QED BY <1>2, <1>4, <2>1, <2>4, UpdateBoth
<1>8. worker' \in [Workers -> Process] BY <1>1, <1>2, IdleType
<1>9. ASSUME NEW v \in Workers, worker'[v].pc \in {"claimed", "sent", "answered"}
      PROVE  worker'[v].pos \in Chained
  <2>1. v # w BY <1>1, <1>2, <1>9, IdleType
  <2> QED BY <1>1, <1>2, <1>9, <2>1 DEF TypeOK
<1> HIDE DEF p, op, a
<1> QED BY <1>1, <1>5, <1>6, <1>7, <1>8, <1>9 DEF TypeOK, Chained

LEMMA InterventionType ==
    ASSUME TypeOK, NEW p \in Chained,
           TurnIntoReconcile(p) \/ \E op \in Op : Reactivate(p, op) \/ RunOutLease(p, op)
    PROVE  TypeOK'
<1>1. /\ p \in Pos /\ msg \in [Pos -> [Op -> Message]] /\ invoice \in [Invoices -> Invoice]
      /\ interventions \in Nat /\ chain[p].invoice \in Invoices
  BY ChainElement DEF TypeOK, Record
<1>2. UNCHANGED <<chain, attempts, worker, clerk, maintenance, wire, sent, verdict>>
  BY DEF TurnIntoReconcile, Reactivate, RunOutLease, aeatVars
<1>3. interventions' \in Nat BY <1>1 DEF TurnIntoReconcile, Reactivate, RunOutLease
<1>4. invoice' \in [Invoices -> Invoice]
  <2>1. "SENT" \in FiscalStatus BY DEF FiscalStatus
  <2> QED BY <1>1, <2>1, UpdateFiscal DEF TurnIntoReconcile, Reactivate, RunOutLease
<1>5. msg' \in [Pos -> [Op -> Message]]
  <2>1. CASE TurnIntoReconcile(p)
    <3> DEFINE s == msg[p]["SUBMIT"]
               r == msg[p]["RECONCILE"]
               f == [op \in Op |->
                       IF op = "SUBMIT" THEN [Released(s) EXCEPT !.status = "PROCESSED"]
                       ELSE IF r.status = "NONE" THEN NewMessage ELSE Revived(r)]
    <3>1. msg' = [msg EXCEPT ![p] = f] BY <2>1 DEF TurnIntoReconcile
    <3>2. s \in Message /\ r \in Message BY <1>1 DEF Op
    <3> HIDE DEF s, r
    <3>3. Released(s) \in Message /\ Revived(r) \in Message BY <3>2, ReviveType
    <3>4. [Released(s) EXCEPT !.status = "PROCESSED"] \in Message BY <3>3 DEF Message
    <3>5. f \in [Op -> Message] BY <3>3, <3>4, NewMessageType
    <3> HIDE DEF f
    <3> QED BY <1>1, <3>1, <3>5, UpdateBoth
  <2>2. ASSUME NEW op \in Op, Reactivate(p, op) PROVE msg' \in [Pos -> [Op -> Message]]
    <3>1. msg' = [msg EXCEPT ![p][op] = Revived(msg[p][op])] BY <2>2 DEF Reactivate
    <3>2. Revived(msg[p][op]) \in Message BY <1>1, ReviveType
    <3> QED BY <1>1, <3>1, <3>2, UpdateMsg
  <2>3. ASSUME NEW op \in Op, RunOutLease(p, op) PROVE msg' \in [Pos -> [Op -> Message]]
    <3>1. msg' = [msg EXCEPT ![p][op] = [msg[p][op] EXCEPT !.late = TRUE]]
      BY <2>3 DEF RunOutLease
    <3>2. msg[p][op] \in Message BY <1>1
    <3>3. [msg[p][op] EXCEPT !.late = TRUE] \in Message BY <3>2 DEF Message
    <3> QED BY <1>1, <3>1, <3>3, UpdateMsg
  <2> QED BY <2>1, <2>2, <2>3
<1> QED BY <1>2, <1>3, <1>4, <1>5 DEF TypeOK, Chained

LEMMA OutsideType ==
    ASSUME TypeOK, SwitchMaintenance \/ AeatNext PROVE TypeOK'
<1>1. UNCHANGED <<invoice, chain, msg, attempts, worker, clerk, interventions, sent>>
  BY DEF SwitchMaintenance, AeatNext, AeatJudges, LoseSubmission, dbVars, aeatVars
<1>2. maintenance' \in BOOLEAN
  BY DEF TypeOK, SwitchMaintenance, AeatNext, AeatJudges, LoseSubmission
<1>3. wire' \in SUBSET Pos
  BY DEF TypeOK, SwitchMaintenance, AeatNext, AeatJudges, LoseSubmission, aeatVars
<1>4. verdict' \in [Pos -> Terminal \cup {"NONE"}]
  <2>1. verdict \in [Pos -> Terminal \cup {"NONE"}] BY DEF TypeOK
  <2>2. CASE UNCHANGED verdict BY <2>1, <2>2
  <2>3. CASE \E p \in Chained, v \in Terminal : verdict' = [verdict EXCEPT ![p] = v]
    BY <2>1, <2>3
  <2> QED BY <2>2, <2>3 DEF SwitchMaintenance, AeatNext, AeatJudges, LoseSubmission, aeatVars
<1> QED BY <1>1, <1>2, <1>3, <1>4 DEF TypeOK, Chained
-----------------------------------------------------------------------------
LEMMA TypeStep == TypeOK /\ [Next]_vars => TypeOK'
<1> SUFFICES ASSUME TypeOK, [Next]_vars PROVE TypeOK' OBVIOUS
<1>1. CASE ClerkNext
  BY <1>1, IssueType, RectifyType, PrepareType, ReadHeadType, CommitType, GiveUpType,
     VoidType DEF ClerkNext
<1>2. ASSUME NEW w \in Workers, WorkerNext(w) \/ Crash(w) PROVE TypeOK'
  <2>1. CASE Recover(w) BY <2>1, RecoverType
  <2>2. CASE Claim(w) BY <2>2, ClaimType
  <2>3. CASE NothingToDo(w) BY <2>3, ResetType DEF NothingToDo
  <2>4. CASE FailUnsent(w) \/ ReceiveAnswer(w) \/ Query(w)
    BY <2>4, WorkerAnswers, AnsweredType
  <2>5. CASE Send(w) BY <2>5, SendType
  <2>6. CASE Finalize(w) BY <2>6, FinalizeType
  <2>7. CASE LoseLease(w) BY <2>7, ResetType DEF LoseLease
  <2>8. CASE Crash(w) BY <2>8, ResetType DEF Crash
  <2> QED BY <1>2, <2>1, <2>2, <2>3, <2>4, <2>5, <2>6, <2>7, <2>8 DEF WorkerNext
<1>3. CASE \/ \E p \in Chained, op \in Op : Reactivate(p, op) \/ RunOutLease(p, op)
           \/ \E p \in Chained : TurnIntoReconcile(p)
  BY <1>3, InterventionType
<1>4. CASE SwitchMaintenance \/ AeatNext BY <1>4, OutsideType
<1>5. CASE UNCHANGED vars
  BY <1>5 DEF vars, dbVars, aeatVars, TypeOK, Chained
<1> QED BY <1>1, <1>2, <1>3, <1>4, <1>5 DEF Next

\* Every variable keeps its type in every reachable state.
THEOREM TypeCorrect == Spec => []TypeOK
<1> QED BY InitType, TypeStep, PTL DEF Spec
-----------------------------------------------------------------------------
(* Which actions write what.                                                *)

\* Only four actions append to the chain, and each goes through Extend.
LEMMA ChainWriters ==
    ASSUME TypeOK, [Next]_vars
    PROVE  \/ UNCHANGED chain
           \/ /\ \E type \in {"ALTA", "ANULACION"}, i \in Invoices, t \in 0..MaxChain :
                    Extend(type, i, t, Tip)
              /\ UNCHANGED <<attempts, worker, sent>>
<1> DEFINE Grown == /\ \E type \in {"ALTA", "ANULACION"}, i \in Invoices, t \in 0..MaxChain :
                          Extend(type, i, t, Tip)
                    /\ UNCHANGED <<attempts, worker, sent>>
<1> SUFFICES ASSUME chain' # chain PROVE Grown OBVIOUS
<1>1. ASSUME NEW i \in Invoices, Issue(i) PROVE Grown
  BY <1>1 DEF Issue, aeatVars
<1>2. ASSUME NEW o \in Invoices, NEW i \in Invoices, Rectify(o, i) PROVE Grown
  BY <1>2 DEF Rectify, aeatVars
<1>3. ASSUME NEW c \in Clerks, CommitCancellation(c) \/ CommitCorrection(c) PROVE Grown
  <2>1. CommitSuccessor(c) /\ clerk[c].kind \in {"ALTA", "ANULACION"} /\ clerk[c].over = Tip
    BY <1>3 DEF CommitCancellation, CommitCorrection, HeadUnmoved
  <2> DEFINE p == clerk[c].target
  <2>2. p \in Chained /\ p \in 0..MaxChain
    <3>1. clerk[c] # NoRequest BY <2>1 DEF NoRequest
    <3> QED BY <3>1 DEF TypeOK, Request
  <2>3. chain[p].invoice \in Invoices BY <2>2, ChainElement DEF Record
  <2>4. Extend(clerk[c].kind, chain[p].invoice, p, Tip) BY <2>1 DEF CommitSuccessor
  <2> HIDE DEF p
  <2> QED BY <2>1, <2>2, <2>3, <2>4 DEF CommitSuccessor, aeatVars
<1> HIDE DEF Grown
<1>4. CASE ClerkNext
  BY <1>1, <1>2, <1>3, <1>4
  DEF ClerkNext, PrepareCancellation, PrepareCorrection, Prepare, ReadHead, GiveUp,
      VoidTechnically, dbVars
<1>5. ASSUME NEW w \in Workers, WorkerNext(w) \/ Crash(w) PROVE chain' = chain
  BY <1>5 DEF WorkerNext, Crash, Recover, Claim, NothingToDo, FailUnsent, Send, ReceiveAnswer,
              Query, Finalize, LoseLease, dbVars
<1>6. ASSUME NEW p \in Chained, TurnIntoReconcile(p) \/
                 \E op \in Op : Reactivate(p, op) \/ RunOutLease(p, op)
      PROVE  chain' = chain
  BY <1>6 DEF TurnIntoReconcile, Reactivate, RunOutLease
<1>7. CASE SwitchMaintenance \/ AeatNext
  BY <1>7 DEF SwitchMaintenance, AeatNext, AeatJudges, LoseSubmission, dbVars
<1>8. CASE UNCHANGED vars BY <1>8 DEF vars, dbVars
<1> QED BY <1>4, <1>5, <1>6, <1>7, <1>8 DEF Next

-----------------------------------------------------------------------------
LEMMA LinkedStep == TypeOK /\ ChainLinked /\ [Next]_vars => ChainLinked'
<1> SUFFICES ASSUME TypeOK, ChainLinked, [Next]_vars PROVE ChainLinked' OBVIOUS
<1>1. chain \in Seq(Record) BY DEF TypeOK
<1>2. CASE UNCHANGED chain BY <1>2 DEF ChainLinked, Chained
<1>3. ASSUME NEW type, NEW i, NEW t, Extend(type, i, t, Tip) PROVE ChainLinked'
  <2>1. chain' = Append(chain, [type |-> type, invoice |-> i, target |-> t, over |-> Tip])
    BY <1>3 DEF Extend
  <2>2. Len(chain') = Len(chain) + 1 BY <1>1, <2>1
  <2>3. \A p \in 1..Len(chain) : chain'[p] = chain[p] BY <1>1, <2>1
  <2>4. chain'[Len(chain) + 1].over = Len(chain) BY <1>1, <2>1 DEF Tip
  <2> QED BY <1>1, <2>2, <2>3, <2>4 DEF ChainLinked, Chained
<1> QED BY <1>2, <1>3, ChainWriters

\* Every record is hashed over its predecessor, however many clerks prepare
\* records outside the transactions that append them.
THEOREM ChainIsLinked == Spec => []ChainLinked
<1>1. Init => ChainLinked BY DEF Init, ChainLinked, Chained
<1> QED BY <1>1, InitType, TypeStep, LinkedStep, PTL DEF Spec
-----------------------------------------------------------------------------
(* One live message per undecided record.                                   *)

LiveStatus == {"PENDING", "CLAIMED", "DEAD"}

\* One message of a record moves from a live status to a live status.
StaysLive(p, op) ==
    /\ Live(p, op)
    /\ \E m : msg' = [msg EXCEPT ![p][op] = m] /\ m.status \in LiveStatus
    /\ UNCHANGED <<chain, attempts>>

LEMMA OutboxWriters ==
    ASSUME TypeOK, [Next]_vars
    PROVE  \/ UNCHANGED <<chain, msg, attempts>>
           \/ /\ \E type \in {"ALTA", "ANULACION"}, i \in Invoices, t \in 0..MaxChain :
                    Extend(type, i, t, Tip)
              /\ UNCHANGED <<attempts, worker, sent>>
           \/ \E p \in Chained, op \in Op : StaysLive(p, op)
           \/ /\ UNCHANGED chain
              /\ \/ \E p \in Chained : RecoverSubmit(p) \/ TurnIntoReconcile(p)
                 \/ \E w \in Workers : Finalize(w)
<1> DEFINE Goal == \/ UNCHANGED <<chain, msg, attempts>>
                   \/ \E p \in Chained, op \in Op : StaysLive(p, op)
                   \/ /\ UNCHANGED chain
                      /\ \/ \E p \in Chained : RecoverSubmit(p) \/ TurnIntoReconcile(p)
                         \/ \E w \in Workers : Finalize(w)
<1> SUFFICES ASSUME chain' = chain PROVE Goal BY ChainWriters
<1>1. msg \in [Pos -> [Op -> Message]] BY DEF TypeOK
<1>2. CASE ClerkNext
  <2>1. chain \in Seq(Record) /\ \A x : Append(chain, x) # chain BY DEF TypeOK
  <2>2. \A type, i, t, over : ~ Extend(type, i, t, over) BY <2>1 DEF Extend
  <2> QED
    BY <1>2, <2>2 DEF ClerkNext, Issue, Rectify, CommitCancellation, CommitCorrection,
       CommitSuccessor, PrepareCancellation, PrepareCorrection, Prepare, ReadHead, GiveUp,
       VoidTechnically, dbVars
<1>3. ASSUME NEW p \in Chained, RecoverReconcile(p), UNCHANGED chain PROVE Goal
  <2>1. "RECONCILE" \in Op /\ Live(p, "RECONCILE")
    BY <1>3 DEF RecoverReconcile, Expired, Live, Op
  <2>2. msg[p]["RECONCILE"] \in Message BY <1>1, <2>1, ChainElement
  <2>3. ExpiredReconcile(msg[p]["RECONCILE"]).status = "PENDING"
    BY <2>2 DEF ExpiredReconcile, Released, Message
  <2> QED BY <1>3, <2>1, <2>3 DEF RecoverReconcile, StaysLive, LiveStatus
<1>4. ASSUME NEW w \in Workers, Claim(w) PROVE Goal
  <2>1. PICK p \in Chained, op \in Op : msg' = [msg EXCEPT ![p][op] = Claimed(@, w)]
                                        /\ Claimable(p, op)
    BY <1>4 DEF Claim
  <2>2. Live(p, op) BY <2>1 DEF Claimable, Live
  <2>3. msg[p][op] \in Message BY <1>1, <2>1, ChainElement
  <2>4. Claimed(msg[p][op], w).status = "CLAIMED" BY <2>3 DEF Claimed, Message
  <2> QED BY <1>4, <2>1, <2>2, <2>4 DEF Claim, StaysLive, LiveStatus
<1>5. ASSUME NEW w \in Workers, WorkerNext(w) \/ Crash(w) PROVE Goal
  BY <1>3, <1>4, <1>5 DEF WorkerNext, Crash, Recover, NothingToDo, FailUnsent, Send,
     ReceiveAnswer, Query, LoseLease, dbVars
<1>6. ASSUME NEW p \in Chained, NEW op \in Op, Reactivate(p, op) \/ RunOutLease(p, op)
      PROVE  Goal
  <2>1. msg[p][op] \in Message BY <1>1, ChainElement
  <2>2. Live(p, op) BY <1>6 DEF Reactivate, RunOutLease, Live
  <2>3. Revived(msg[p][op]).status = "PENDING" BY <2>1 DEF Revived, Released, Message
  <2>4. [msg[p][op] EXCEPT !.late = TRUE].status = msg[p][op].status BY <2>1 DEF Message
  <2> QED BY <1>6, <2>2, <2>3, <2>4 DEF Reactivate, RunOutLease, StaysLive, LiveStatus
<1>7. CASE SwitchMaintenance \/ AeatNext
  BY <1>7 DEF SwitchMaintenance, AeatNext, AeatJudges, LoseSubmission, dbVars
<1>8. CASE UNCHANGED vars BY <1>8 DEF vars, dbVars
<1> QED BY <1>2, <1>5, <1>6, <1>7, <1>8 DEF Next

LEMMA DecidedByAppend ==
    ASSUME attempts \in [Pos -> Seq(Outcome)], NEW p \in Pos, NEW o \in Outcome,
           attempts' = [attempts EXCEPT ![p] = Append(@, o)]
    PROVE  /\ Decided(p)' <=> (Decided(p) \/ o \in Terminal)
           /\ \A q \in Pos \ {p} : attempts'[q] = attempts[q]
<1> DEFINE s == attempts[p]
<1>1. s \in Seq(Outcome) OBVIOUS
<1>2. attempts'[p] = Append(s, o) OBVIOUS
<1>3. /\ Len(attempts'[p]) = Len(s) + 1
      /\ \A k \in 1..Len(s) : attempts'[p][k] = s[k]
      /\ attempts'[p][Len(s) + 1] = o
  <2> HIDE DEF s
  <2> QED BY <1>1, <1>2
<1>4. Len(s) \in Nat BY <1>1
<1>5. Decided(p)' <=> \E k \in 1..(Len(s) + 1) : attempts'[p][k] \in Terminal
  BY <1>3 DEF Decided, HasAttempt
<1>6. Decided(p) <=> \E k \in 1..Len(s) : s[k] \in Terminal BY DEF Decided, HasAttempt
<1> HIDE DEF s
<1>7. Decided(p)' <=> (Decided(p) \/ o \in Terminal)
  BY <1>3, <1>4, <1>5, <1>6
<1> QED BY <1>7

\* A record whose messages and attempts a step leaves alone keeps its live message.
LEMMA OneLiveFrame ==
    ASSUME NEW p, OneLive(p), msg'[p] = msg[p], attempts'[p] = attempts[p]
    PROVE  OneLive(p)'
BY DEF OneLive, Live, Decided, HasAttempt

LEMMA OneLiveStep ==
    ASSUME TypeOK, BlankBeyond, OneLiveMessage, [Next]_vars PROVE OneLiveMessage'
<1>1. /\ chain \in Seq(Record) /\ Len(chain) \in Nat
      /\ msg \in [Pos -> [Op -> Message]]
      /\ attempts \in [Pos -> Seq(Outcome)]
      /\ Chained \subseteq Pos
  BY ChainElement DEF TypeOK
<1>2. \A p \in Chained : OneLive(p) BY DEF OneLiveMessage
<1>3. CASE UNCHANGED <<chain, msg, attempts>>
  BY <1>2, <1>3, OneLiveFrame DEF OneLiveMessage, Chained
<1>4. ASSUME NEW type, NEW i, NEW t, Extend(type, i, t, Tip), UNCHANGED attempts
      PROVE  OneLiveMessage'
  <2>1. PICK n \in Pos : n = Len(chain) + 1 /\ n \notin Chained
    BY <1>1, <1>4 DEF Extend, Pos, Chained
  <2>2. Chained' = Chained \cup {n} BY <1>1, <1>4, <2>1 DEF Extend, Chained
  <2>3. msg' = [msg EXCEPT ![n]["SUBMIT"] = NewMessage] BY <1>4, <2>1 DEF Extend
  <2>4. Blank(n) BY <2>1 DEF BlankBeyond
  <2>5. OneLive(n)'
    <3>1. ~ Decided(n)' BY <1>4, <2>4 DEF Blank, Decided, HasAttempt
    <3>2. /\ msg'[n]["SUBMIT"].status = "PENDING"
          /\ msg'[n]["RECONCILE"].status = "NONE"
      BY <1>1, <2>1, <2>3, <2>4 DEF Blank, Op, NewMessage, NoMessage
    <3> QED BY <3>1, <3>2 DEF OneLive, Live, Op
  <2>6. ASSUME NEW p \in Chained PROVE OneLive(p)'
    <3>1. p # n /\ p \in Pos BY <1>1, <2>1
    <3>2. msg'[p] = msg[p] /\ attempts'[p] = attempts[p] BY <1>1, <1>4, <2>1, <2>3, <3>1
    <3> QED BY <1>2, <3>2, OneLiveFrame
  <2> QED BY <2>2, <2>5, <2>6 DEF OneLiveMessage
<1>5. ASSUME NEW p \in Chained, NEW op \in Op, StaysLive(p, op) PROVE OneLiveMessage'
  <2>1. PICK m : msg' = [msg EXCEPT ![p][op] = m] /\ m.status \in LiveStatus
    BY <1>5 DEF StaysLive
  <2>2. Chained' = Chained /\ attempts' = attempts BY <1>5 DEF StaysLive, Chained
  <2>3. \A q \in Pos \ {p} : msg'[q] = msg[q] BY <1>1, <2>1
  <2>4. msg'[p][op] = m /\ \A o \in Op \ {op} : msg'[p][o] = msg[p][o] BY <1>1, <2>1
  <2>5. OneLive(p)'
    <3>1. \A o \in Op : Live(p, o)' <=> Live(p, o)
      BY <1>5, <2>1, <2>4 DEF StaysLive, Live, LiveStatus
    <3>2. Decided(p)' <=> Decided(p) BY <2>2 DEF Decided, HasAttempt
    <3>3. OneLive(p) BY <1>2
    <3>4. op = "SUBMIT" => msg'[p]["RECONCILE"].status = "NONE"
      BY <1>5, <2>4, <3>3 DEF OneLive, StaysLive, Live, Op
    <3>5. op = "RECONCILE" => msg'[p]["SUBMIT"].status = "PROCESSED"
      BY <1>5, <2>4, <3>3 DEF OneLive, StaysLive, Live, Op
    <3> QED BY <3>1, <3>2, <3>3, <3>4, <3>5 DEF OneLive, Op
  <2>6. ASSUME NEW q \in Chained, q # p PROVE OneLive(q)'
    BY <1>1, <1>2, <2>2, <2>3, <2>6, OneLiveFrame
  <2> QED BY <2>2, <2>5, <2>6 DEF OneLiveMessage
<1>6. ASSUME NEW p \in Chained, NEW f, UNCHANGED chain, msg' = [msg EXCEPT ![p] = f],
             \A q \in Pos \ {p} : attempts'[q] = attempts[q], OneLive(p)'
      PROVE  OneLiveMessage'
  <2>1. Chained' = Chained BY <1>6 DEF Chained
  <2>2. ASSUME NEW q \in Chained, q # p PROVE OneLive(q)'
    <3>1. msg'[q] = msg[q] /\ attempts'[q] = attempts[q] BY <1>1, <1>6, <2>2
    <3> QED BY <1>2, <3>1, OneLiveFrame
  <2> QED BY <1>6, <2>1, <2>2 DEF OneLiveMessage
<1>7. ASSUME NEW p \in Chained, RecoverSubmit(p), UNCHANGED chain PROVE OneLiveMessage'
  <2> DEFINE f == [op \in Op |-> IF op = "SUBMIT" THEN ExpiredSubmit(msg[p]["SUBMIT"])
                                 ELSE EnsureReconcile(msg[p]["RECONCILE"], p)]
  <2>1. /\ msg' = [msg EXCEPT ![p] = f]
        /\ attempts' = [attempts EXCEPT ![p] = Append(@, "UNKNOWN")]
        /\ msg[p]["SUBMIT"].status = "CLAIMED"
    BY <1>7 DEF RecoverSubmit, Expired
  <2>2. p \in Pos /\ msg[p]["SUBMIT"] \in Message BY <1>1 DEF Op
  <2>3. msg[p]["RECONCILE"].status = "NONE" /\ ~ Decided(p)
    BY <1>2, <2>1 DEF OneLive, Live, Op
  <2>4. f["SUBMIT"].status = "PROCESSED" /\ f["RECONCILE"].status = "PENDING"
    <3>1. f["SUBMIT"].status = "PROCESSED" BY <2>2 DEF ExpiredSubmit, Released, Message, Op
    <3>2. EnsureReconcile(msg[p]["RECONCILE"], p) = NewMessage BY <2>3 DEF EnsureReconcile
    <3> QED BY <3>1, <3>2 DEF NewMessage, NoMessage, Op
  <2> HIDE DEF f
  <2>5. /\ ~ Decided(p)'
        /\ \A q \in Pos \ {p} : attempts'[q] = attempts[q]
    <3>1. "UNKNOWN" \in Outcome /\ "UNKNOWN" \notin Terminal BY DEF Outcome, Terminal, Accepted
    <3> QED BY <1>1, <2>1, <2>2, <2>3, <3>1, DecidedByAppend
  <2>6. OneLive(p)' BY <1>1, <2>1, <2>2, <2>4, <2>5 DEF OneLive, Live, Op
  <2> QED BY <1>6, <1>7, <2>1, <2>5, <2>6
<1>8. ASSUME NEW p \in Chained, TurnIntoReconcile(p) PROVE OneLiveMessage'
  <2> DEFINE s == msg[p]["SUBMIT"]
             r == msg[p]["RECONCILE"]
             f == [op \in Op |-> IF op = "SUBMIT" THEN [Released(s) EXCEPT !.status = "PROCESSED"]
                                 ELSE IF r.status = "NONE" THEN NewMessage ELSE Revived(r)]
  <2>1. /\ msg' = [msg EXCEPT ![p] = f]
        /\ s.status = "DEAD" /\ ~ Decided(p)
        /\ UNCHANGED <<chain, attempts>>
    BY <1>8 DEF TurnIntoReconcile
  <2>2. p \in Pos /\ s \in Message BY <1>1 DEF Op
  <2>3. r.status = "NONE" BY <1>2, <2>1 DEF OneLive
  <2>4. f["SUBMIT"].status = "PROCESSED" /\ f["RECONCILE"].status = "PENDING"
    <3>1. f["SUBMIT"].status = "PROCESSED" BY <2>2 DEF Released, Message, Op
    <3>2. f["RECONCILE"] = NewMessage BY <2>3 DEF Op
    <3> QED BY <3>1, <3>2 DEF NewMessage, NoMessage
  <2> HIDE DEF f, s, r
  <2>5. ~ Decided(p)' BY <2>1 DEF Decided, HasAttempt
  <2>6. OneLive(p)' BY <1>1, <2>1, <2>2, <2>4, <2>5 DEF OneLive, Live, Op
  <2> QED BY <1>6, <2>1, <2>6
<1>9. ASSUME NEW w \in Workers, Finalize(w), UNCHANGED chain PROVE OneLiveMessage'
  <2>0. worker[w].pos \in Chained /\ worker[w].op \in Op /\ worker[w].answer \in Answer
    BY <1>9 DEF TypeOK, Finalize, Process
  <2> PICK p \in Chained, op \in Op, a \in Answer :
             worker[w].pos = p /\ worker[w].op = op /\ worker[w].answer = a
    BY <2>0
  <2> DEFINE n == AfterAttempt(msg[p][op], op, a)
             f == [o \in Op |-> IF o = op THEN n
                                ELSE IF op = "SUBMIT" /\ a.outcome = "UNKNOWN"
                                       THEN EnsureReconcile(msg[p][o], p) ELSE msg[p][o]]
  <2>1. /\ msg' = [msg EXCEPT ![p] = f]
        /\ attempts' = [attempts EXCEPT ![p] = Append(@, a.outcome)]
        /\ msg[p][op].status = "CLAIMED"
    BY <1>9 DEF Finalize, HoldsLease
  <2>2. p \in Pos /\ a.outcome \in Outcome /\ msg[p][op] \in Message BY <1>1 DEF Answer
  <2>3. /\ ~ Decided(p)
        /\ op = "SUBMIT" => msg[p]["RECONCILE"].status = "NONE"
        /\ op = "RECONCILE" => msg[p]["SUBMIT"].status = "PROCESSED"
    BY <1>2, <2>1, <2>2 DEF OneLive, Live, Op
  <2>4. /\ (a.outcome \in Terminal \/ (a.outcome = "UNKNOWN" /\ op = "SUBMIT")) =>
              n.status = "PROCESSED"
        /\ ~ (a.outcome \in Terminal \/ (a.outcome = "UNKNOWN" /\ op = "SUBMIT")) =>
              n.status \in {"PENDING", "DEAD"}
    <3> DEFINE m == msg[p][op]
    <3>1. \A st, e : [Released(m) EXCEPT !.status = st, !.err = e].status = st
      BY <2>2 DEF Released, Message
    <3> HIDE DEF m
    <3> QED BY <3>1 DEF AfterAttempt, Closed, m
  <2>5. op = "SUBMIT" /\ a.outcome = "UNKNOWN" => f["RECONCILE"].status = "PENDING"
    BY <2>3 DEF EnsureReconcile, NewMessage, NoMessage, Op
  <2>6. f[op] = n /\ \A o \in Op : o # op /\ ~ (op = "SUBMIT" /\ a.outcome = "UNKNOWN") =>
                                   f[o] = msg[p][o]
    BY <2>2
  <2>7. /\ Decided(p)' <=> a.outcome \in Terminal
        /\ \A q \in Pos \ {p} : attempts'[q] = attempts[q]
    BY <1>1, <2>1, <2>2, <2>3, DecidedByAppend
  <2>8. "UNKNOWN" \notin Terminal BY DEF Terminal, Accepted
  <2> HIDE DEF n, f
  <2>9. OneLive(p)'
    <3>1. msg'[p] = f BY <1>1, <2>1, <2>2
    <3>2. CASE op = "SUBMIT"
      <4>1. a.outcome \in Terminal => f["SUBMIT"].status = "PROCESSED"
                                      /\ f["RECONCILE"].status = "NONE"
        BY <2>2, <2>3, <2>4, <2>6, <2>8, <3>2 DEF Op
      <4>2. a.outcome = "UNKNOWN" => f["SUBMIT"].status = "PROCESSED"
                                     /\ f["RECONCILE"].status = "PENDING"
        BY <2>4, <2>5, <2>6, <3>2
      <4>3. a.outcome \notin Terminal /\ a.outcome # "UNKNOWN" =>
               f["SUBMIT"].status \in {"PENDING", "DEAD"} /\ f["RECONCILE"].status = "NONE"
        BY <2>2, <2>3, <2>4, <2>6, <3>2 DEF Op
      <4> QED BY <2>7, <2>8, <3>1, <4>1, <4>2, <4>3 DEF OneLive, Live, Op
    <3>3. CASE op = "RECONCILE"
      <4>1. f["SUBMIT"].status = "PROCESSED" BY <2>3, <2>6, <3>3 DEF Op
      <4>2. a.outcome \in Terminal => f["RECONCILE"].status = "PROCESSED" BY <2>4, <2>6, <3>3
      <4>3. a.outcome \notin Terminal => f["RECONCILE"].status \in {"PENDING", "DEAD"}
        BY <2>4, <2>6, <3>3
      <4> QED BY <2>7, <3>1, <4>1, <4>2, <4>3 DEF OneLive, Live, Op
    <3> QED BY <2>2, <3>2, <3>3 DEF Op
  <2> QED BY <1>6, <1>9, <2>1, <2>2, <2>7, <2>9
<1> QED BY <1>3, <1>4, <1>5, <1>7, <1>8, <1>9, OutboxWriters
-----------------------------------------------------------------------------
(* No record leaves twice.                                                  *)

LEMMA BlankStep == ASSUME TypeOK, BlankBeyond, [Next]_vars PROVE BlankBeyond'
<1>1. /\ chain \in Seq(Record) /\ Len(chain) \in Nat
      /\ msg \in [Pos -> [Op -> Message]]
      /\ attempts \in [Pos -> Seq(Outcome)]
      /\ sent \in [Pos -> Nat]
      /\ Chained \subseteq Pos
  BY ChainElement DEF TypeOK
<1>2. Chained \subseteq Chained'
  <2>1. CASE UNCHANGED chain BY <2>1 DEF Chained
  <2>2. ASSUME NEW type, NEW i, NEW t, Extend(type, i, t, Tip) PROVE Chained \subseteq Chained'
    BY <1>1, <2>2 DEF Extend, Chained
  <2> QED BY <2>1, <2>2, ChainWriters
<1> SUFFICES ASSUME NEW p \in Pos, p \notin Chained' PROVE Blank(p)'
  BY DEF BlankBeyond
<1>3. p \notin Chained /\ Blank(p) BY <1>2 DEF BlankBeyond
<1>4. msg'[p] = msg[p] /\ attempts'[p] = attempts[p]
  <2>1. CASE UNCHANGED <<chain, msg, attempts>> BY <2>1
  <2>2. ASSUME NEW type, NEW i, NEW t, Extend(type, i, t, Tip), UNCHANGED attempts
        PROVE  msg'[p] = msg[p] /\ attempts'[p] = attempts[p]
    <3>1. Len(chain) + 1 \in Chained' BY <1>1, <2>2 DEF Extend, Chained
    <3> QED BY <1>1, <2>2, <3>1 DEF Extend
  <2>3. ASSUME NEW q \in Chained, NEW op \in Op, StaysLive(q, op)
        PROVE  msg'[p] = msg[p] /\ attempts'[p] = attempts[p]
    BY <1>1, <1>3, <2>3 DEF StaysLive
  <2>4. ASSUME NEW q \in Chained, RecoverSubmit(q) \/ TurnIntoReconcile(q)
        PROVE  msg'[p] = msg[p] /\ attempts'[p] = attempts[p]
    BY <1>1, <1>3, <2>4 DEF RecoverSubmit, TurnIntoReconcile
  <2>5. ASSUME NEW w \in Workers, Finalize(w)
        PROVE  msg'[p] = msg[p] /\ attempts'[p] = attempts[p]
    <3>1. worker[w].pos \in Chained BY <2>5 DEF TypeOK, Finalize
    <3> QED BY <1>1, <1>3, <2>5, <3>1 DEF Finalize
  <2> QED BY <2>1, <2>2, <2>3, <2>4, <2>5, OutboxWriters
<1>5. sent'[p] = sent[p]
  <2>1. ASSUME NEW w \in Workers, Send(w) PROVE sent'[p] = sent[p]
    <3>1. worker[w].pos \in Chained BY <2>1 DEF TypeOK, Send
    <3> QED BY <1>1, <1>3, <2>1, <3>1 DEF Send
  <2>2. CASE UNCHANGED sent BY <2>2
  <2>3. (\E w \in Workers : Send(w)) \/ UNCHANGED sent
    BY DEF Next, vars, ClerkNext, WorkerNext, AeatNext, Issue, Rectify, PrepareCancellation,
       PrepareCorrection, Prepare, ReadHead, CommitCancellation, CommitCorrection,
       CommitSuccessor, GiveUp, VoidTechnically, Recover, Claim, NothingToDo, FailUnsent,
       ReceiveAnswer, Query, Finalize, LoseLease, Crash, Reactivate, TurnIntoReconcile,
       RunOutLease, SwitchMaintenance, AeatJudges, LoseSubmission, aeatVars
  <2> QED BY <2>1, <2>2, <2>3
<1> QED BY <1>3, <1>4, <1>5 DEF Blank

\* Steps that leave the SUBMIT of p as it is, and every worker as it is or
\* without a SUBMIT of p.
LEMMA GuardedFrame ==
    ASSUME NEW p, Guarded(p), sent'[p] = sent[p],
           msg'[p]["SUBMIT"].status = msg[p]["SUBMIT"].status,
           msg'[p]["SUBMIT"].lease = msg[p]["SUBMIT"].lease,
           msg'[p]["SUBMIT"].err = msg[p]["SUBMIT"].err,
           \A w \in Workers : worker'[w] = worker[w] \/ ~ Submitting(w, p)'
    PROVE  Guarded(p)'
BY DEF Guarded, Unsendable, Alone, Submitting

\* Steps that close the SUBMIT of p for good.
LEMMA GuardedClosed ==
    ASSUME NEW p, Guarded(p), sent'[p] = sent[p],
           msg'[p]["SUBMIT"].status = "PROCESSED",
           \A w \in Workers : worker'[w] = worker[w] \/ ~ Submitting(w, p)'
    PROVE  Guarded(p)'
BY DEF Guarded, Unsendable, Alone, Submitting

\* A record that never left and that no worker holds.
LEMMA GuardedFresh ==
    ASSUME NEW p, sent'[p] = 0, \A w \in Workers : ~ Submitting(w, p)' PROVE Guarded(p)'
BY DEF Guarded

LEMMA AnsweredGuarded ==
    ASSUME TypeOK, NEW w \in Workers, NEW p \in Pos, Guarded(p),
           FailUnsent(w) \/ ReceiveAnswer(w) \/ Query(w)
    PROVE  Guarded(p)'
<1>1. worker \in [Workers -> Process] /\ sent \in [Pos -> Nat] BY DEF TypeOK
<1>2. UNCHANGED <<msg, sent>> BY DEF FailUnsent, ReceiveAnswer, Query, dbVars, aeatVars
<1>3. PICK a \in Answer : Answered(w, a)
  BY WorkerAnswers
<1>4. /\ \A v \in Workers \ {w} : worker'[v] = worker[v]
      /\ worker'[w].pc = "answered" /\ worker'[w].answer = a
      /\ worker'[w].pos = worker[w].pos /\ worker'[w].op = worker[w].op
  BY <1>1, <1>3 DEF Answered, Process
<1>5. CASE ~ Submitting(w, p)
  <2>1. ~ Submitting(w, p)' \/ worker[w].pc \notin {"claimed", "sent"}
    BY <1>4, <1>5 DEF Submitting
  <2>2. ~ Submitting(w, p)' BY <2>1 DEF FailUnsent, ReceiveAnswer, Query
  <2> QED BY <1>2, <1>4, <2>2, GuardedFrame
<1>6. CASE Submitting(w, p)
  <2>1. Alone(w, p) BY <1>6 DEF Guarded
  <2>2. ~ Query(w) BY <1>6 DEF Query, Submitting
  <2>3. CASE FailUnsent(w)
    <3>1. ~ (sent[p] > 0) BY <2>1, <2>3 DEF Alone, FailUnsent
    <3> QED BY <1>1, <1>2, <1>4, <1>6, <2>1, <3>1 DEF Guarded, Unsendable, Alone, Submitting
  <2>4. CASE ReceiveAnswer(w)
    <3>1. \E v \in {Uncertain, Dead("other")} \cup {Verdict(x) : x \in {verdict[worker[w].pos]}} :
             Answered(w, v) /\ (v = Verdict(verdict[worker[w].pos]) =>
                                    verdict[worker[w].pos] # "NONE" \/ v = Uncertain \/ v = Dead("other"))
      BY <2>4 DEF ReceiveAnswer
    <3>2. worker'[w].answer.outcome # "RETRYABLE_FAILURE" \/
             (worker'[w].answer.fate = "DEAD" /\ worker'[w].answer.err # "credential")
      <4>1. verdict[p] # "RETRYABLE_FAILURE" BY DEF TypeOK, Terminal, Accepted
      <4>2. worker[w].pos = p BY <1>6 DEF Submitting
      <4>3. \A v : Answered(w, v) => worker'[w].answer = v BY <1>1 DEF Answered, Process
      <4> QED BY <3>1, <4>1, <4>2, <4>3 DEF Uncertain, Dead, Verdict
    <3> QED BY <1>1, <1>2, <1>4, <1>6, <2>1, <3>2 DEF Guarded, Unsendable, Alone, Submitting
  <2> QED BY <2>2, <2>3, <2>4
<1> QED BY <1>5, <1>6

LEMMA SendGuarded ==
    ASSUME TypeOK, NEW w \in Workers, NEW p \in Pos, Guarded(p), Send(w) PROVE Guarded(p)'
<1>1. worker \in [Workers -> Process] /\ sent \in [Pos -> Nat] /\ worker[w].pos \in Pos
  BY ChainElement DEF TypeOK, Send
<1>2. /\ \A v \in Workers \ {w} : worker'[v] = worker[v]
      /\ worker'[w].pc = "sent" /\ worker'[w].pos = worker[w].pos /\ worker'[w].op = worker[w].op
      /\ worker[w].pc = "claimed" /\ worker[w].op = "SUBMIT" /\ msg' = msg
      /\ sent' = [sent EXCEPT ![worker[w].pos] = @ + 1]
  BY <1>1 DEF Send, Process, dbVars
<1>3. CASE worker[w].pos # p
  <2>1. sent'[p] = sent[p] /\ ~ Submitting(w, p)' BY <1>1, <1>2, <1>3 DEF Submitting
  <2> QED BY <1>2, <2>1, GuardedFrame
<1>4. CASE worker[w].pos = p
  <2>1. Alone(w, p) BY <1>2, <1>4 DEF Guarded, Submitting
  <2>2. sent[p] = 0 BY <1>1, <1>2, <2>1 DEF Alone
  <2>3. sent'[p] = 1 BY <1>1, <1>2, <1>4, <2>2
  <2>4. \A v \in Workers : Submitting(v, p)' => v = w
    BY <1>2, <2>1 DEF Alone, Submitting
  <2> QED BY <1>2, <2>1, <2>3, <2>4 DEF Guarded, Unsendable, Alone
<1> QED BY <1>3, <1>4

LEMMA RecoverGuarded ==
    ASSUME TypeOK, NEW w \in Workers, NEW p \in Pos, Guarded(p), Recover(w) PROVE Guarded(p)'
<1>1. /\ worker \in [Workers -> Process] /\ msg \in [Pos -> [Op -> Message]]
      /\ worker' = [worker EXCEPT ![w].pc = "polling"] /\ sent' = sent
  BY DEF TypeOK, Recover, aeatVars
<1>2. \A v \in Workers : worker'[v] = worker[v] \/ ~ Submitting(v, p)'
  <2>1. worker'[w].pc = "polling" BY <1>1 DEF Process
  <2> QED BY <1>1, <2>1 DEF Submitting
<1>3. CASE msg'[p]["SUBMIT"] = msg[p]["SUBMIT"] BY <1>1, <1>2, <1>3, GuardedFrame
<1>4. ASSUME RecoverSubmit(p) PROVE Guarded(p)'
  <2>1. msg[p]["SUBMIT"] \in Message BY <1>1 DEF Op
  <2>2. msg'[p]["SUBMIT"].status = "PROCESSED"
    BY <1>1, <1>4, <2>1 DEF RecoverSubmit, ExpiredSubmit, Released, Message, Op
  <2> QED BY <1>1, <1>2, <2>2, GuardedClosed
<1>5. ASSUME NEW q \in Pos, RecoverReconcile(q) \/ (q # p /\ RecoverSubmit(q))
      PROVE  msg'[p]["SUBMIT"] = msg[p]["SUBMIT"]
  BY <1>1, <1>5 DEF RecoverReconcile, RecoverSubmit, Op
<1>6. \A q \in Chained : q \in Pos BY ChainElement
<1> QED BY <1>3, <1>4, <1>5, <1>6 DEF Recover

LEMMA ClaimGuarded ==
    ASSUME TypeOK, NEW w \in Workers, NEW p \in Pos, Guarded(p), Claim(w) PROVE Guarded(p)'
<1>1. /\ worker \in [Workers -> Process] /\ msg \in [Pos -> [Op -> Message]]
      /\ sent \in [Pos -> Nat] /\ sent' = sent
  BY DEF TypeOK, Claim, aeatVars
<1>2. PICK q \in Chained, op \in Op :
         /\ msg[q][op].status = "PENDING"
         /\ msg' = [msg EXCEPT ![q][op] = Claimed(@, w)]
         /\ worker' = [worker EXCEPT ![w] =
                         [IdleProcess EXCEPT !.pc = "claimed", !.pos = q, !.op = op]]
  BY DEF Claim, Claimable
<1>3. q \in Pos /\ msg[q][op] \in Message BY <1>1, ChainElement
<1>4. /\ \A v \in Workers \ {w} : worker'[v] = worker[v]
      /\ worker'[w].pc = "claimed" /\ worker'[w].pos = q /\ worker'[w].op = op
  BY <1>1, <1>2 DEF IdleProcess
<1>5. CASE q # p \/ op # "SUBMIT"
  <2>1. msg'[p]["SUBMIT"] = msg[p]["SUBMIT"] BY <1>1, <1>2, <1>5 DEF Op
  <2>2. ~ Submitting(w, p)' BY <1>4, <1>5 DEF Submitting
  <2> QED BY <1>1, <1>4, <2>1, <2>2, GuardedFrame
<1>6. CASE q = p /\ op = "SUBMIT"
  <2>1. sent[p] = 0 BY <1>1, <1>2, <1>6 DEF Guarded, Unsendable
  <2>2. \A v \in Workers : ~ Submitting(v, p) BY <1>2, <1>6 DEF Guarded, Alone
  <2>3. /\ msg'[p]["SUBMIT"].status = "CLAIMED"
        /\ msg'[p]["SUBMIT"].lease = {w}
    <3>1. msg'[p]["SUBMIT"] = Claimed(msg[p]["SUBMIT"], w) BY <1>1, <1>2, <1>6
    <3> QED BY <1>3, <1>6, <3>1 DEF Claimed, Message
  <2>4. \A v \in Workers : Submitting(v, p)' => v = w BY <1>4, <2>2 DEF Submitting
  <2> QED BY <1>1, <1>4, <2>1, <2>3, <2>4 DEF Guarded, Alone
<1> QED BY <1>5, <1>6

LEMMA ResetGuarded ==
    ASSUME TypeOK, NEW w \in Workers, NEW p \in Pos, Guarded(p),
           NothingToDo(w) \/ LoseLease(w) \/ Crash(w)
    PROVE  Guarded(p)'
<1>1. /\ worker \in [Workers -> Process] /\ worker' = [worker EXCEPT ![w] = IdleProcess]
      /\ UNCHANGED <<msg, sent>>
  BY DEF TypeOK, NothingToDo, LoseLease, Crash, dbVars, aeatVars
<1>2. \A v \in Workers : worker'[v] = worker[v] \/ ~ Submitting(v, p)'
  BY <1>1, IdleType DEF Submitting
<1> QED BY <1>1, <1>2, GuardedFrame

LEMMA FinalizeGuarded ==
    ASSUME TypeOK, NEW w \in Workers, NEW p \in Pos, Guarded(p), Finalize(w) PROVE Guarded(p)'
<1>1. /\ worker \in [Workers -> Process] /\ msg \in [Pos -> [Op -> Message]]
      /\ sent \in [Pos -> Nat] /\ sent' = sent
      /\ worker' = [worker EXCEPT ![w] = IdleProcess] /\ worker[w].pc = "answered"
      /\ worker[w].pos \in Pos
  BY ChainElement DEF TypeOK, Finalize, aeatVars
<1>2. \A v \in Workers : worker'[v] = worker[v] \/ ~ Submitting(v, p)'
  BY <1>1, IdleType DEF Submitting
<1>3. CASE worker[w].pos # p \/ worker[w].op # "SUBMIT"
  <2>1. msg'[p]["SUBMIT"] = msg[p]["SUBMIT"] BY <1>1, <1>3 DEF Finalize, Op
  <2> QED BY <1>1, <1>2, <2>1, GuardedFrame
<1>4. CASE worker[w].pos = p /\ worker[w].op = "SUBMIT"
  <2> PICK a, m : a = worker[w].answer /\ m = msg[p]["SUBMIT"] OBVIOUS
  <2>1. m \in Message BY <1>1 DEF Op
  <2>2. msg'[p]["SUBMIT"] = AfterAttempt(m, "SUBMIT", a) BY <1>1, <1>4 DEF Finalize, Op
  <2>3. \A st, e : /\ [Released(m) EXCEPT !.status = st, !.err = e].status = st
                   /\ [Released(m) EXCEPT !.status = st, !.err = e].err = e
    BY <2>1 DEF Released, Message
  <2>4. Alone(w, p) BY <1>1, <1>4 DEF Guarded, Submitting
  <2>5. CASE a.outcome \in Terminal \/ a.outcome = "UNKNOWN"
    <3>1. msg'[p]["SUBMIT"].status = "PROCESSED" BY <2>2, <2>3, <2>5 DEF AfterAttempt, Closed
    <3> QED BY <1>1, <1>2, <3>1, GuardedClosed
  <2>6. CASE ~ (a.outcome \in Terminal \/ a.outcome = "UNKNOWN")
    <3>1. \A v \in Workers : ~ Submitting(v, p)' BY <1>1, <1>2, <2>4, IdleType DEF Alone, Submitting
    <3>2. CASE sent[p] = 0 BY <1>1, <3>1, <3>2, GuardedFresh
    <3>3. CASE sent[p] > 0
      <4>1. a.fate = "DEAD" /\ a.err # "credential"
        <5>1. a.outcome \in Outcome BY <1>1 DEF Process, Answer
        <5> QED BY <1>1, <2>4, <2>6, <3>3, <5>1 DEF Alone, Outcome
      <4>2. AfterAttempt(m, "SUBMIT", a) = [Released(m) EXCEPT !.status = "DEAD", !.err = a.err]
        BY <2>6, <4>1 DEF AfterAttempt
      <4>3. msg'[p]["SUBMIT"].status = "DEAD" /\ msg'[p]["SUBMIT"].err # "credential"
        <5>1. msg'[p]["SUBMIT"] = [Released(m) EXCEPT !.status = "DEAD", !.err = a.err]
          BY <2>2, <4>2
        <5>2. msg'[p]["SUBMIT"].status = "DEAD" BY <2>3, <5>1
        <5>3. msg'[p]["SUBMIT"].err = a.err BY <2>3, <5>1
        <5> QED BY <4>1, <5>2, <5>3
      <4> QED BY <1>1, <3>1, <3>3, <4>3 DEF Guarded, Unsendable
    <3> QED BY <1>1, <3>2, <3>3
  <2> QED BY <2>5, <2>6
<1> QED BY <1>3, <1>4

LEMMA InterventionGuarded ==
    ASSUME TypeOK, NEW p \in Pos, Guarded(p), NEW q \in Chained,
           TurnIntoReconcile(q) \/ \E op \in Op : Reactivate(q, op) \/ RunOutLease(q, op)
    PROVE  Guarded(p)'
<1>1. /\ msg \in [Pos -> [Op -> Message]] /\ sent \in [Pos -> Nat] /\ q \in Pos
      /\ UNCHANGED <<worker, sent>>
  BY ChainElement DEF TypeOK, TurnIntoReconcile, Reactivate, RunOutLease, aeatVars
<1>2. msg[p]["SUBMIT"] \in Message BY <1>1 DEF Op
<1>3. CASE TurnIntoReconcile(q)
  <2>1. CASE q # p
    <3>1. msg'[p] = msg[p] BY <1>1, <1>3, <2>1 DEF TurnIntoReconcile
    <3> QED BY <1>1, <3>1, GuardedFrame
  <2>2. CASE q = p
    <3>1. msg'[p]["SUBMIT"].status = "PROCESSED"
      BY <1>1, <1>2, <1>3, <2>2 DEF TurnIntoReconcile, Released, Message, Op
    <3> QED BY <1>1, <3>1, GuardedClosed
  <2> QED BY <2>1, <2>2
<1>4. ASSUME NEW op \in Op, Reactivate(q, op) PROVE Guarded(p)'
  <2>1. CASE q # p \/ op # "SUBMIT"
    <3>1. msg'[p]["SUBMIT"] = msg[p]["SUBMIT"] BY <1>1, <1>4, <2>1 DEF Reactivate, Op
    <3> QED BY <1>1, <3>1, GuardedFrame
  <2>2. CASE q = p /\ op = "SUBMIT"
    <3>1. msg[p]["SUBMIT"].status = "DEAD" /\ msg[p]["SUBMIT"].err = "credential"
      BY <1>4, <2>2 DEF Reactivate, Action
    <3>2. sent[p] = 0 BY <1>1, <3>1 DEF Guarded, Unsendable
    <3>3. \A v \in Workers : ~ Submitting(v, p)' BY <1>1, <3>1 DEF Guarded, Alone, Submitting
    <3> QED BY <1>1, <3>2, <3>3, GuardedFresh
  <2> QED BY <2>1, <2>2
<1>5. ASSUME NEW op \in Op, RunOutLease(q, op) PROVE Guarded(p)'
  <2>1. \/ msg'[p]["SUBMIT"] = msg[p]["SUBMIT"]
        \/ msg'[p]["SUBMIT"] = [msg[p]["SUBMIT"] EXCEPT !.late = TRUE]
    <3>1. msg' = [msg EXCEPT ![q][op] = [msg[q][op] EXCEPT !.late = TRUE]]
      BY <1>5 DEF RunOutLease
    <3>2. CASE q = p /\ op = "SUBMIT" BY <1>1, <3>1, <3>2
    <3>3. CASE q # p \/ op # "SUBMIT" BY <1>1, <3>1, <3>3 DEF Op
    <3> QED BY <3>2, <3>3
  <2>2. /\ msg'[p]["SUBMIT"].status = msg[p]["SUBMIT"].status
        /\ msg'[p]["SUBMIT"].lease = msg[p]["SUBMIT"].lease
        /\ msg'[p]["SUBMIT"].err = msg[p]["SUBMIT"].err
    BY <1>2, <2>1 DEF Message
  <2> QED BY <1>1, <2>2, GuardedFrame
<1> QED BY <1>3, <1>4, <1>5

LEMMA ClerkGuarded ==
    ASSUME TypeOK, BlankBeyond, NEW p \in Pos, Guarded(p), ClerkNext PROVE Guarded(p)'
<1>1. /\ chain \in Seq(Record) /\ Len(chain) \in Nat /\ msg \in [Pos -> [Op -> Message]]
      /\ UNCHANGED <<worker, sent>>
  <2>1. chain \in Seq(Record) /\ msg \in [Pos -> [Op -> Message]] BY DEF TypeOK
  <2>2. UNCHANGED <<worker, sent>>
    BY DEF ClerkNext, Issue, Rectify, PrepareCancellation, PrepareCorrection, Prepare,
           ReadHead, CommitCancellation, CommitCorrection, CommitSuccessor, GiveUp,
           VoidTechnically, aeatVars
  <2> QED BY <2>1, <2>2
<1>2. CASE UNCHANGED msg BY <1>1, <1>2, GuardedFrame
<1>3. ASSUME NEW type, NEW i, NEW t, NEW over, Extend(type, i, t, over) PROVE Guarded(p)'
  <2>1. msg' = [msg EXCEPT ![Len(chain) + 1]["SUBMIT"] = NewMessage] BY <1>3 DEF Extend
  <2>2. CASE p = Len(chain) + 1
    <3>1. p \notin Chained BY <1>1, <2>2 DEF Chained
    <3>2. sent[p] = 0 BY <3>1 DEF BlankBeyond, Blank
    <3>3. \A v \in Workers : ~ Submitting(v, p) BY <3>1 DEF TypeOK, Submitting
    <3> QED BY <1>1, <3>2, <3>3, GuardedFresh DEF Submitting
  <2>3. CASE p # Len(chain) + 1
    <3>1. msg'[p] = msg[p] BY <1>1, <2>1, <2>3
    <3> QED BY <1>1, <3>1, GuardedFrame
  <2> QED BY <2>2, <2>3
<1> QED
  BY <1>2, <1>3 DEF ClerkNext, Issue, Rectify, PrepareCancellation, PrepareCorrection,
       Prepare, ReadHead, CommitCancellation, CommitCorrection, CommitSuccessor, GiveUp,
       VoidTechnically, dbVars

LEMMA SubmissionStep == TypeOK /\ SubmissionInv /\ [Next]_vars => SubmissionInv'
<1> SUFFICES ASSUME TypeOK, SubmissionInv, [Next]_vars PROVE SubmissionInv' OBVIOUS
<1>1. BlankBeyond' BY BlankStep DEF SubmissionInv
<1>2. ASSUME NEW p \in Pos PROVE Guarded(p)'
  <2>1. BlankBeyond /\ Guarded(p) BY DEF SubmissionInv
  <2>2. CASE ClerkNext BY <2>1, <2>2, ClerkGuarded
  <2>3. ASSUME NEW w \in Workers, WorkerNext(w) \/ Crash(w) PROVE Guarded(p)'
    <3>1. CASE Recover(w) BY <2>1, <3>1, RecoverGuarded
    <3>2. CASE Claim(w) BY <2>1, <3>2, ClaimGuarded
    <3>3. CASE NothingToDo(w) \/ LoseLease(w) \/ Crash(w) BY <2>1, <3>3, ResetGuarded
    <3>4. CASE FailUnsent(w) \/ ReceiveAnswer(w) \/ Query(w) BY <2>1, <3>4, AnsweredGuarded
    <3>5. CASE Send(w) BY <2>1, <3>5, SendGuarded
    <3>6. CASE Finalize(w) BY <2>1, <3>6, FinalizeGuarded
    <3> QED BY <2>3, <3>1, <3>2, <3>3, <3>4, <3>5, <3>6 DEF WorkerNext
  <2>4. ASSUME NEW q \in Chained,
               TurnIntoReconcile(q) \/ \E op \in Op : Reactivate(q, op) \/ RunOutLease(q, op)
        PROVE  Guarded(p)'
    BY <2>1, <2>4, InterventionGuarded
  <2>5. CASE SwitchMaintenance \/ AeatNext \/ UNCHANGED vars
    <3>1. UNCHANGED <<msg, sent, worker>>
      BY <2>5 DEF vars, dbVars, aeatVars, SwitchMaintenance, AeatNext, AeatJudges, LoseSubmission
    <3> QED BY <2>1, <3>1, GuardedFrame
  <2> QED BY <2>2, <2>3, <2>4, <2>5 DEF Next
<1> QED BY <1>1, <1>2 DEF SubmissionInv

LEMMA SubmissionInit == Init => OneLiveMessage /\ SubmissionInv
<1> SUFFICES ASSUME Init PROVE OneLiveMessage /\ SubmissionInv OBVIOUS
<1>1. OneLiveMessage BY DEF Init, OneLiveMessage, Chained
<1>2. BlankBeyond
  <2>1. NoMessage.status = "NONE" BY DEF NoMessage
  <2> QED BY <2>1 DEF Init, BlankBeyond, Blank
<1>3. \A p \in Pos : Guarded(p)
  <2>1. \A w \in Workers, p \in Pos : ~ Submitting(w, p) BY IdleType DEF Init, Submitting
  <2> QED BY <2>1 DEF Init, Guarded
<1> QED BY <1>1, <1>2, <1>3 DEF SubmissionInv

\* No fiscal record leaves for AEAT twice, under any number of workers, with
\* leases that expire, crashes, retries and interventions at any moment.
THEOREM NeverSentTwice == Spec => []SubmittedAtMostOnce
<1>1. TypeOK /\ SubmissionInv => SubmittedAtMostOnce
  BY DEF TypeOK, SubmissionInv, SubmittedAtMostOnce, Guarded, Unsendable
<1> QED BY <1>1, InitType, SubmissionInit, TypeStep, SubmissionStep, PTL DEF Spec

\* A record without final answer has exactly one message that is pending,
\* claimed or dead; a record with one has none.
THEOREM OutboxNeverLosesARecord == Spec => []OneLiveMessage
<1>1. TypeOK /\ SubmissionInv /\ OneLiveMessage /\ [Next]_vars => OneLiveMessage'
  BY OneLiveStep DEF SubmissionInv
<1> QED BY <1>1, InitType, SubmissionInit, TypeStep, SubmissionStep, PTL DEF Spec

LEMMA StableStep ==
    ASSUME TypeOK, OneLiveMessage, [Next]_vars, NEW p \in Pos, Decided(p)
    PROVE  attempts'[p] = attempts[p]
<1>1. /\ attempts \in [Pos -> Seq(Outcome)] /\ msg \in [Pos -> [Op -> Message]]
  BY DEF TypeOK
<1>2. \A op \in Op : p \in Chained => ~ Live(p, op) BY DEF OneLiveMessage, OneLive
<1>3. CASE UNCHANGED attempts BY <1>3
<1>4. ASSUME NEW q \in Chained, RecoverSubmit(q) PROVE attempts'[p] = attempts[p]
  <2>1. q # p BY <1>2, <1>4 DEF RecoverSubmit, Expired, Live, Op
  <2> QED BY <1>1, <1>4, <2>1, ChainElement DEF RecoverSubmit
<1>5. ASSUME NEW w \in Workers, Finalize(w) PROVE attempts'[p] = attempts[p]
  <2>1. /\ worker[w].pos \in Chained /\ worker[w].op \in Op
        /\ Live(worker[w].pos, worker[w].op)
    BY <1>5 DEF TypeOK, Finalize, HoldsLease, Live, Process
  <2>2. worker[w].pos # p BY <1>2, <2>1
  <2> QED BY <1>1, <1>5, <2>1, <2>2, ChainElement DEF Finalize
<1>6. ASSUME NEW q \in Chained, TurnIntoReconcile(q) PROVE UNCHANGED attempts
  BY <1>6 DEF TurnIntoReconcile
<1> QED BY <1>3, <1>4, <1>5, <1>6, OutboxWriters DEF StaysLive

\* Once a record has its final answer no step ever writes another attempt for it.
THEOREM VerdictsAreFinal == Spec => VerdictStable
<1>1. TypeOK /\ OneLiveMessage /\ [Next]_vars =>
        [\A p \in Pos : Decided(p) => attempts'[p] = attempts[p]]_vars
  BY StableStep
<1>2. Spec => []TypeOK BY TypeCorrect
<1>3. Spec => []OneLiveMessage BY OutboxNeverLosesARecord
<1> QED BY <1>1, <1>2, <1>3, PTL DEF Spec, VerdictStable
=============================================================================
