-------------------------- MODULE FiscalCycleProofs --------------------------
(* Theorems about module FiscalCycle, for every number of years, users,      *)
(* documents, requests and transactions: first that the transactions lock in *)
(* one order, then what requests of closing and reopening say of the years,  *)
(* what a reopening leaves of the year it takes back, and that every year    *)
(* opened by a close begins with the balances the year before it ends with.  *)
EXTENDS FiscalCycle, SumTheorems, TLAPS

USE YearAssumption DEF YearAssumption
-----------------------------------------------------------------------------
(* Types of the requests, the locks and the transactions.                    *)

LEMMA StepType ==
    /\ Check \in Steps /\ Cycle \in Steps
    /\ \A n \in Documents \cup Nat, of \in {"close", "reopen", "year", "doc"} :
         Exclusive(of, n) \in Steps /\ Shared(of, n) \in Steps
BY DEF Steps, Check, Cycle, Exclusive, Shared

LEMMA IdleType == Idle \in Operations /\ Idle.kind = "none" /\ Idle.todo = <<>> /\ ~ Idle.checked
BY DEF Idle, Operations, Kinds, ReopenOperation

LEMMA NotCheck ==
    /\ Cycle # Check
    /\ \A n, of : Exclusive(of, n) # Check /\ Shared(of, n) # Check
BY DEF Check, Cycle, Exclusive, Shared

LEMMA StepsType ==
    ASSUME NEW y \in Nat, NEW c \in Nat, NEW r \in Nat
    PROVE  /\ StepsOfRequestClose(y) \in Seq(Steps)
           /\ StepsOfCancelClose(c) \in Seq(Steps)
           /\ StepsOfApproveClose(c, y) \in Seq(Steps)
           /\ StepsOfRequestReopen(c, y) \in Seq(Steps)
           /\ StepsOfApproveReopen(r, c, y) \in Seq(Steps)
           /\ StepsOfSettleReopen(r) \in Seq(Steps)
           /\ StepsOfPosting(y) \in Seq(Steps)
           /\ \A d \in Documents : StepsOfIssue(d, y) \in Seq(Steps)
           /\ StepsOfDraft(y) \in Seq(Steps)
           /\ StepsOfRemittance \in Seq(Steps)
<1>1. y \in Documents \cup Nat /\ y + 1 \in Documents \cup Nat /\ c \in Documents \cup Nat
      /\ r \in Documents \cup Nat /\ \A d \in Documents : d \in Documents \cup Nat
  OBVIOUS
<1>2. /\ Exclusive("year", y) \in Steps /\ Exclusive("year", y + 1) \in Steps
      /\ Shared("year", y) \in Steps /\ Shared("year", y + 1) \in Steps
      /\ Exclusive("close", c) \in Steps /\ Exclusive("reopen", r) \in Steps
      /\ (\A d \in Documents : Exclusive("doc", d) \in Steps) /\ Check \in Steps /\ Cycle \in Steps
  BY <1>1, StepType
<1> QED BY <1>2 DEF StepsOfRequestClose, StepsOfCancelClose, StepsOfApproveClose,
        StepsOfRequestReopen, StepsOfApproveReopen, StepsOfSettleReopen, StepsOfPosting,
        StepsOfIssue, StepsOfDraft, StepsOfRemittance

\* The locks that an operation holds when its check has passed, of those the
\* theorems rest on.
Needs(operation) ==
    CASE operation.kind = "approveClose" ->
           LET y == closes[operation.close].year IN
           {Cycle, Exclusive("close", operation.close), Exclusive("year", y), Exclusive("year", y + 1)}
      [] operation.kind = "cancelClose" -> {Exclusive("close", operation.close)}
      [] operation.kind = "approveReopen" ->
           LET y == closes[reopens[operation.reopen].close].year IN
           {Cycle, Exclusive("year", y), Exclusive("year", y + 1)}
      [] operation.kind \in {"requestReopen", "cancelReopen", "rejectReopen"} -> {Cycle}
      [] operation.kind \in {"issue", "account"} -> {Exclusive("year", operation.year)}
      [] operation.kind = "create" ->
           {Shared("year", operation.year) : d \in operation.doc \cap Invoices}
           \cup {Exclusive("year", operation.year) : d \in operation.doc \cap Entries}
           \cup {Cycle : d \in operation.doc \cap Remittances}
      [] OTHER -> {}

\* Steps in which the locks needed come before the first check.
Guards(steps, locks) ==
    \E i \in 2..Len(steps) :
        /\ steps[i] = Check
        /\ \A j \in 1..(i - 1) : steps[j] # Check
        /\ \A l \in locks : \E j \in 1..(i - 1) : steps[j] = l

LEMMA StepsGuard ==
    /\ \A y : Guards(StepsOfRequestClose(y), {})
    /\ \A c : Guards(StepsOfCancelClose(c), {Exclusive("close", c)})
    /\ \A c, y : Guards(StepsOfApproveClose(c, y),
                {Cycle, Exclusive("close", c), Exclusive("year", y), Exclusive("year", y + 1)})
    /\ \A c, y : Guards(StepsOfRequestReopen(c, y), {Cycle})
    /\ \A r, c, y : Guards(StepsOfApproveReopen(r, c, y),
                {Cycle, Exclusive("year", y), Exclusive("year", y + 1)})
    /\ \A r : Guards(StepsOfSettleReopen(r), {Cycle})
    /\ \A y : Guards(StepsOfPosting(y), {Exclusive("year", y)})
    /\ \A d, y : Guards(StepsOfIssue(d, y), {Exclusive("year", y)})
    /\ \A y : Guards(StepsOfDraft(y), {Shared("year", y)})
    /\ Guards(StepsOfRemittance, {Cycle})
<1>1. \A y : Guards(StepsOfRequestClose(y), {})
  BY NotCheck DEF Guards, StepsOfRequestClose
<1>2. \A c : Guards(StepsOfCancelClose(c), {Exclusive("close", c)})
  BY NotCheck DEF Guards, StepsOfCancelClose
<1>3. \A c, y : Guards(StepsOfApproveClose(c, y),
                {Cycle, Exclusive("close", c), Exclusive("year", y), Exclusive("year", y + 1)})
  BY NotCheck DEF Guards, StepsOfApproveClose
<1>4. \A c, y : Guards(StepsOfRequestReopen(c, y), {Cycle})
  BY NotCheck DEF Guards, StepsOfRequestReopen
<1>5. \A r, c, y : Guards(StepsOfApproveReopen(r, c, y),
                {Cycle, Exclusive("year", y), Exclusive("year", y + 1)})
  BY NotCheck DEF Guards, StepsOfApproveReopen
<1>6. \A r : Guards(StepsOfSettleReopen(r), {Cycle})
  BY NotCheck DEF Guards, StepsOfSettleReopen
<1>7. \A y : Guards(StepsOfPosting(y), {Exclusive("year", y)})
  BY NotCheck DEF Guards, StepsOfPosting
<1>8. \A d, y : Guards(StepsOfIssue(d, y), {Exclusive("year", y)})
  BY NotCheck DEF Guards, StepsOfIssue
<1>9. \A y : Guards(StepsOfDraft(y), {Shared("year", y)})
  BY NotCheck DEF Guards, StepsOfDraft
<1>10. Guards(StepsOfRemittance, {Cycle})
  BY NotCheck DEF Guards, StepsOfRemittance
<1> QED BY <1>1, <1>2, <1>3, <1>4, <1>5, <1>6, <1>7, <1>8, <1>9, <1>10

\* The order of locks: the cycle, a request of reopening, its request of
\* closing, an invoice, and then the years one after the other.
Rank(lock) ==
    CASE lock.on[1] = "cycle"  -> 0
      [] lock.on[1] = "reopen" -> 1
      [] lock.on[1] = "close"  -> 2
      [] lock.on[1] = "doc"    -> 3
      [] lock.on[1] = "year"   -> 4 + lock.on[2]
      [] OTHER -> -1

\* Locks are taken upwards, above the ones held already.
Ordered(steps, mine) ==
    /\ \A l \in mine : Rank(l) \in Nat
    /\ \A i \in 1..Len(steps) : steps[i] # Check =>
         /\ Rank(steps[i]) \in Nat
         /\ \A l \in mine : Rank(l) < Rank(steps[i])
         /\ \A j \in 1..(i - 1) : steps[j] # Check => Rank(steps[j]) < Rank(steps[i])

LEMMA RankOf ==
    /\ Rank(Cycle) = 0 /\ Rank(Check) = -1
    /\ \A n : Rank(Exclusive("reopen", n)) = 1 /\ Rank(Exclusive("close", n)) = 2
    /\ \A d : Rank(Exclusive("doc", d)) = 3
    /\ \A y \in Nat : Rank(Exclusive("year", y)) = 4 + y /\ Rank(Shared("year", y)) = 4 + y
BY DEF Rank, Cycle, Check, Exclusive, Shared

LEMMA StepsOrdered ==
    ASSUME NEW y \in Nat
    PROVE  /\ Ordered(StepsOfRequestClose(y), {})
           /\ \A c : Ordered(StepsOfCancelClose(c), {})
           /\ \A c : Ordered(StepsOfApproveClose(c, y), {})
           /\ \A c : Ordered(StepsOfRequestReopen(c, y), {})
           /\ \A r, c : Ordered(StepsOfApproveReopen(r, c, y), {})
           /\ \A r : Ordered(StepsOfSettleReopen(r), {})
           /\ Ordered(StepsOfPosting(y), {})
           /\ \A d : Ordered(StepsOfIssue(d, y), {})
           /\ Ordered(StepsOfDraft(y), {})
           /\ Ordered(StepsOfRemittance, {})
<1>1. Ordered(StepsOfRequestClose(y), {})
  BY RankOf, NotCheck DEF Ordered, StepsOfRequestClose
<1>2. \A c : Ordered(StepsOfCancelClose(c), {})
  BY RankOf, NotCheck DEF Ordered, StepsOfCancelClose
<1>3. \A c : Ordered(StepsOfApproveClose(c, y), {})
  BY RankOf, NotCheck DEF Ordered, StepsOfApproveClose
<1>4. \A c : Ordered(StepsOfRequestReopen(c, y), {})
  BY RankOf, NotCheck DEF Ordered, StepsOfRequestReopen
<1>5. \A r, c : Ordered(StepsOfApproveReopen(r, c, y), {})
  BY RankOf, NotCheck DEF Ordered, StepsOfApproveReopen
<1>6. \A r : Ordered(StepsOfSettleReopen(r), {})
  BY RankOf, NotCheck DEF Ordered, StepsOfSettleReopen
<1>7. Ordered(StepsOfPosting(y), {})
  BY RankOf, NotCheck DEF Ordered, StepsOfPosting
<1>8. \A d : Ordered(StepsOfIssue(d, y), {})
  BY RankOf, NotCheck DEF Ordered, StepsOfIssue
<1>9. Ordered(StepsOfDraft(y), {})
  BY RankOf, NotCheck DEF Ordered, StepsOfDraft
<1>10. Ordered(StepsOfRemittance, {})
  BY RankOf, NotCheck DEF Ordered, StepsOfRemittance
<1> QED BY <1>1, <1>2, <1>3, <1>4, <1>5, <1>6, <1>7, <1>8, <1>9, <1>10

\* A transaction that begins has a typed operation, whose locks come first and
\* in their order.
Begun(operation) ==
    /\ operation \in Operations
    /\ Refers(operation)
    /\ operation.todo # <<>>
    /\ ~ operation.checked
    /\ Guards(operation.todo, Needs(operation))
    /\ Ordered(operation.todo, {})

LEMMA RequestYear ==
    ASSUME CycleTypeOK, NEW c \in 1..Len(closes)
    PROVE  closes[c].year \in Years /\ closes[c].year + 1 \in Years /\ closes[c].year \in 1..(LastYear - 1)
<1>1. closes[c] \in CloseRequests BY DEF CycleTypeOK
<1>2. closes[c].year \in 1..(LastYear - 1) BY <1>1 DEF CloseRequests
<1> QED BY <1>2 DEF Years

LEMMA KindsOf ==
    {"requestClose", "cancelClose", "approveClose", "requestReopen", "approveReopen",
     "cancelReopen", "rejectReopen", "account", "create", "issue"} \subseteq Kinds
BY DEF Kinds, ReopenOperation

LEMMA BeginTyped ==
    ASSUME CycleTypeOK, NEW t \in Transactions, CanBegin(t)
    PROVE  \E operation : Begun(operation) /\ Begin(t, operation)
<1>a. \A r \in 1..Len(reopens) : reopens[r].close \in 1..Len(closes) BY DEF CycleTypeOK
<1>b. Len(closes) \in Nat /\ Len(reopens) \in Nat BY DEF CycleTypeOK
<1>1. ASSUME NEW y \in Years, NEW u \in Users, BeginRequestClose(t, y, u)
      PROVE  \E operation : Begun(operation) /\ Begin(t, operation)
  <2>a. PICK op : op = [Idle EXCEPT !.kind = "requestClose", !.year = y, !.user = u,
                                  !.todo = StepsOfRequestClose(y)]
    OBVIOUS
  <2>1. /\ y \in 0..LastYear /\ y \in Nat
        /\ u \in Users \cup {{}}
    BY <1>a, <1>b, RequestYear DEF Years, Documents
  <2>2. StepsOfRequestClose(y) \in Seq(Steps) BY <2>1, StepsType
  <2>3. "requestClose" \in Kinds BY KindsOf
  <2>4. op \in Operations /\ op.kind = "requestClose" /\ op.year = y /\ op.user = u
        /\ op.todo = StepsOfRequestClose(y) /\ op.checked = Idle.checked
    BY <2>a, <2>1, <2>2, <2>3, IdleType DEF Operations
  <2>5. Needs(op) = {}
    BY <2>4 DEF Needs
  <2>6. Guards(op.todo, Needs(op)) /\ Ordered(op.todo, {})
    <3>1. Guards(op.todo, Needs(op)) BY <2>4, <2>5, StepsGuard
    <3>2. Ordered(op.todo, {}) BY <2>1, <2>4, StepsOrdered
    <3> QED BY <3>1, <3>2
  <2>7. Begun(op) BY <1>1, <2>1, <2>4, <2>6, IdleType DEF BeginRequestClose, Years, Begun, Refers, StepsOfRequestClose
  <2>8. Begin(t, op) BY <1>1, <2>a DEF BeginRequestClose
  <2> QED BY <2>7, <2>8
<1>2. ASSUME NEW u \in Users, NEW c \in 1..Len(closes), BeginCancelClose(t, c, u)
      PROVE  \E operation : Begun(operation) /\ Begin(t, operation)
  <2>a. PICK op : op = [Idle EXCEPT !.kind = "cancelClose", !.close = c, !.user = u,
                                  !.todo = StepsOfCancelClose(c)]
    OBVIOUS
  <2>1. /\ u \in Users \cup {{}}
        /\ c \in Nat /\ closes[c].year \in Nat
    BY <1>a, <1>b, RequestYear DEF Years, Documents
  <2>2. StepsOfCancelClose(c) \in Seq(Steps) BY <2>1, StepsType
  <2>3. "cancelClose" \in Kinds BY KindsOf
  <2>4. op \in Operations /\ op.kind = "cancelClose" /\ op.close = c
        /\ op.todo = StepsOfCancelClose(c) /\ op.checked = Idle.checked
    BY <2>a, <2>1, <2>2, <2>3, IdleType DEF Operations
  <2>5. Needs(op) = {Exclusive("close", c)}
    BY <2>4 DEF Needs
  <2>6. Guards(op.todo, Needs(op)) /\ Ordered(op.todo, {})
    <3>1. Guards(op.todo, Needs(op)) BY <2>4, <2>5, StepsGuard
    <3>2. Ordered(op.todo, {}) BY <2>1, <2>4, StepsOrdered
    <3> QED BY <3>1, <3>2
  <2>7. Begun(op) BY <1>2, <2>1, <2>4, <2>6, IdleType DEF Begun, Refers, StepsOfCancelClose
  <2>8. Begin(t, op) BY <1>2, <2>a DEF BeginCancelClose
  <2> QED BY <2>7, <2>8
<1>3. ASSUME NEW u \in Users, NEW c \in 1..Len(closes), BeginApproveClose(t, c, u)
      PROVE  \E operation : Begun(operation) /\ Begin(t, operation)
  <2>a. PICK op : op = [Idle EXCEPT !.kind = "approveClose", !.close = c, !.user = u,
                                  !.todo = StepsOfApproveClose(c, closes[c].year)]
    OBVIOUS
  <2>1. /\ u \in Users \cup {{}}
        /\ c \in Nat /\ closes[c].year \in Nat
    BY <1>a, <1>b, RequestYear DEF Years, Documents
  <2>2. StepsOfApproveClose(c, closes[c].year) \in Seq(Steps) BY <2>1, StepsType
  <2>3. "approveClose" \in Kinds BY KindsOf
  <2>4. op \in Operations /\ op.kind = "approveClose" /\ op.close = c
        /\ op.todo = StepsOfApproveClose(c, closes[c].year) /\ op.checked = Idle.checked
    BY <2>a, <2>1, <2>2, <2>3, IdleType DEF Operations
  <2>5. Needs(op) = {Cycle, Exclusive("close", c), Exclusive("year", closes[c].year),
                    Exclusive("year", closes[c].year + 1)}
    BY <2>4 DEF Needs
  <2>6. Guards(op.todo, Needs(op)) /\ Ordered(op.todo, {})
    <3>1. Guards(op.todo, Needs(op)) BY <2>4, <2>5, StepsGuard
    <3>2. Ordered(op.todo, {}) BY <2>1, <2>4, StepsOrdered
    <3> QED BY <3>1, <3>2
  <2>7. Begun(op) BY <1>3, <2>1, <2>4, <2>6, IdleType DEF Begun, Refers, StepsOfApproveClose
  <2>8. Begin(t, op) BY <1>3, <2>a DEF BeginApproveClose
  <2> QED BY <2>7, <2>8
<1>4. ASSUME NEW u \in Users, NEW c \in 1..Len(closes), BeginRequestReopen(t, c, u)
      PROVE  \E operation : Begun(operation) /\ Begin(t, operation)
  <2>a. PICK op : op = [Idle EXCEPT !.kind = "requestReopen", !.close = c, !.user = u,
                                  !.todo = StepsOfRequestReopen(c, closes[c].year)]
    OBVIOUS
  <2>1. /\ u \in Users \cup {{}}
        /\ c \in Nat /\ closes[c].year \in Nat
    BY <1>a, <1>b, RequestYear DEF Years, Documents
  <2>2. StepsOfRequestReopen(c, closes[c].year) \in Seq(Steps) BY <2>1, StepsType
  <2>3. "requestReopen" \in Kinds BY KindsOf
  <2>4. op \in Operations /\ op.kind = "requestReopen" /\ op.close = c /\ op.user = u
        /\ op.todo = StepsOfRequestReopen(c, closes[c].year) /\ op.checked = Idle.checked
    BY <2>a, <2>1, <2>2, <2>3, IdleType DEF Operations
  <2>5. Needs(op) = {Cycle}
    BY <2>4 DEF Needs
  <2>6. Guards(op.todo, Needs(op)) /\ Ordered(op.todo, {})
    <3>1. \A y, k : Guards(StepsOfRequestReopen(k, y), {Cycle}) BY StepsGuard
    <3>2. Guards(op.todo, Needs(op)) BY <2>4, <2>5, <3>1
    <3>3. Ordered(op.todo, {}) BY <2>1, <2>4, StepsOrdered
    <3> QED BY <3>2, <3>3
  <2>7. Begun(op) BY <1>4, <2>1, <2>4, <2>6, IdleType DEF Begun, Refers, StepsOfRequestReopen
  <2>8. Begin(t, op) BY <1>4, <2>a DEF BeginRequestReopen
  <2> QED BY <2>7, <2>8
<1>5. ASSUME NEW u \in Users, NEW r \in 1..Len(reopens), BeginApproveReopen(t, r, u)
      PROVE  \E operation : Begun(operation) /\ Begin(t, operation)
  <2>a. PICK op : op = [Idle EXCEPT !.kind = "approveReopen", !.close = reopens[r].close, !.reopen = r, !.user = u,
                                  !.todo = StepsOfApproveReopen(r, reopens[r].close, closes[reopens[r].close].year)]
    OBVIOUS
  <2>1. /\ u \in Users \cup {{}}
        /\ r \in Nat
        /\ reopens[r].close \in 1..Len(closes) /\ reopens[r].close \in Nat
        /\ closes[reopens[r].close].year \in Nat
    BY <1>a, <1>b, RequestYear DEF Years, Documents
  <2>2. StepsOfApproveReopen(r, reopens[r].close, closes[reopens[r].close].year) \in Seq(Steps) BY <2>1, StepsType
  <2>3. "approveReopen" \in Kinds BY KindsOf
  <2>4. op \in Operations /\ op.kind = "approveReopen" /\ op.close = reopens[r].close /\ op.reopen = r
        /\ op.todo = StepsOfApproveReopen(r, reopens[r].close, closes[reopens[r].close].year) /\ op.checked = Idle.checked
    BY <2>a, <2>1, <2>2, <2>3, IdleType DEF Operations
  <2>5. Needs(op) = {Cycle, Exclusive("year", closes[reopens[r].close].year),
                          Exclusive("year", closes[reopens[r].close].year + 1)}
    BY <2>4 DEF Needs
  <2>6. Guards(op.todo, Needs(op)) /\ Ordered(op.todo, {})
    <3>1. Guards(op.todo, Needs(op)) BY <2>4, <2>5, StepsGuard
    <3>2. Ordered(op.todo, {}) BY <2>1, <2>4, StepsOrdered
    <3> QED BY <3>1, <3>2
  <2>7. Begun(op) BY <1>5, <2>1, <2>4, <2>6, IdleType DEF Begun, Refers, StepsOfApproveReopen
  <2>8. Begin(t, op) BY <1>5, <2>a DEF BeginApproveReopen
  <2> QED BY <2>7, <2>8
<1>6. ASSUME NEW u \in Users, NEW r \in 1..Len(reopens), BeginCancelReopen(t, r, u)
      PROVE  \E operation : Begun(operation) /\ Begin(t, operation)
  <2>a. PICK op : op = [Idle EXCEPT !.kind = "cancelReopen", !.reopen = r, !.user = u,
                                  !.todo = StepsOfSettleReopen(r)]
    OBVIOUS
  <2>1. /\ u \in Users \cup {{}}
        /\ r \in Nat /\ 0 \in Nat
    BY <1>a, <1>b, RequestYear DEF Years, Documents
  <2>2. StepsOfSettleReopen(r) \in Seq(Steps) BY <2>1, StepsType
  <2>3. "cancelReopen" \in Kinds BY KindsOf
  <2>4. op \in Operations /\ op.kind = "cancelReopen" /\ op.reopen = r
        /\ op.todo = StepsOfSettleReopen(r) /\ op.checked = Idle.checked
    BY <2>a, <2>1, <2>2, <2>3, IdleType DEF Operations
  <2>5. Needs(op) = {Cycle}
    BY <2>4 DEF Needs
  <2>6. Guards(op.todo, Needs(op)) /\ Ordered(op.todo, {})
    <3>1. Guards(op.todo, Needs(op)) BY <2>4, <2>5, StepsGuard
    <3>2. Ordered(op.todo, {}) BY <2>1, <2>4, StepsOrdered
    <3> QED BY <3>1, <3>2
  <2>7. Begun(op) BY <1>6, <2>1, <2>4, <2>6, IdleType DEF Begun, Refers, StepsOfSettleReopen
  <2>8. Begin(t, op) BY <1>6, <2>a DEF BeginCancelReopen
  <2> QED BY <2>7, <2>8
<1>7. ASSUME NEW u \in Users, NEW r \in 1..Len(reopens), BeginRejectReopen(t, r, u)
      PROVE  \E operation : Begun(operation) /\ Begin(t, operation)
  <2>a. PICK op : op = [Idle EXCEPT !.kind = "rejectReopen", !.reopen = r, !.user = u,
                                  !.todo = StepsOfSettleReopen(r)]
    OBVIOUS
  <2>1. /\ u \in Users \cup {{}}
        /\ r \in Nat /\ 0 \in Nat
    BY <1>a, <1>b, RequestYear DEF Years, Documents
  <2>2. StepsOfSettleReopen(r) \in Seq(Steps) BY <2>1, StepsType
  <2>3. "rejectReopen" \in Kinds BY KindsOf
  <2>4. op \in Operations /\ op.kind = "rejectReopen" /\ op.reopen = r
        /\ op.todo = StepsOfSettleReopen(r) /\ op.checked = Idle.checked
    BY <2>a, <2>1, <2>2, <2>3, IdleType DEF Operations
  <2>5. Needs(op) = {Cycle}
    BY <2>4 DEF Needs
  <2>6. Guards(op.todo, Needs(op)) /\ Ordered(op.todo, {})
    <3>1. Guards(op.todo, Needs(op)) BY <2>4, <2>5, StepsGuard
    <3>2. Ordered(op.todo, {}) BY <2>1, <2>4, StepsOrdered
    <3> QED BY <3>1, <3>2
  <2>7. Begun(op) BY <1>7, <2>1, <2>4, <2>6, IdleType DEF Begun, Refers, StepsOfSettleReopen
  <2>8. Begin(t, op) BY <1>7, <2>a DEF BeginRejectReopen
  <2> QED BY <2>7, <2>8
<1>8. ASSUME NEW y \in Years, BeginOpenAccount(t, y)
      PROVE  \E operation : Begun(operation) /\ Begin(t, operation)
  <2>a. PICK op : op = [Idle EXCEPT !.kind = "account", !.year = y,
                                  !.todo = StepsOfPosting(y)]
    OBVIOUS
  <2>1. /\ y \in 0..LastYear /\ y \in Nat
    BY <1>a, <1>b, RequestYear DEF Years, Documents
  <2>2. StepsOfPosting(y) \in Seq(Steps) BY <2>1, StepsType
  <2>3. "account" \in Kinds BY KindsOf
  <2>4. op \in Operations /\ op.kind = "account" /\ op.year = y
        /\ op.todo = StepsOfPosting(y) /\ op.checked = Idle.checked
    BY <2>a, <2>1, <2>2, <2>3, IdleType DEF Operations
  <2>5. Needs(op) = {Exclusive("year", y)}
    BY <2>4 DEF Needs
  <2>6. Guards(op.todo, Needs(op)) /\ Ordered(op.todo, {})
    <3>1. Guards(op.todo, Needs(op)) BY <2>4, <2>5, StepsGuard
    <3>2. Ordered(op.todo, {}) BY <2>1, <2>4, StepsOrdered
    <3> QED BY <3>1, <3>2
  <2>7. Begun(op) BY <1>8, <2>1, <2>4, <2>6, IdleType DEF Begun, Refers, StepsOfPosting
  <2>8. Begin(t, op) BY <1>8, <2>a DEF BeginOpenAccount
  <2> QED BY <2>7, <2>8
<1>9. ASSUME NEW y \in Years, NEW d \in Invoices, BeginIssue(t, d, y)
      PROVE  \E operation : Begun(operation) /\ Begin(t, operation)
  <2>a. PICK op : op = [Idle EXCEPT !.kind = "issue", !.year = y, !.doc = {d},
                                  !.todo = StepsOfIssue(d, y)]
    OBVIOUS
  <2>1. /\ y \in 0..LastYear /\ y \in Nat
        /\ {d} \in SUBSET Documents /\ d \in Documents
    BY <1>a, <1>b, RequestYear DEF Years, Documents
  <2>2. StepsOfIssue(d, y) \in Seq(Steps) BY <2>1, StepsType
  <2>3. "issue" \in Kinds BY KindsOf
  <2>4. op \in Operations /\ op.kind = "issue" /\ op.year = y /\ op.doc = {d}
        /\ op.todo = StepsOfIssue(d, y) /\ op.checked = Idle.checked
    BY <2>a, <2>1, <2>2, <2>3, IdleType DEF Operations
  <2>5. Needs(op) = {Exclusive("year", y)}
    BY <2>4 DEF Needs
  <2>6. Guards(op.todo, Needs(op)) /\ Ordered(op.todo, {})
    <3>1. Guards(op.todo, Needs(op)) BY <2>4, <2>5, StepsGuard
    <3>2. Ordered(op.todo, {}) BY <2>1, <2>4, StepsOrdered
    <3> QED BY <3>1, <3>2
  <2>7. Begun(op) BY <1>9, <2>1, <2>4, <2>6, IdleType DEF Begun, Refers, StepsOfIssue
  <2>8. Begin(t, op) BY <1>9, <2>a DEF BeginIssue
  <2> QED BY <2>7, <2>8
<1>10. ASSUME NEW y \in Years, NEW d \in Documents, BeginCreate(t, d, y)
      PROVE  \E operation : Begun(operation) /\ Begin(t, operation)
  <2>b. PICK steps : steps = CASE d \in Invoices -> StepsOfDraft(y)
                             [] d \in Remittances -> StepsOfRemittance
                             [] d \in Entries -> StepsOfPosting(y)
    OBVIOUS
  <2>a. PICK op : op = [Idle EXCEPT !.kind = "create", !.year = y, !.doc = {d}, !.todo = steps]
    OBVIOUS
  <2>1. y \in 0..LastYear /\ y \in Nat /\ {d} \in SUBSET Documents BY DEF Years
  <2>2. steps \in {StepsOfDraft(y), StepsOfRemittance, StepsOfPosting(y)} BY <2>b DEF Documents
  <2>3. steps \in Seq(Steps) BY <2>1, <2>2, StepsType
  <2>4. steps # <<>> BY <2>2 DEF StepsOfDraft, StepsOfRemittance, StepsOfPosting
  <2>5. "create" \in Kinds BY KindsOf
  <2>6. op \in Operations /\ op.kind = "create" /\ op.year = y /\ op.doc = {d}
        /\ op.todo = steps /\ op.checked = Idle.checked
    BY <2>a, <2>1, <2>3, <2>5, IdleType DEF Operations
  <2>7. Guards(op.todo, Needs(op))
    <3>1. CASE d \in Invoices
      <4>1. steps = StepsOfDraft(y) BY <2>b, <3>1, DocumentAssumption DEF DocumentAssumption
      <4>2. Needs(op) = {Shared("year", y)}
        BY <2>6, <3>1, DocumentAssumption DEF Needs, DocumentAssumption
      <4> QED BY <2>6, <4>1, <4>2, StepsGuard
    <3>2. CASE d \in Entries
      <4>1. steps = StepsOfPosting(y) BY <2>b, <3>2, DocumentAssumption DEF DocumentAssumption
      <4>2. Needs(op) = {Exclusive("year", y)}
        BY <2>6, <3>2, DocumentAssumption DEF Needs, DocumentAssumption
      <4> QED BY <2>6, <4>1, <4>2, StepsGuard
    <3>3. CASE d \in Remittances
      <4>1. steps = StepsOfRemittance BY <2>b, <3>3, DocumentAssumption DEF DocumentAssumption
      <4>2. Needs(op) = {Cycle}
        BY <2>6, <3>3, DocumentAssumption DEF Needs, DocumentAssumption
      <4> QED BY <2>6, <4>1, <4>2, StepsGuard
    <3> QED BY <3>1, <3>2, <3>3 DEF Documents
  <2>c. Ordered(op.todo, {}) BY <2>1, <2>2, <2>6, StepsOrdered
  <2>8. Begun(op) BY <2>4, <2>6, <2>7, <2>c, IdleType DEF Begun, Refers
  <2>9. Begin(t, op) BY <1>10, <2>a, <2>b DEF BeginCreate
  <2> QED BY <2>8, <2>9
<1> QED BY <1>1, <1>2, <1>3, <1>4, <1>5, <1>6, <1>7, <1>8, <1>9, <1>10 DEF CanBegin
-----------------------------------------------------------------------------
(* What a step does to locks and transactions.                              *)

LEMMA Ends ==
    ASSUME CycleTypeOK, NEW t \in Transactions, End(t)
    PROVE  /\ held' \in [Transactions -> SUBSET Steps] /\ held'[t] = {}
           /\ tx' \in [Transactions -> Operations] /\ tx'[t] = Idle
           /\ \A u \in Transactions \ {t} : tx'[u] = tx[u] /\ held'[u] = held[u]
BY IdleType DEF CycleTypeOK, End

\* Two operations that differ only in what is left to do of them.
Same(a, b) ==
    /\ a.kind = b.kind /\ a.year = b.year /\ a.close = b.close /\ a.reopen = b.reopen
    /\ a.user = b.user /\ a.doc = b.doc

LEMMA Begins ==
    ASSUME CycleTypeOK, NEW t \in Transactions, NEW op, Begun(op), Begin(t, op)
    PROVE  /\ held' \in [Transactions -> SUBSET Steps] /\ held'[t] = {Head(op.todo)}
           /\ tx' \in [Transactions -> Operations]
           /\ Same(tx'[t], op) /\ tx'[t].todo = Tail(op.todo) /\ tx'[t].checked = FALSE
           /\ \A u \in Transactions \ {t} : tx'[u] = tx[u] /\ held'[u] = held[u]
           /\ Free(t, Head(op.todo)) /\ UNCHANGED records
<1>1. op \in Operations /\ op.todo \in Seq(Steps) /\ op.todo # <<>> /\ op.checked = FALSE
  BY DEF Begun, Operations
<1>2. Head(op.todo) \in Steps /\ Tail(op.todo) \in Seq(Steps) BY <1>1
<1>3. PICK x : x = [op EXCEPT !.todo = Tail(op.todo)] OBVIOUS
<1>4. x \in Operations /\ Same(x, op) /\ x.todo = Tail(op.todo) /\ x.checked = op.checked
  BY <1>1, <1>2, <1>3 DEF Operations, Same
<1>5. tx' = [tx EXCEPT ![t] = x] BY <1>3 DEF Begin
<1>6. held' = [held EXCEPT ![t] = {Head(op.todo)}] BY DEF Begin
<1>7. held \in [Transactions -> SUBSET Steps] /\ tx \in [Transactions -> Operations]
  BY DEF CycleTypeOK
<1>8. Free(t, Head(op.todo)) /\ UNCHANGED records BY DEF Begin
<1> QED BY <1>1, <1>2, <1>4, <1>5, <1>6, <1>7, <1>8

LEMMA Locks ==
    ASSUME CycleTypeOK, NEW t \in Transactions, Lock(t)
    PROVE  /\ held' \in [Transactions -> SUBSET Steps]
           /\ held'[t] = held[t] \cup {Head(tx[t].todo)}
           /\ tx' \in [Transactions -> Operations]
           /\ Same(tx'[t], tx[t]) /\ tx'[t].checked = tx[t].checked
           /\ tx[t].todo \in Seq(Steps) /\ tx[t].todo # <<>> /\ Head(tx[t].todo) # Check
           /\ tx'[t].todo = Tail(tx[t].todo)
           /\ \A u \in Transactions \ {t} : tx'[u] = tx[u] /\ held'[u] = held[u]
           /\ Free(t, Head(tx[t].todo)) /\ UNCHANGED records
<1>1. tx[t] \in Operations /\ tx[t].todo \in Seq(Steps) BY DEF CycleTypeOK, Operations
<1>2. tx[t].todo # <<>> /\ Head(tx[t].todo) # Check /\ Free(t, Head(tx[t].todo))
      /\ UNCHANGED records
  BY DEF Lock, Busy, Pending
<1>3. Head(tx[t].todo) \in Steps /\ Tail(tx[t].todo) \in Seq(Steps) BY <1>1, <1>2
<1>4. PICK x : x = [tx[t] EXCEPT !.todo = Tail(tx[t].todo)] OBVIOUS
<1>5. x \in Operations /\ Same(x, tx[t]) /\ x.checked = tx[t].checked
      /\ x.todo = Tail(tx[t].todo)
  BY <1>1, <1>3, <1>4 DEF Operations, Same
<1>6. tx' = [tx EXCEPT ![t] = x] BY <1>4 DEF Lock
<1>7. held' = [held EXCEPT ![t] = held[t] \cup {Head(tx[t].todo)}] BY DEF Lock, Pending
<1>8. held \in [Transactions -> SUBSET Steps] /\ tx \in [Transactions -> Operations]
  BY DEF CycleTypeOK
<1> QED BY <1>1, <1>2, <1>3, <1>5, <1>6, <1>7, <1>8

LEMMA Passes ==
    ASSUME CycleTypeOK, NEW t \in Transactions, CheckOrRefuse(t), Admissible(t, reopens')
    PROVE  /\ held' = held /\ tx' \in [Transactions -> Operations]
           /\ Same(tx'[t], tx[t]) /\ tx'[t].checked
           /\ \A u \in Transactions \ {t} : tx'[u] = tx[u]
<1>1. tx[t] \in Operations /\ tx[t].todo \in Seq(Steps) BY DEF CycleTypeOK, Operations
<1>2. tx[t].todo # <<>> BY DEF CheckOrRefuse, Busy
<1>3. Tail(tx[t].todo) \in Seq(Steps) BY <1>1, <1>2
<1>4. PICK x : x = [tx[t] EXCEPT !.todo = Tail(tx[t].todo), !.checked = TRUE] OBVIOUS
<1>5. x \in Operations /\ Same(x, tx[t]) /\ x.checked = TRUE
  BY <1>1, <1>3, <1>4 DEF Operations, Same
<1>6. tx' = [tx EXCEPT ![t] = x] /\ held' = held BY <1>4 DEF CheckOrRefuse
<1>7. tx \in [Transactions -> Operations] BY DEF CycleTypeOK
<1> QED BY <1>5, <1>6, <1>7

LEMMA CommitEnds ==
    ASSUME NEW t \in Transactions, Fail(t) \/ Commit(t)
    PROVE  End(t)
BY DEF Fail, Commit, Committing, CommitRequestClose, CommitCancelClose, CommitApproveClose,
    CommitRequestReopen, CommitApproveReopen, CommitSettleReopen, CommitOpenAccount,
    CommitCreate, CommitIssue

\* Every step is one of a transaction, or leaves all of them as they are.
LEMMA StepOfOne ==
    ASSUME CycleTypeOK, [Next]_vars
    PROVE  \/ UNCHANGED <<held, tx>>
           \/ \E t \in Transactions :
                \/ \E op : Begun(op) /\ Begin(t, op)
                \/ Lock(t)
                \/ CheckOrRefuse(t) /\ Admissible(t, reopens')
                \/ End(t)
<1>1. CASE UNCHANGED vars BY <1>1 DEF vars
<1>2. CASE CreateInitialYear \/ ListReopens BY <1>2 DEF CreateInitialYear, ListReopens
<1>3. ASSUME NEW d \in Invoices, NEW from, NEW to, FiscalStatusChanges(d, from, to)
      PROVE  UNCHANGED <<held, tx>>
  BY <1>3 DEF FiscalStatusChanges
<1>4. ASSUME NEW t \in Transactions, CheckOrRefuse(t), ~ Admissible(t, reopens')
      PROVE  End(t)
  BY <1>4 DEF CheckOrRefuse
<1> QED BY <1>1, <1>2, <1>3, <1>4, BeginTyped, CommitEnds DEF Next
-----------------------------------------------------------------------------
(* What a step does to years, requests and ledgers.                          *)

\* The ledgers are sequences; what amounts they hold is not needed here.
IsSequence(s) == \E S : s \in Seq(S)
AtMostOne(e) == e = <<>> \/ \E x : e = <<x>>
LedgersOK == DOMAIN ledger = Years /\ \A y \in Years : IsSequence(ledger[y])

LEMMA Extended ==
    ASSUME NEW s, NEW e, IsSequence(s), AtMostOne(e)
    PROVE  IsSequence(s \o e) /\ Len(s) \in Nat /\ Len(s) <= Len(s \o e)
           /\ \A p \in 1..Len(s) : (s \o e)[p] = s[p]
<1>1. PICK S : s \in Seq(S) BY DEF IsSequence
<1>2. CASE e = <<>>
  <2>1. s \o e = s BY <1>1, <1>2
  <2> QED BY <1>1, <2>1 DEF IsSequence
<1>3. ASSUME NEW x, e = <<x>> PROVE IsSequence(s \o e) /\ Len(s) <= Len(s \o e)
           /\ \A p \in 1..Len(s) : (s \o e)[p] = s[p]
  <2>1. s \in Seq(S \cup {x}) /\ e \in Seq(S \cup {x}) BY <1>1, <1>3
  <2>2. s \o e \in Seq(S \cup {x}) BY <2>1
  <2>3. Len(s) <= Len(s \o e) /\ \A p \in 1..Len(s) : (s \o e)[p] = s[p]
    BY <1>1, <1>3, <2>1
  <2> QED BY <2>2, <2>3 DEF IsSequence
<1> QED BY <1>1, <1>2, <1>3 DEF AtMostOne

LEMMA Entries1 ==
    /\ \A b : AtMostOne(Regularization(b)) /\ AtMostOne(Closing(b))
    /\ \A b, a : AtMostOne(Opening(b, a))
    /\ \A s, p : AtMostOne(Reversal(s, p))
BY DEF AtMostOne, Regularization, Closing, Opening, Reversal, EntryUnlessEmpty

LEMMA PositionType ==
    ASSUME NEW s, NEW e, IsSequence(s)
    PROVE  Position(s, e) \in Nat
<1>1. Len(s) \in Nat BY DEF IsSequence
<1> QED BY <1>1 DEF Position

\* Requests are added or change their status: never their year nor their close.
Kept ==
    /\ closes' \in Seq(CloseRequests) /\ reopens' \in Seq(ReopenRequests)
    /\ Len(closes) <= Len(closes') /\ Len(reopens) <= Len(reopens')
    /\ \A c \in 1..Len(closes) : closes'[c].year = closes[c].year
    /\ \A r \in 1..Len(reopens) : reopens'[r].close = reopens[r].close
    /\ \A r \in 1..Len(reopens') : reopens'[r].close \in 1..Len(closes')

LEMMA ClosesKept ==
    ASSUME CycleTypeOK, NEW c \in 1..Len(closes), NEW x \in CloseRequests,
           x.year = closes[c].year, closes' = [closes EXCEPT ![c] = x], UNCHANGED reopens
    PROVE  Kept
<1>1. /\ closes \in Seq(CloseRequests) /\ reopens \in Seq(ReopenRequests)
      /\ \A r \in 1..Len(reopens) : reopens[r].close \in 1..Len(closes)
  BY DEF CycleTypeOK
<1>2. closes' \in Seq(CloseRequests) /\ Len(closes') = Len(closes) BY <1>1
<1> QED BY <1>1, <1>2 DEF Kept

LEMMA ReopensKept ==
    ASSUME CycleTypeOK, reopens' \in Seq(ReopenRequests), Len(reopens') = Len(reopens),
           \A r \in 1..Len(reopens) : reopens'[r].close = reopens[r].close, UNCHANGED closes
    PROVE  Kept
<1>1. /\ closes \in Seq(CloseRequests) /\ reopens \in Seq(ReopenRequests)
      /\ \A r \in 1..Len(reopens) : reopens[r].close \in 1..Len(closes)
  BY DEF CycleTypeOK
<1> QED BY <1>1 DEF Kept

LEMMA ReopenKept ==
    ASSUME CycleTypeOK, NEW r \in 1..Len(reopens), NEW x \in ReopenRequests,
           x.close = reopens[r].close, reopens' = [reopens EXCEPT ![r] = x], UNCHANGED closes
    PROVE  Kept
<1>1. reopens \in Seq(ReopenRequests) BY DEF CycleTypeOK
<1>2. reopens' \in Seq(ReopenRequests) /\ Len(reopens') = Len(reopens) BY <1>1
<1>3. \A q \in 1..Len(reopens) : reopens'[q].close = reopens[q].close BY <1>1
<1> QED BY <1>2, <1>3, ReopensKept

LEMMA StatusOfReopen ==
    ASSUME NEW x \in ReopenRequests,
           NEW s \in {"REQUESTED", "CANCELLED", "REJECTED", "EXPIRED", "COMPLETED"}
    PROVE  [x EXCEPT !.status = s] \in ReopenRequests /\ [x EXCEPT !.status = s].close = x.close
BY DEF ReopenRequests

LEMMA ExpiredKept ==
    ASSUME CycleTypeOK, NEW n, NEW c
    PROVE  /\ Expired(n, c) \in Seq(ReopenRequests) /\ Len(Expired(n, c)) = Len(reopens)
           /\ \A r \in 1..Len(reopens) : Expired(n, c)[r].close = reopens[r].close
<1>1. reopens \in Seq(ReopenRequests) /\ Len(reopens) \in Nat BY DEF CycleTypeOK
<1>2. ASSUME NEW r \in 1..Len(reopens)
      PROVE  Expired(n, c)[r] \in ReopenRequests /\ Expired(n, c)[r].close = reopens[r].close
  <2>1. reopens[r] \in ReopenRequests BY <1>1
  <2>2. PICK x : x = [reopens[r] EXCEPT !.status = "EXPIRED"] OBVIOUS
  <2>3. x \in ReopenRequests /\ x.close = reopens[r].close BY <2>1, <2>2, StatusOfReopen
  <2>4. Expired(n, c)[r] \in {x, reopens[r]} BY <1>1, <2>2 DEF Expired
  <2> QED BY <2>1, <2>3, <2>4
<1>4. PICK e : e = Expired(n, c) OBVIOUS
<1>5. \A r \in 1..Len(reopens) : e[r] \in ReopenRequests BY <1>2, <1>4
<1>6. e = [r \in 1..Len(reopens) |-> e[r]] BY <1>4 DEF Expired
<1>7. e \in Seq(ReopenRequests) /\ Len(e) = Len(reopens) BY <1>1, <1>5, <1>6
<1> QED BY <1>2, <1>4, <1>7

LEMMA RequestsKept ==
    ASSUME CycleTypeOK, LedgersOK, [Next]_vars
    PROVE  Kept
<1>1. /\ closes \in Seq(CloseRequests) /\ reopens \in Seq(ReopenRequests)
      /\ \A r \in 1..Len(reopens) : reopens[r].close \in 1..Len(closes)
      /\ \A t \in Transactions : Refers(tx[t])
      /\ \A y \in Years : IsSequence(ledger[y])
  BY DEF CycleTypeOK, LedgersOK
<1>2. CASE UNCHANGED <<closes, reopens>> BY <1>1, <1>2 DEF Kept
<1>3. ASSUME NEW t \in Transactions, CommitRequestClose(t) PROVE Kept
  <2>1. tx[t].user \in Users /\ tx[t].year \in 1..(LastYear - 1)
    BY <1>1, <1>3 DEF CommitRequestClose, Committing, Refers
  <2>2. PICK x : x = [year |-> tx[t].year, status |-> "REQUESTED", by |-> tx[t].user,
                      regularization |-> 0, closing |-> 0, opening |-> 0]
    OBVIOUS
  <2>3. x \in CloseRequests BY <2>1, <2>2 DEF CloseRequests
  <2>4. closes' = Append(closes, x) /\ reopens' = reopens
    BY <1>3, <2>2 DEF CommitRequestClose
  <2> QED BY <1>1, <2>3, <2>4 DEF Kept
<1>4. ASSUME NEW t \in Transactions, CommitCancelClose(t) PROVE Kept
  <2>1. PICK c \in 1..Len(closes) : c = tx[t].close
    BY <1>1, <1>4 DEF CommitCancelClose, Committing, Refers
  <2>2. PICK x : x = [closes[c] EXCEPT !.status = "CANCELLED"] OBVIOUS
  <2>3. closes[c] \in CloseRequests BY <1>1
  <2>4. x \in CloseRequests /\ x.year = closes[c].year BY <2>2, <2>3 DEF CloseRequests
  <2>5. closes' = [closes EXCEPT ![c] = x] /\ UNCHANGED reopens
    BY <1>4, <2>1, <2>2 DEF CommitCancelClose
  <2> QED BY <2>4, <2>5, ClosesKept
<1>5. ASSUME NEW t \in Transactions, CommitApproveClose(t) PROVE Kept
  <2>1. PICK c \in 1..Len(closes) : c = tx[t].close
    BY <1>1, <1>5 DEF CommitApproveClose, Committing, Refers
  <2>2. closes[c] \in CloseRequests /\ closes[c].year \in Years /\ closes[c].year + 1 \in Years
    BY <1>1, RequestYear
  <2>3. PICK y : y = closes[c].year OBVIOUS
  <2>4. PICK b : b = Balance(ledger[y]) OBVIOUS
  <2>5. PICK e : e = Regularization(b) OBVIOUS
  <2>6. PICK f : f = Closing(Regularized(b)) OBVIOUS
  <2>7. PICK g : g = Opening(Regularized(b), WithMissingAccounts(plan[y + 1], plan[y])) OBVIOUS
  <2>8. IsSequence(ledger[y] \o e) /\ IsSequence(ledger[y]) /\ IsSequence(ledger[y + 1])
    BY <1>1, <2>2, <2>3, <2>5, Entries1, Extended
  <2>9. PICK i \in Nat, j \in Nat, k \in Nat :
          i = Position(ledger[y], e) /\ j = Position(ledger[y] \o e, f)
          /\ k = Position(ledger[y + 1], g)
    BY <2>8, PositionType
  <2>10. PICK x : x = [closes[c] EXCEPT !.status = "COMPLETED", !.regularization = i,
                                        !.closing = j, !.opening = k]
    OBVIOUS
  <2>11. x \in CloseRequests /\ x.year = closes[c].year
    BY <2>2, <2>9, <2>10 DEF CloseRequests
  <2>12. closes' = [closes EXCEPT ![c] = x] /\ UNCHANGED reopens
    BY <1>5, <2>1, <2>3, <2>4, <2>5, <2>6, <2>7, <2>9, <2>10, Zenon DEF CommitApproveClose
  <2> QED BY <2>11, <2>12, ClosesKept
<1>6. ASSUME NEW n, NEW c, reopens' = Expired(n, c), UNCHANGED closes PROVE Kept
  BY <1>6, ExpiredKept, ReopensKept
<1>7. ASSUME NEW t \in Transactions, CommitRequestReopen(t) PROVE Kept
  <2>1. tx[t].user \in Users /\ tx[t].close \in 1..Len(closes)
    BY <1>1, <1>7 DEF CommitRequestReopen, Committing, Refers
  <2>2. PICK x : x = [close |-> tx[t].close, status |-> "REQUESTED", by |-> tx[t].user,
                      opening |-> 0]
    OBVIOUS
  <2>3. x \in ReopenRequests /\ x.close \in 1..Len(closes) BY <1>1, <2>1, <2>2 DEF ReopenRequests
  <2>4. reopens' = Append(reopens, x) /\ closes' = closes
    BY <1>7, <2>2 DEF CommitRequestReopen
  <2> QED BY <1>1, <2>3, <2>4 DEF Kept
<1>8. ASSUME NEW t \in Transactions, CommitApproveReopen(t) PROVE Kept
  <2>1. PICK r \in 1..Len(reopens) : r = tx[t].reopen
    BY <1>1, <1>8 DEF CommitApproveReopen, Committing, Refers
  <2>2. PICK c \in 1..Len(closes) : c = reopens[r].close BY <1>1
  <2>3. PICK y \in Years : y = closes[c].year /\ y + 1 \in Years BY RequestYear
  <2>4. PICK e : e = Reversal(ledger[y + 1], closes[c].opening) OBVIOUS
  <2>5. PICK k \in Nat : k = Position(ledger[y + 1], e) BY <1>1, <2>3, PositionType
  <2>6. PICK x : x = [reopens[r] EXCEPT !.status = "COMPLETED", !.opening = k] OBVIOUS
  <2>7. reopens[r] \in ReopenRequests BY <1>1
  <2>8. x \in ReopenRequests /\ x.close = reopens[r].close BY <2>6, <2>7 DEF ReopenRequests
  <2>9. reopens' = [reopens EXCEPT ![r] = x] /\ UNCHANGED closes
    BY <1>8, <2>1, <2>2, <2>3, <2>4, <2>5, <2>6, Zenon DEF CommitApproveReopen
  <2> QED BY <2>8, <2>9, ReopenKept
<1>9. ASSUME NEW t \in Transactions, CommitSettleReopen(t) PROVE Kept
  <2>1. PICK r \in 1..Len(reopens) : r = tx[t].reopen
    BY <1>1, <1>9 DEF CommitSettleReopen, Committing, Refers
  <2>2. reopens[r] \in ReopenRequests BY <1>1
  <2>3. PICK s \in {"CANCELLED", "REJECTED"} : reopens' = [reopens EXCEPT ![r].status = s]
    BY <1>9, <2>1 DEF CommitSettleReopen
  <2>4. PICK x : x = [reopens[r] EXCEPT !.status = s] OBVIOUS
  <2>5. x \in ReopenRequests /\ x.close = reopens[r].close BY <2>2, <2>4, StatusOfReopen
  <2>6. reopens' = [reopens EXCEPT ![r] = x] /\ UNCHANGED closes
    BY <1>9, <2>3, <2>4 DEF CommitSettleReopen
  <2> QED BY <2>5, <2>6, ReopenKept
<1>10. ASSUME NEW t \in Transactions, CheckOrRefuse(t) PROVE Kept
  <2>1. CASE UNCHANGED reopens BY <1>2, <1>10, <2>1 DEF CheckOrRefuse
  <2>2. CASE tx[t].kind \in ReopenOperation
    BY <1>6, <1>10, <2>2 DEF CheckOrRefuse, ExpireStale
  <2> QED BY <1>10, <2>1, <2>2 DEF CheckOrRefuse, ExpireStale
<1>11. CASE ListReopens BY <1>6, <1>11 DEF ListReopens
<1>12. CASE UNCHANGED vars BY <1>2, <1>12 DEF vars
<1>13. ASSUME NEW t \in Transactions,
              CanBegin(t) \/ Lock(t) \/ Fail(t) \/ CommitOpenAccount(t) \/ CommitCreate(t) \/ CommitIssue(t)
       PROVE  UNCHANGED <<closes, reopens>>
  BY <1>13, BeginTyped DEF Begin, Lock, Fail, CommitOpenAccount, CommitCreate, CommitIssue, records
<1>14. ASSUME CreateInitialYear \/ \E d \in Invoices, from, to \in {"PENDING", "RESOLVED"} :
                 FiscalStatusChanges(d, from, to)
       PROVE  UNCHANGED <<closes, reopens>>
  BY <1>14 DEF CreateInitialYear, FiscalStatusChanges
<1> QED BY <1>2, <1>3, <1>4, <1>5, <1>7, <1>8, <1>9, <1>10, <1>11, <1>12, <1>13, <1>14 DEF Next, Commit

\* Only the first year, an approved close and an approved reopening change years.
LEMMA YearWriters ==
    ASSUME CycleTypeOK, [Next]_vars
    PROVE  \/ UNCHANGED year
           \/ CreateInitialYear
           \/ \E t \in Transactions : CommitApproveClose(t) \/ CommitApproveReopen(t)
<1>1. ASSUME NEW t \in Transactions, CanBegin(t) PROVE UNCHANGED year
  BY <1>1, BeginTyped DEF Begin, records
<1>2. ASSUME NEW t \in Transactions, Lock(t) \/ CheckOrRefuse(t) \/ Fail(t)
      PROVE  UNCHANGED year
  BY <1>2 DEF Lock, CheckOrRefuse, Fail, records
<1>3. ASSUME NEW t \in Transactions, Commit(t), ~ CommitApproveClose(t), ~ CommitApproveReopen(t)
      PROVE  UNCHANGED year
  BY <1>3 DEF Commit, CommitRequestClose, CommitCancelClose, CommitRequestReopen,
       CommitSettleReopen, CommitOpenAccount, CommitCreate, CommitIssue
<1> QED BY <1>1, <1>2, <1>3 DEF Next, vars, ListReopens, FiscalStatusChanges

\* An approval changes two years, the one it is about and the next.
LEMMA Approvals ==
    ASSUME CycleTypeOK, NEW t \in Transactions
    PROVE  /\ CommitApproveClose(t) =>
                /\ tx[t].close \in 1..Len(closes)
                /\ LET y == closes[tx[t].close].year IN
                     /\ y \in Years /\ y + 1 \in Years
                     /\ year' = [year EXCEPT ![y] = "CLOSED", ![y + 1] = "OPEN"]
           /\ CommitApproveReopen(t) =>
                /\ tx[t].reopen \in 1..Len(reopens)
                /\ LET y == closes[reopens[tx[t].reopen].close].year IN
                     /\ y \in Years /\ y + 1 \in Years
                     /\ year' = [year EXCEPT ![y + 1] = "REVERSED", ![y] = "OPEN"]
<1>1. /\ \A r \in 1..Len(reopens) : reopens[r].close \in 1..Len(closes)
      /\ Refers(tx[t])
  BY DEF CycleTypeOK
<1>2. ASSUME CommitApproveClose(t)
      PROVE  /\ tx[t].close \in 1..Len(closes)
             /\ year' = [year EXCEPT ![closes[tx[t].close].year] = "CLOSED",
                                     ![closes[tx[t].close].year + 1] = "OPEN"]
  BY <1>1, <1>2, Zenon DEF CommitApproveClose, Committing, Refers
<1>3. ASSUME CommitApproveReopen(t)
      PROVE  /\ tx[t].reopen \in 1..Len(reopens)
             /\ year' = [year EXCEPT ![closes[reopens[tx[t].reopen].close].year + 1] = "REVERSED",
                                     ![closes[reopens[tx[t].reopen].close].year] = "OPEN"]
  BY <1>1, <1>3, Zenon DEF CommitApproveReopen, Committing, Refers
<1> QED BY <1>1, <1>2, <1>3, RequestYear

LEMMA YearType ==
    ASSUME CycleTypeOK, [Next]_vars
    PROVE  year' \in [Years -> Statuses]
<1>1. year \in [Years -> Statuses] /\ Years = 1..LastYear BY DEF CycleTypeOK, Years
<1>2. {"ABSENT", "OPEN", "CLOSED", "REVERSED"} \subseteq Statuses BY DEF Statuses
<1>3. CASE CreateInitialYear BY <1>1, <1>2, <1>3 DEF CreateInitialYear
<1>4. ASSUME NEW t \in Transactions, CommitApproveClose(t)
      PROVE  year' \in [Years -> Statuses]
  <2>1. PICK y \in Years : year' = [year EXCEPT ![y] = "CLOSED", ![y + 1] = "OPEN"]
    BY <1>4, Approvals
  <2> QED BY <1>1, <1>2, <2>1
<1>5. ASSUME NEW t \in Transactions, CommitApproveReopen(t)
      PROVE  year' \in [Years -> Statuses]
  <2>1. PICK y \in Years : year' = [year EXCEPT ![y + 1] = "REVERSED", ![y] = "OPEN"]
    BY <1>5, Approvals, Zenon
  <2> QED BY <1>1, <1>2, <2>1
<1> QED BY <1>1, <1>3, <1>4, <1>5, YearWriters

\* What every step leaves of the transactions: each goes on, ends or has begun.
Moved ==
    /\ held' \in [Transactions -> SUBSET Steps]
    /\ tx' \in [Transactions -> Operations]
    /\ \A t \in Transactions :
         \/ Same(tx'[t], tx[t])
         \/ tx'[t].kind = "none"
         \/ \E op : Begun(op) /\ Same(tx'[t], op)

LEMMA Moves ==
    ASSUME CycleTypeOK, [Next]_vars
    PROVE  Moved
<1>1. held \in [Transactions -> SUBSET Steps] /\ tx \in [Transactions -> Operations]
  BY DEF CycleTypeOK
<1>2. \A a : Same(a, a) BY DEF Same
<1>3. CASE UNCHANGED <<held, tx>> BY <1>1, <1>2, <1>3 DEF Moved
<1>4. ASSUME NEW t \in Transactions, NEW op, Begun(op), Begin(t, op) PROVE Moved
  BY <1>2, <1>4, Begins DEF Moved
<1>5. ASSUME NEW t \in Transactions, Lock(t) PROVE Moved
  BY <1>2, <1>5, Locks DEF Moved
<1>6. ASSUME NEW t \in Transactions, CheckOrRefuse(t), Admissible(t, reopens') PROVE Moved
  BY <1>1, <1>2, <1>6, Passes DEF Moved
<1>7. ASSUME NEW t \in Transactions, End(t) PROVE Moved
  BY <1>2, <1>7, Ends, IdleType DEF Moved
<1> QED BY <1>3, <1>4, <1>5, <1>6, <1>7, StepOfOne

LEMMA CycleTypeStep ==
    ASSUME CycleTypeOK, LedgersOK, [Next]_vars
    PROVE  CycleTypeOK'
<1>1. Kept /\ Moved BY RequestsKept, Moves
<1>2. year' \in [Years -> Statuses] BY YearType
<1>3. Len(closes) \in Nat /\ Len(reopens) \in Nat /\ \A t \in Transactions : Refers(tx[t])
  BY DEF CycleTypeOK
<1>4. Len(closes') \in Nat /\ Len(reopens') \in Nat /\ Len(closes) <= Len(closes')
      /\ Len(reopens) <= Len(reopens')
  BY <1>1 DEF Kept
<1>5. ASSUME NEW t \in Transactions PROVE Refers(tx[t])'
  <2>1. ASSUME NEW a, Refers(a), Same(tx'[t], a) PROVE Refers(tx[t])'
    BY <1>3, <1>4, <2>1 DEF Refers, Same
  <2>2. CASE tx'[t].kind = "none" BY <2>2 DEF Refers
  <2>3. CASE Same(tx'[t], tx[t]) BY <1>3, <2>1, <2>3
  <2>4. ASSUME NEW op, Begun(op), Same(tx'[t], op) PROVE Refers(tx[t])'
    BY <2>1, <2>4 DEF Begun
  <2> QED BY <1>1, <2>2, <2>3, <2>4 DEF Moved
<1> QED BY <1>1, <1>2, <1>5 DEF CycleTypeOK, Kept, Moved

\* A ledger of which nothing is changed or removed.
Grown(s, z) ==
    IsSequence(z) /\ Len(s) <= Len(z) /\ \A p \in 1..Len(s) : z[p] = s[p]

LEMMA Grows ==
    ASSUME NEW s, IsSequence(s), NEW e, AtMostOne(e), NEW f, AtMostOne(f)
    PROVE  Grown(s, s) /\ Grown(s, s \o e) /\ Grown(s, (s \o e) \o f)
<1>1. Grown(s, s) BY DEF Grown, IsSequence
<1>2. Grown(s, s \o e) /\ Len(s) \in Nat BY Extended DEF Grown
<1>3. Grown(s \o e, (s \o e) \o f) /\ Len(s \o e) \in Nat BY <1>2, Extended DEF Grown
<1>4. Len((s \o e) \o f) \in Nat BY <1>3 DEF Grown, IsSequence
<1>5. Grown(s, (s \o e) \o f) BY <1>2, <1>3, <1>4 DEF Grown
<1> QED BY <1>1, <1>2, <1>5

\* Documents are posted in the year of their transaction, and a close and a
\* reopening write in the two years whose status they change.
Posts(t, y) ==
    /\ tx[t].year = y
    /\ CommitIssue(t) \/ (CommitCreate(t) /\ tx[t].doc \cap Entries # {})
Closes(t, y) ==
    /\ CommitApproveClose(t)
    /\ y \in {closes[tx[t].close].year, closes[tx[t].close].year + 1}
Reopens(t, y) ==
    /\ CommitApproveReopen(t)
    /\ LET c == reopens[tx[t].reopen].close IN y \in {closes[c].year, closes[c].year + 1}

Written ==
    /\ DOMAIN ledger' = Years
    /\ \A y \in Years : Grown(ledger[y], ledger'[y])
    /\ \A y \in Years :
         ledger'[y] = ledger[y] \/ \E t \in Transactions : Posts(t, y) \/ Closes(t, y) \/ Reopens(t, y)

LEMMA LedgerStep ==
    ASSUME CycleTypeOK, LedgersOK, [Next]_vars
    PROVE  Written
<1>1. /\ DOMAIN ledger = Years /\ \A y \in Years : IsSequence(ledger[y])
      /\ \A r \in 1..Len(reopens) : reopens[r].close \in 1..Len(closes)
      /\ \A t \in Transactions : Refers(tx[t])
  BY DEF CycleTypeOK, LedgersOK
<1>2. \A y \in Years : Grown(ledger[y], ledger[y]) BY <1>1, Grows DEF AtMostOne
<1>3. CASE UNCHANGED ledger BY <1>1, <1>2, <1>3 DEF Written
<1>4. ASSUME NEW y \in Years, NEW e, NEW f, NEW g, y + 1 \in Years,
             AtMostOne(e), AtMostOne(f), AtMostOne(g),
             ledger' = [ledger EXCEPT ![y] = (ledger[y] \o e) \o f, ![y + 1] = ledger[y + 1] \o g]
      PROVE  /\ DOMAIN ledger' = Years
             /\ \A z \in Years : Grown(ledger[z], ledger'[z])
             /\ \A z \in Years : z \notin {y, y + 1} => ledger'[z] = ledger[z]
  <2>1. Grown(ledger[y], (ledger[y] \o e) \o f) /\ Grown(ledger[y + 1], ledger[y + 1] \o g)
    BY <1>1, <1>4, Grows
  <2>2. PICK a, b : a = (ledger[y] \o e) \o f /\ b = ledger[y + 1] \o g OBVIOUS
  <2>3. ledger' = [ledger EXCEPT ![y] = a, ![y + 1] = b] BY <1>4, <2>2
  <2>0. y # y + 1 BY DEF Years
  <2>4. DOMAIN ledger' = Years /\ ledger'[y + 1] = b /\ ledger'[y] = a
        /\ \A z \in Years : z \notin {y, y + 1} => ledger'[z] = ledger[z]
    BY <1>1, <1>4, <2>0, <2>3
  <2> QED BY <1>2, <2>1, <2>2, <2>4
<1>5. ASSUME NEW t \in Transactions, CommitApproveClose(t) PROVE Written
  <2>1. PICK c \in 1..Len(closes) : c = tx[t].close
    BY <1>1, <1>5 DEF CommitApproveClose, Committing, Refers
  <2>2. PICK y \in Years : y = closes[c].year /\ y + 1 \in Years BY RequestYear
  <2>3. PICK b : b = Balance(ledger[y]) OBVIOUS
  <2>4. PICK e : e = Regularization(b) OBVIOUS
  <2>5. PICK f : f = Closing(Regularized(b)) OBVIOUS
  <2>6. PICK g : g = Opening(Regularized(b), WithMissingAccounts(plan[y + 1], plan[y])) OBVIOUS
  <2>7. ledger' = [ledger EXCEPT ![y] = (ledger[y] \o e) \o f, ![y + 1] = ledger[y + 1] \o g]
    BY <1>5, <2>1, <2>2, <2>3, <2>4, <2>5, <2>6, Zenon DEF CommitApproveClose
  <2>8. AtMostOne(e) /\ AtMostOne(f) /\ AtMostOne(g) BY <2>4, <2>5, <2>6, Entries1
  <2> QED BY <1>4, <1>5, <2>1, <2>2, <2>7, <2>8 DEF Written, Closes
<1>6. ASSUME NEW t \in Transactions, CommitApproveReopen(t) PROVE Written
  <2>1. PICK r \in 1..Len(reopens) : r = tx[t].reopen
    BY <1>1, <1>6 DEF CommitApproveReopen, Committing, Refers
  <2>2. PICK c \in 1..Len(closes) : c = reopens[r].close BY <1>1
  <2>3. PICK y \in Years : y = closes[c].year /\ y + 1 \in Years BY RequestYear
  <2>4. PICK e : e = Reversal(ledger[y], closes[c].closing) OBVIOUS
  <2>5. PICK f : f = Reversal(ledger[y], closes[c].regularization) OBVIOUS
  <2>6. PICK g : g = Reversal(ledger[y + 1], closes[c].opening) OBVIOUS
  <2>7. ledger' = [ledger EXCEPT ![y] = (ledger[y] \o e) \o f, ![y + 1] = ledger[y + 1] \o g]
    BY <1>6, <2>1, <2>2, <2>3, <2>4, <2>5, <2>6, Zenon DEF CommitApproveReopen
  <2>8. AtMostOne(e) /\ AtMostOne(f) /\ AtMostOne(g) BY <2>4, <2>5, <2>6, Entries1
  <2>9. \A z \in {y, y + 1} : Reopens(t, z) BY <1>6, <2>1, <2>2, <2>3 DEF Reopens
  <2> QED BY <1>4, <2>3, <2>7, <2>8, <2>9 DEF Written
<1>7. ASSUME NEW y \in Years, Posted(y)
      PROVE  /\ DOMAIN ledger' = Years
             /\ \A z \in Years : Grown(ledger[z], ledger'[z])
             /\ \A z \in Years : z # y => ledger'[z] = ledger[z]
  <2>1. PICK x : ledger' = [ledger EXCEPT ![y] = Append(ledger[y], x)] BY <1>7 DEF Posted
  <2>2. Append(ledger[y], x) = ledger[y] \o <<x>> BY <1>1 DEF IsSequence
  <2>3. Grown(ledger[y], ledger[y] \o <<x>>) BY <1>1, Grows DEF AtMostOne
  <2> QED BY <1>1, <1>2, <2>1, <2>2, <2>3
<1>8. ASSUME NEW t \in Transactions, CommitIssue(t) PROVE Written
  <2>1. tx[t].year \in Years BY <1>1, <1>8 DEF CommitIssue, Committing, Refers
  <2>2. Posted(tx[t].year) BY <1>8 DEF CommitIssue
  <2> QED BY <1>7, <1>8, <2>1, <2>2 DEF Written, Posts
<1>9. ASSUME NEW t \in Transactions, CommitCreate(t) PROVE Written
  <2>1. tx[t].year \in Years BY <1>1, <1>9 DEF CommitCreate, Committing, Refers
  <2>2. CASE UNCHANGED ledger BY <1>3, <2>2
  <2>3. CASE Posted(tx[t].year) /\ tx[t].doc \cap Entries # {}
    BY <1>7, <1>9, <2>1, <2>3 DEF Written, Posts
  <2> QED BY <1>9, <2>2, <2>3 DEF CommitCreate
<1>10. ASSUME NEW t \in Transactions,
              CanBegin(t) \/ Lock(t) \/ CheckOrRefuse(t) \/ Fail(t) \/ CommitOpenAccount(t)
              \/ CommitRequestClose(t) \/ CommitCancelClose(t) \/ CommitRequestReopen(t)
              \/ CommitSettleReopen(t)
       PROVE  UNCHANGED ledger
  BY <1>10, BeginTyped DEF Begin, Lock, CheckOrRefuse, Fail, CommitOpenAccount,
       CommitRequestClose, CommitCancelClose, CommitRequestReopen, CommitSettleReopen, records
<1>11. ASSUME \/ UNCHANGED vars \/ CreateInitialYear \/ ListReopens
              \/ \E d \in Invoices, from, to \in {"PENDING", "RESOLVED"} :
                   FiscalStatusChanges(d, from, to)
       PROVE  UNCHANGED ledger
  BY <1>11 DEF CreateInitialYear, ListReopens, FiscalStatusChanges, vars
<1>12. ASSUME NEW t \in Transactions, Commit(t) PROVE Written
  BY <1>3, <1>5, <1>6, <1>8, <1>9, <1>10, <1>12 DEF Commit
<1>13. ASSUME NEW t \in Transactions, CanBegin(t) \/ Lock(t) \/ CheckOrRefuse(t) \/ Fail(t)
       PROVE  Written
  BY <1>3, <1>10, <1>13
<1> QED BY <1>3, <1>11, <1>12, <1>13 DEF Next
-----------------------------------------------------------------------------
(* The inductive invariant: locks exclude each other, a transaction whose    *)
(* check has passed holds the locks it needs, and so what it checked stays   *)
(* true until it commits.                                                    *)

DocumentsOK ==
    doc \in [Documents -> [status : {"ABSENT", "DRAFT", "POSTED"}, year : 0..LastYear,
                           fiscal : {"none", "PENDING", "RESOLVED"}]]

LocksExclude ==
    \A t, u \in Transactions : t # u =>
        \A l \in held[t], m \in held[u] : ~ Conflicting(l, m)

Started(t) == tx[t].kind # "none" \/ tx[t].todo # <<>>

\* The locks needed are mine or are taken before the first check.
Taken(steps, locks, mine) ==
    \E i \in 1..Len(steps) :
        /\ steps[i] = Check
        /\ \A j \in 1..(i - 1) : steps[j] # Check
        /\ \A l \in locks : l \in mine \/ \E j \in 1..(i - 1) : steps[j] = l

Guarded(t) ==
    /\ tx[t].checked => Needs(tx[t]) \subseteq held[t]
    /\ Started(t) /\ ~ tx[t].checked => Taken(tx[t].todo, Needs(tx[t]), held[t])

NoDraftIn(y) == \A d \in Invoices : doc[d].status = "DRAFT" => doc[d].year # y

StillAdmissible(t) ==
    tx[t].checked =>
        /\ tx[t].kind = "approveClose" =>
             LET y == closes[tx[t].close].year IN
             year[y] = "OPEN" /\ year[y + 1] \in {"ABSENT", "REVERSED"} /\ NoDraftIn(y)
        /\ tx[t].kind = "approveReopen" =>
             LET y == closes[reopens[tx[t].reopen].close].year IN
             /\ year[y] = "CLOSED" /\ year[y + 1] = "OPEN" /\ NoDraftIn(y + 1)
             /\ y + 2 \in Years => year[y + 2] = "ABSENT"
        /\ tx[t].kind \in {"create", "issue"} => year[tx[t].year] = "OPEN"

LockInv ==
    /\ LocksExclude
    /\ \A t \in Transactions : Guarded(t) /\ StillAdmissible(t)

LEMMA LocksExcludeStep ==
    ASSUME CycleTypeOK, LocksExclude, [Next]_vars
    PROVE  LocksExclude'
<1>1. CASE UNCHANGED <<held, tx>> BY <1>1 DEF LocksExclude, Conflicting
<1>2. \A l, m : Conflicting(l, m) <=> Conflicting(m, l) BY DEF Conflicting
<1>3. ASSUME NEW t \in Transactions, NEW l, Free(t, l),
             held'[t] \in {held[t] \cup {l}, {l}},
             \A u \in Transactions \ {t} : held'[u] = held[u]
      PROVE  LocksExclude'
  <2>1. \A u \in Transactions \ {t} : \A a \in held'[t], b \in held'[u] :
          ~ Conflicting(a, b) /\ ~ Conflicting(b, a)
    BY <1>2, <1>3 DEF Free, LocksExclude
  <2>2. ASSUME NEW u \in Transactions, NEW v \in Transactions, u # v,
               NEW a \in held'[u], NEW b \in held'[v]
        PROVE  ~ Conflicting(a, b)
    BY <1>3, <2>1, <2>2 DEF LocksExclude
  <2> QED BY <2>2 DEF LocksExclude, Conflicting
<1>4. ASSUME NEW t \in Transactions, NEW op, Begun(op), Begin(t, op) PROVE LocksExclude'
  BY <1>3, <1>4, Begins
<1>5. ASSUME NEW t \in Transactions, Lock(t) PROVE LocksExclude'
  BY <1>3, <1>5, Locks
<1>6. ASSUME NEW t \in Transactions, CheckOrRefuse(t), Admissible(t, reopens')
      PROVE  LocksExclude'
  BY <1>6, Passes DEF LocksExclude, Conflicting
<1>7. ASSUME NEW t \in Transactions, End(t) PROVE LocksExclude'
  BY <1>7, Ends DEF LocksExclude, Conflicting
<1> QED BY <1>1, <1>4, <1>5, <1>6, <1>7, StepOfOne

\* What an operation needs does not change: years of closes are fixed.
LEMMA NeedsKept ==
    ASSUME CycleTypeOK, Kept, NEW t \in Transactions, NEW b, Refers(b), Same(tx'[t], b)
    PROVE  Needs(tx[t])' = Needs(b)
<1>1. /\ \A r \in 1..Len(reopens) : reopens[r].close \in 1..Len(closes)
      /\ \A r \in 1..Len(reopens) : reopens'[r].close = reopens[r].close
      /\ \A c \in 1..Len(closes) : closes'[c].year = closes[c].year
  BY DEF CycleTypeOK, Kept
<1>2. /\ tx'[t].kind = b.kind /\ tx'[t].year = b.year /\ tx'[t].close = b.close
      /\ tx'[t].reopen = b.reopen /\ tx'[t].doc = b.doc
  BY DEF Same
<1>3. CASE b.kind = "approveClose"
  <2>1. closes'[b.close].year = closes[b.close].year BY <1>1, <1>3 DEF Refers
  <2> QED BY <1>2, <1>3, <2>1 DEF Needs, Cycle, Exclusive
<1>4. CASE b.kind = "approveReopen"
  <2>1. closes'[reopens'[b.reopen].close].year = closes[reopens[b.reopen].close].year
    BY <1>1, <1>4 DEF Refers
  <2> QED BY <1>2, <1>4, <2>1 DEF Needs, Cycle, Exclusive
<1>5. CASE b.kind \notin {"approveClose", "approveReopen"}
  BY <1>2, <1>5 DEF Needs, Cycle, Exclusive, Shared
<1> QED BY <1>3, <1>4, <1>5

LEMMA TailOf ==
    ASSUME NEW s \in Seq(Steps), s # <<>>
    PROVE  /\ Tail(s) \in Seq(Steps) /\ Len(s) \in Nat /\ Len(Tail(s)) = Len(s) - 1
           /\ Head(s) = s[1] /\ \A j \in 1..Len(Tail(s)) : Tail(s)[j] = s[j + 1]
OBVIOUS

\* Taking a step before the check leaves the locks after it in their place.
LEMMA GuardMoves ==
    ASSUME NEW s \in Seq(Steps), NEW locks, NEW mine, Taken(s, locks, mine),
           s # <<>>, Head(s) # Check
    PROVE  Taken(Tail(s), locks, mine \cup {Head(s)})
<1>0. PICK i \in 1..Len(s) :
        /\ s[i] = Check
        /\ \A j \in 1..(i - 1) : s[j] # Check
        /\ \A l \in locks : l \in mine \/ \E j \in 1..(i - 1) : s[j] = l
  BY DEF Taken
<1>1. Len(s) \in Nat /\ s # <<>> /\ i # 1 BY <1>0, TailOf
<1>2. PICK z \in Seq(Steps) : z = Tail(s) /\ Len(z) = Len(s) - 1 /\ Head(s) = s[1]
        /\ \A j \in 1..Len(z) : z[j] = s[j + 1]
  BY <1>1, TailOf
<1>3. PICK k \in 1..Len(z) : k = i - 1 BY <1>1, <1>2
<1>4. z[k] = Check BY <1>0, <1>1, <1>2, <1>3
<1>5. ASSUME NEW j \in 1..(k - 1) PROVE z[j] # Check
  <2>1. j \in 1..Len(z) /\ j + 1 \in 1..(i - 1) BY <1>1, <1>2, <1>3
  <2> QED BY <1>0, <1>2, <2>1
<1>6. ASSUME NEW l \in locks, l \notin mine \cup {Head(s)} PROVE \E j \in 1..(k - 1) : z[j] = l
  <2>1. PICK j \in 1..(i - 1) : s[j] = l BY <1>0, <1>6
  <2>2. j # 1 BY <1>2, <1>6, <2>1
  <2>3. j - 1 \in 1..(k - 1) /\ j - 1 \in 1..Len(z) /\ (j - 1) + 1 = j BY <1>1, <1>2, <1>3, <2>1, <2>2
  <2>4. z[j - 1] = l BY <1>2, <2>1, <2>3
  <2> QED BY <2>3, <2>4
<1> QED BY <1>2, <1>4, <1>5, <1>6 DEF Taken

\* A transaction that comes to its check holds the locks it needs.
LEMMA HoldsAtCheck ==
    ASSUME CycleTypeOK, NEW t \in Transactions, Guarded(t), CheckOrRefuse(t)
    PROVE  Needs(tx[t]) \subseteq held[t]
<1>1. tx[t] \in Operations BY DEF CycleTypeOK
<1>2. tx[t].todo \in Seq(Steps) /\ tx[t].todo # <<>> /\ tx[t].todo[1] = Check
  BY <1>1 DEF CheckOrRefuse, Busy, Pending, Operations
<1>3. CASE tx[t].checked BY <1>3 DEF Guarded
<1>4. CASE ~ tx[t].checked
  <2>1. PICK i \in 1..Len(tx[t].todo) :
          /\ \A j \in 1..(i - 1) : tx[t].todo[j] # Check
          /\ \A l \in Needs(tx[t]) : l \in held[t] \/ \E j \in 1..(i - 1) : tx[t].todo[j] = l
    BY <1>2, <1>4 DEF Guarded, Started, Taken
  <2>2. i \in Nat /\ (i > 1 => 1 \in 1..(i - 1)) BY <1>2, <2>1
  <2>3. i = 1 BY <1>2, <2>1, <2>2
  <2>4. ~ \E j \in 1..(i - 1) : TRUE BY <2>3
  <2> QED BY <2>1, <2>4
<1> QED BY <1>3, <1>4

LEMMA GuardedStep ==
    ASSUME CycleTypeOK, LedgersOK, \A t \in Transactions : Guarded(t), [Next]_vars,
           NEW u \in Transactions
    PROVE  Guarded(u)'
<1>1. Kept BY RequestsKept
<1>2. /\ tx \in [Transactions -> Operations] /\ \A t \in Transactions : Refers(tx[t])
      /\ \A a : Same(a, a)
  BY DEF CycleTypeOK, Same
<1>3. ASSUME tx'[u] = tx[u], held'[u] = held[u] PROVE Guarded(u)'
  <2>1. Needs(tx[u])' = Needs(tx[u]) BY <1>1, <1>2, <1>3, NeedsKept
  <2> QED BY <1>3, <2>1 DEF Guarded, Started, Taken
<1>4. CASE UNCHANGED <<held, tx>> BY <1>3, <1>4
<1>5. ASSUME NEW op, Begun(op), Begin(u, op) PROVE Guarded(u)'
  <2>1. /\ held'[u] = {Head(op.todo)} /\ Same(tx'[u], op)
        /\ tx'[u].todo = Tail(op.todo) /\ tx'[u].checked = FALSE
        /\ op.todo \in Seq(Steps) /\ op.todo # <<>> /\ Refers(op)
    BY <1>5, Begins DEF Begun, Operations
  <2>2. Needs(tx[u])' = Needs(op) BY <1>1, <2>1, NeedsKept
  <2>3. Taken(op.todo, Needs(op), {}) /\ Head(op.todo) # Check
    BY <1>5, <2>1, TailOf DEF Begun, Guards, Taken
  <2>4. Taken(Tail(op.todo), Needs(op), {} \cup {Head(op.todo)}) BY <2>1, <2>3, GuardMoves
  <2>5. Taken(tx'[u].todo, Needs(tx[u])', held'[u]) BY <2>1, <2>2, <2>4
  <2> QED BY <2>1, <2>5 DEF Guarded, Taken
<1>6. ASSUME Lock(u) PROVE Guarded(u)'
  <2>1. /\ held'[u] = held[u] \cup {Head(tx[u].todo)} /\ Same(tx'[u], tx[u])
        /\ tx'[u].todo = Tail(tx[u].todo) /\ tx'[u].checked = tx[u].checked
        /\ tx[u].todo \in Seq(Steps) /\ tx[u].todo # <<>> /\ Head(tx[u].todo) # Check
    BY <1>6, Locks
  <2>2. Needs(tx[u])' = Needs(tx[u]) BY <1>1, <1>2, <2>1, NeedsKept
  <2>3. CASE tx[u].checked BY <2>1, <2>2, <2>3 DEF Guarded, Started
  <2>4. CASE ~ tx[u].checked
    <3>1. Taken(tx[u].todo, Needs(tx[u]), held[u]) BY <2>1, <2>4 DEF Guarded, Started
    <3>2. Taken(Tail(tx[u].todo), Needs(tx[u]), held[u] \cup {Head(tx[u].todo)})
      BY <2>1, <3>1, GuardMoves
    <3>3. Taken(tx'[u].todo, Needs(tx[u])', held'[u]) BY <2>1, <2>2, <3>2
    <3> QED BY <2>1, <2>4, <3>3 DEF Guarded, Taken
  <2> QED BY <2>3, <2>4
<1>7. ASSUME CheckOrRefuse(u), Admissible(u, reopens') PROVE Guarded(u)'
  <2>1. held' = held /\ Same(tx'[u], tx[u]) /\ tx'[u].checked BY <1>7, Passes
  <2>2. Needs(tx[u])' = Needs(tx[u]) BY <1>1, <1>2, <2>1, NeedsKept
  <2>3. Needs(tx[u]) \subseteq held[u] BY <1>7, HoldsAtCheck
  <2> QED BY <2>1, <2>2, <2>3 DEF Guarded
<1>8. ASSUME End(u) PROVE Guarded(u)'
  BY <1>8, Ends, IdleType DEF Guarded, Started
<1>9. ASSUME NEW t \in Transactions, t # u, NEW op, Begun(op), Begin(t, op) PROVE Guarded(u)'
  BY <1>3, <1>9, Begins
<1>10. ASSUME NEW t \in Transactions, t # u, Lock(t) PROVE Guarded(u)' BY <1>3, <1>10, Locks
<1>11. ASSUME NEW t \in Transactions, t # u, CheckOrRefuse(t), Admissible(t, reopens')
       PROVE  Guarded(u)'
  BY <1>3, <1>11, Passes
<1>12. ASSUME NEW t \in Transactions, t # u, End(t) PROVE Guarded(u)' BY <1>3, <1>12, Ends
<1>13. ASSUME NEW t \in Transactions,
              \/ \E op : Begun(op) /\ Begin(t, op)
              \/ Lock(t)
              \/ CheckOrRefuse(t) /\ Admissible(t, reopens')
              \/ End(t)
       PROVE  Guarded(u)'
  <2>1. CASE t = u BY <1>5, <1>6, <1>7, <1>8, <1>13, <2>1
  <2>2. CASE t # u BY <1>9, <1>10, <1>11, <1>12, <1>13, <2>2
  <2> QED BY <2>1, <2>2
<1> QED BY <1>4, <1>13, StepOfOne

\* A draft is one already or is being created, in the year of its transaction.
LEMMA DocumentStep ==
    ASSUME CycleTypeOK, DocumentsOK, [Next]_vars
    PROVE  /\ DocumentsOK'
           /\ \A d \in Invoices : doc'[d].status = "DRAFT" =>
                \/ doc[d].status = "DRAFT" /\ doc'[d].year = doc[d].year
                \/ \E t \in Transactions :
                     CommitCreate(t) /\ d \in tx[t].doc /\ doc'[d].year = tx[t].year
<1>1. /\ tx \in [Transactions -> Operations] /\ \A t \in Transactions : Refers(tx[t])
  BY DEF CycleTypeOK
<1>2. CASE UNCHANGED doc BY <1>2 DEF DocumentsOK
<1>3. ASSUME NEW t \in Transactions, CommitCreate(t)
      PROVE  /\ DocumentsOK'
             /\ \A d \in Invoices : doc'[d].status = "DRAFT" =>
                  \/ doc[d].status = "DRAFT" /\ doc'[d].year = doc[d].year
                  \/ d \in tx[t].doc /\ doc'[d].year = tx[t].year
  <2>1. tx[t].year \in 0..LastYear /\ tx[t].doc \subseteq Documents BY <1>1 DEF Operations
  <2>2. PICK d \in tx[t].doc, s \in {"DRAFT", "POSTED"} :
          doc' = [doc EXCEPT ![d] = [status |-> s, year |-> tx[t].year, fiscal |-> "none"]]
    BY <1>3 DEF CommitCreate
  <2>3. d \in Documents BY <2>1
  <2> QED BY <2>1, <2>2, <2>3 DEF DocumentsOK, Documents
<1>4. ASSUME NEW t \in Transactions, CommitIssue(t)
      PROVE  /\ DocumentsOK'
             /\ \A d \in Invoices : doc'[d].status = "DRAFT" =>
                  doc[d].status = "DRAFT" /\ doc'[d].year = doc[d].year
  <2>1. tx[t].year \in 0..LastYear /\ tx[t].doc \subseteq Documents BY <1>1 DEF Operations
  <2>2. PICK d \in tx[t].doc, f \in {"PENDING", "RESOLVED"} :
          doc' = [doc EXCEPT ![d] = [status |-> "POSTED", year |-> tx[t].year, fiscal |-> f]]
    BY <1>4 DEF CommitIssue
  <2>3. d \in Documents BY <2>1
  <2> QED BY <2>1, <2>2, <2>3 DEF DocumentsOK, Documents
<1>5. ASSUME NEW d \in Invoices, NEW from, NEW to \in {"PENDING", "RESOLVED"},
             FiscalStatusChanges(d, from, to)
      PROVE  /\ DocumentsOK'
             /\ \A e \in Invoices : doc'[e].status = doc[e].status /\ doc'[e].year = doc[e].year
  <2>1. doc[d] \in [status : {"ABSENT", "DRAFT", "POSTED"}, year : 0..LastYear,
                    fiscal : {"none", "PENDING", "RESOLVED"}]
    BY DEF DocumentsOK, Documents
  <2>2. PICK x : x = [doc[d] EXCEPT !.fiscal = to] OBVIOUS
  <2>3. /\ x \in [status : {"ABSENT", "DRAFT", "POSTED"}, year : 0..LastYear,
                  fiscal : {"none", "PENDING", "RESOLVED"}]
        /\ x.status = doc[d].status /\ x.year = doc[d].year
    BY <2>1, <2>2
  <2>4. doc' = [doc EXCEPT ![d] = x] BY <1>5, <2>2 DEF FiscalStatusChanges
  <2> QED BY <2>3, <2>4 DEF DocumentsOK, Documents
<1>6. ASSUME NEW t \in Transactions, Commit(t), ~ CommitCreate(t), ~ CommitIssue(t)
      PROVE  UNCHANGED doc
  BY <1>6 DEF Commit, CommitRequestClose, CommitCancelClose, CommitApproveClose,
       CommitRequestReopen, CommitApproveReopen, CommitSettleReopen, CommitOpenAccount
<1>7. ASSUME NEW t \in Transactions, CanBegin(t) \/ Lock(t) \/ CheckOrRefuse(t) \/ Fail(t)
      PROVE  UNCHANGED doc
  BY <1>7, BeginTyped DEF Begin, Lock, CheckOrRefuse, Fail, records
<1>8. ASSUME UNCHANGED vars \/ CreateInitialYear \/ ListReopens PROVE UNCHANGED doc
  BY <1>8 DEF CreateInitialYear, ListReopens, vars
<1>9. CASE \E t \in Transactions : CommitCreate(t) BY <1>3, <1>9
<1>10. CASE \E t \in Transactions : CommitIssue(t) BY <1>4, <1>10
<1>11. CASE \E d \in Invoices : FiscalStatusChanges(d, "PENDING", "RESOLVED")
                               \/ FiscalStatusChanges(d, "RESOLVED", "PENDING")
  BY <1>5, <1>11
<1> QED BY <1>2, <1>6, <1>7, <1>8, <1>9, <1>10, <1>11 DEF Next

\* A transaction that commits has passed its check.
LEMMA Checked ==
    ASSUME CycleTypeOK, LockInv, NEW t \in Transactions, NEW k, k # "none", Committing(t, k)
    PROVE  tx[t].kind = k /\ tx[t].checked /\ Needs(tx[t]) \subseteq held[t]
<1>1. tx[t].kind = k /\ tx[t].todo = <<>> /\ Guarded(t) BY DEF Committing, LockInv
<1>2. ~ Taken(<<>>, Needs(tx[t]), held[t]) BY DEF Taken
<1> QED BY <1>1, <1>2 DEF Guarded, Started

\* The locks that keep an approval apart from everything else in its years.
LEMMA Conflicts ==
    /\ Conflicting(Cycle, Cycle)
    /\ \A y : /\ Conflicting(Exclusive("year", y), Exclusive("year", y))
              /\ Conflicting(Exclusive("year", y), Shared("year", y))
BY DEF Conflicting, Cycle, Exclusive, Shared

ApprovedYear(t) ==
    IF tx[t].kind = "approveClose" THEN closes[tx[t].close].year
    ELSE closes[reopens[tx[t].reopen].close].year

\* A transaction that approves holds the cycle and both years when it commits.
LEMMA ApproverHolds ==
    ASSUME CycleTypeOK, LockInv, NEW t \in Transactions,
           CommitApproveClose(t) \/ CommitApproveReopen(t)
    PROVE  /\ {Cycle, Exclusive("year", ApprovedYear(t)), Exclusive("year", ApprovedYear(t) + 1)}
                \subseteq held[t]
           /\ tx[t].checked /\ End(t)
           /\ \A y \in Years : year'[y] # year[y] => y \in {ApprovedYear(t), ApprovedYear(t) + 1}
<1>1. ASSUME CommitApproveClose(t)
      PROVE  tx[t].kind = "approveClose" /\ tx[t].checked /\ Needs(tx[t]) \subseteq held[t] /\ End(t)
  BY <1>1, Checked DEF CommitApproveClose, Committing
<1>2. ASSUME CommitApproveReopen(t)
      PROVE  tx[t].kind = "approveReopen" /\ tx[t].checked /\ Needs(tx[t]) \subseteq held[t] /\ End(t)
  BY <1>2, Checked DEF CommitApproveReopen, Committing
<1>3. year \in [Years -> Statuses] BY DEF CycleTypeOK
<1>4. CASE CommitApproveClose(t)
  <2>1. \A y \in Years : year'[y] # year[y] => y \in {ApprovedYear(t), ApprovedYear(t) + 1}
    BY <1>1, <1>3, <1>4, Approvals DEF ApprovedYear
  <2>2. ApprovedYear(t) = closes[tx[t].close].year BY <1>1, <1>4 DEF ApprovedYear
  <2>3. {Cycle, Exclusive("year", ApprovedYear(t)), Exclusive("year", ApprovedYear(t) + 1)}
          \subseteq Needs(tx[t])
    BY <1>1, <1>4, <2>2 DEF Needs
  <2> QED BY <1>1, <1>4, <2>1, <2>3
<1>5. CASE CommitApproveReopen(t)
  <2>1. \A y \in Years : year'[y] # year[y] => y \in {ApprovedYear(t), ApprovedYear(t) + 1}
    BY <1>2, <1>3, <1>5, Approvals DEF ApprovedYear
  <2>2. ApprovedYear(t) = closes[reopens[tx[t].reopen].close].year
    BY <1>2, <1>5 DEF ApprovedYear
  <2>3. {Cycle, Exclusive("year", ApprovedYear(t)), Exclusive("year", ApprovedYear(t) + 1)}
          \subseteq Needs(tx[t])
    BY <1>2, <1>5, <2>2 DEF Needs
  <2> QED BY <1>2, <1>5, <2>1, <2>3
<1> QED BY <1>4, <1>5

\* What is created or issued holds the cycle or the year of its date.
LEMMA DocumentHolds ==
    ASSUME CycleTypeOK, NEW u \in Transactions, tx[u].kind \in {"create", "issue"},
           tx[u].checked, Guarded(u)
    PROVE  \/ Cycle \in held[u]
           \/ Shared("year", tx[u].year) \in held[u]
           \/ Exclusive("year", tx[u].year) \in held[u]
<1>1. Needs(tx[u]) \subseteq held[u] BY DEF Guarded
<1>2. tx[u].doc \subseteq Documents /\ tx[u].doc # {}
  BY DEF CycleTypeOK, Operations, Refers
<1>3. CASE tx[u].kind = "issue" BY <1>1, <1>3 DEF Needs
<1>4. CASE tx[u].kind = "create"
  <2>1. PICK d : d \in tx[u].doc BY <1>2
  <2>2. \/ Shared("year", tx[u].year) \in Needs(tx[u])
        \/ Exclusive("year", tx[u].year) \in Needs(tx[u])
        \/ Cycle \in Needs(tx[u])
    BY <1>2, <1>4, <2>1 DEF Needs, Documents
  <2> QED BY <1>1, <2>2
<1> QED BY <1>3, <1>4

\* What a check that passes establishes.
LEMMA CheckEstablishes ==
    ASSUME CycleTypeOK, Kept, NEW u \in Transactions, CheckOrRefuse(u), Admissible(u, reopens')
    PROVE  StillAdmissible(u)'
<1>1. /\ closes' = closes /\ year' = year /\ doc' = doc /\ Same(tx'[u], tx[u])
  BY Passes DEF CheckOrRefuse
<1>2. CASE tx[u].kind = "approveClose"
  <2>1. Closable(closes[tx[u].close].year) BY <1>2 DEF Admissible, CanApproveClose
  <2> QED BY <1>1, <1>2, <2>1 DEF StillAdmissible, Closable, NextYearFree, ClosePreflightReady,
        NoDraftIn, Same
<1>3. CASE tx[u].kind = "approveReopen"
  <2>1. PICK c : c = reopens'[tx[u].reopen].close OBVIOUS
  <2>2. ReopenPreflightReady(c, reopens') BY <1>3, <2>1 DEF Admissible, CanApproveReopen
  <2>3. PICK y : y = closes[c].year OBVIOUS
  <2>4. /\ year[y] = "CLOSED" /\ year[y + 1] = "OPEN"
        /\ y + 2 \in Years => year[y + 2] = "ABSENT"
        /\ \A d \in Invoices \cup Remittances : doc[d].year # y + 1
    BY <2>2, <2>3 DEF ReopenPreflightReady
  <2>5. NoDraftIn(y + 1)' BY <1>1, <2>4 DEF NoDraftIn
  <2>6. tx'[u].kind = "approveReopen" /\ closes'[reopens'[tx'[u].reopen].close].year = y
    BY <1>1, <1>3, <2>1, <2>3 DEF Same
  <2> QED BY <1>1, <2>4, <2>5, <2>6 DEF StillAdmissible
<1>4. CASE tx[u].kind \in {"create", "issue"}
  <2>1. year[tx[u].year] = "OPEN" BY <1>4 DEF Admissible
  <2> QED BY <1>1, <1>4, <2>1 DEF StillAdmissible, Same
<1>5. CASE tx[u].kind \notin {"approveClose", "approveReopen", "create", "issue"}
  BY <1>1, <1>5 DEF StillAdmissible, Same
<1> QED BY <1>2, <1>3, <1>4, <1>5

\* A transaction between its check and its commit: no other one may change
\* the years it checked, nor create a draft in a year it approves of.
LEMMA StaysAdmissible ==
    ASSUME CycleTypeOK, LedgersOK, DocumentsOK, LockInv, [Next]_vars,
           NEW u \in Transactions, tx[u].checked, Same(tx'[u], tx[u]), tx'[u] # Idle
    PROVE  StillAdmissible(u)'
<1>1. /\ Kept /\ Guarded(u) /\ StillAdmissible(u) /\ Refers(tx[u])
      /\ \A r \in 1..Len(reopens) : reopens[r].close \in 1..Len(closes)
  BY RequestsKept DEF LockInv, CycleTypeOK
<1>2. ASSUME NEW t \in Transactions, CommitApproveClose(t) \/ CommitApproveReopen(t) PROVE t # u
  BY <1>2, ApproverHolds, Ends
<1>3. ASSUME NEW t \in Transactions, CommitCreate(t) PROVE t # u
  BY <1>3, Ends DEF CommitCreate, Committing
<1>4. ASSUME NEW l \in held[u], NEW t \in Transactions, NEW m \in held[t], t # u
      PROVE  ~ Conflicting(l, m) /\ ~ Conflicting(m, l)
  BY <1>4 DEF LockInv, LocksExclude, Conflicting
<1>5. CASE tx[u].kind \in {"approveClose", "approveReopen"}
  <2>1. PICK y : y = ApprovedYear(u) OBVIOUS
  <2>2. {Cycle, Exclusive("year", y), Exclusive("year", y + 1)} \subseteq held[u]
    BY <1>1, <1>5, <2>1 DEF Guarded, Needs, ApprovedYear
  <2>3. y \in Years /\ y + 1 \in Years
    BY <1>1, <1>5, <2>1, RequestYear DEF ApprovedYear, Refers
  <2>4. year' = year
    <3>1. ASSUME NEW t \in Transactions, CommitApproveClose(t) \/ CommitApproveReopen(t) PROVE FALSE
      BY <1>2, <1>4, <2>2, <3>1, ApproverHolds, Conflicts
    <3>2. ~ CreateInitialYear
      BY <1>1, <1>5, <2>1, <2>3 DEF StillAdmissible, ApprovedYear, CreateInitialYear
    <3> QED BY <3>1, <3>2, YearWriters
  <2>5. ASSUME NEW z \in {y, y + 1}, NoDraftIn(z) PROVE NoDraftIn(z)'
    <3>1. ASSUME NEW d \in Invoices, doc'[d].status = "DRAFT", doc'[d].year = z PROVE FALSE
      <4>1. PICK t \in Transactions :
              CommitCreate(t) /\ d \in tx[t].doc /\ doc'[d].year = tx[t].year
        BY <2>5, <3>1, DocumentStep DEF NoDraftIn
      <4>2. tx[t].kind = "create" /\ tx[t].checked /\ Needs(tx[t]) \subseteq held[t]
        BY <4>1, Checked DEF CommitCreate, Committing
      <4>3. Shared("year", z) \in held[t] BY <3>1, <4>1, <4>2 DEF Needs
      <4>4. Exclusive("year", z) \in held[u] BY <2>2
      <4> QED BY <1>3, <1>4, <4>1, <4>3, <4>4, Conflicts
    <3> QED BY <3>1 DEF NoDraftIn
  <2>6. ApprovedYear(u)' = y
    BY <1>1, <1>5, <2>1 DEF ApprovedYear, Kept, Same, Refers
  <2>7. CASE tx[u].kind = "approveClose"
    <3>1. year[y] = "OPEN" /\ year[y + 1] \in {"ABSENT", "REVERSED"} /\ NoDraftIn(y)
      BY <1>1, <2>1, <2>7 DEF StillAdmissible, ApprovedYear
    <3>2. tx'[u].kind = "approveClose" /\ closes'[tx'[u].close].year = y
      BY <2>6, <2>7 DEF Same, ApprovedYear
    <3>3. NoDraftIn(y)' BY <2>5, <3>1
    <3> QED BY <2>4, <3>1, <3>2, <3>3 DEF StillAdmissible
  <2>8. CASE tx[u].kind = "approveReopen"
    <3>1. /\ year[y] = "CLOSED" /\ year[y + 1] = "OPEN" /\ NoDraftIn(y + 1)
          /\ y + 2 \in Years => year[y + 2] = "ABSENT"
      BY <1>1, <2>1, <2>8 DEF StillAdmissible, ApprovedYear
    <3>2. tx'[u].kind = "approveReopen" /\ closes'[reopens'[tx'[u].reopen].close].year = y
      BY <2>6, <2>8 DEF Same, ApprovedYear
    <3>3. NoDraftIn(y + 1)' BY <2>5, <3>1
    <3> QED BY <2>4, <3>1, <3>2, <3>3 DEF StillAdmissible
  <2> QED BY <1>5, <2>7, <2>8
<1>6. CASE tx[u].kind \in {"create", "issue"}
  <2>1. PICK y \in Years : y = tx[u].year BY <1>1, <1>6 DEF Refers
  <2>2. year[y] = "OPEN" BY <1>1, <1>6, <2>1 DEF StillAdmissible
  <2>3. \/ Cycle \in held[u] \/ Shared("year", y) \in held[u] \/ Exclusive("year", y) \in held[u]
    BY <1>1, <1>6, <2>1, DocumentHolds
  <2>4. year'[y] = year[y]
    <3>1. ASSUME NEW t \in Transactions, CommitApproveClose(t) \/ CommitApproveReopen(t)
          PROVE  year'[y] = year[y]
      <4>1. /\ Cycle \in held[t]
            /\ \A z \in {ApprovedYear(t), ApprovedYear(t) + 1} : Exclusive("year", z) \in held[t]
            /\ year'[y] # year[y] => y \in {ApprovedYear(t), ApprovedYear(t) + 1}
        BY <3>1, ApproverHolds
      <4>2. Exclusive("year", y) \notin held[t] BY <1>2, <1>4, <2>3, <3>1, <4>1, Conflicts
      <4> QED BY <4>1, <4>2
    <3>2. ~ CreateInitialYear BY <2>2 DEF CreateInitialYear
    <3> QED BY <3>1, <3>2, YearWriters
  <2> QED BY <1>6, <2>1, <2>2, <2>4 DEF StillAdmissible, Same
<1>7. CASE tx[u].kind \notin {"approveClose", "approveReopen", "create", "issue"}
  BY <1>7 DEF StillAdmissible, Same
<1> QED BY <1>5, <1>6, <1>7

LEMMA LockInvStep ==
    ASSUME CycleTypeOK, LedgersOK, DocumentsOK, LockInv, [Next]_vars
    PROVE  LockInv'
<1>1. LocksExclude' BY LocksExcludeStep DEF LockInv
<1>2. ASSUME NEW u \in Transactions PROVE Guarded(u)' BY GuardedStep DEF LockInv
<1>3. ASSUME NEW u \in Transactions PROVE StillAdmissible(u)'
  <2>1. CASE ~ tx'[u].checked BY <2>1 DEF StillAdmissible
  <2>2. ASSUME tx[u].checked, tx'[u].checked, Same(tx'[u], tx[u]) PROVE StillAdmissible(u)'
    <3>1. tx'[u] # Idle BY <2>2, IdleType
    <3> QED BY <2>2, <3>1, StaysAdmissible
  <2>3. Same(tx[u], tx[u]) BY DEF Same
  <2>4. ASSUME tx'[u] = tx[u] PROVE StillAdmissible(u)' BY <2>1, <2>2, <2>3, <2>4
  <2>5. ASSUME Lock(u) PROVE StillAdmissible(u)' BY <2>1, <2>2, <2>5, Locks
  <2>6. ASSUME CheckOrRefuse(u), Admissible(u, reopens') PROVE StillAdmissible(u)'
    BY <2>6, CheckEstablishes, RequestsKept
  <2>7. ASSUME End(u) PROVE StillAdmissible(u)' BY <2>1, <2>7, Ends, IdleType
  <2>8. ASSUME NEW op, Begun(op), Begin(u, op) PROVE StillAdmissible(u)' BY <2>1, <2>8, Begins
  <2>9. ASSUME NEW t \in Transactions, t # u, NEW op, Begun(op), Begin(t, op)
        PROVE  StillAdmissible(u)'
    BY <2>4, <2>9, Begins
  <2>10. ASSUME NEW t \in Transactions, t # u, Lock(t) PROVE StillAdmissible(u)'
    BY <2>4, <2>10, Locks
  <2>11. ASSUME NEW t \in Transactions, t # u, CheckOrRefuse(t), Admissible(t, reopens')
         PROVE  StillAdmissible(u)'
    BY <2>4, <2>11, Passes
  <2>12. ASSUME NEW t \in Transactions, t # u, End(t) PROVE StillAdmissible(u)'
    BY <2>4, <2>12, Ends
  <2>13. ASSUME NEW t \in Transactions,
                \/ \E op : Begun(op) /\ Begin(t, op)
                \/ Lock(t)
                \/ CheckOrRefuse(t) /\ Admissible(t, reopens')
                \/ End(t)
         PROVE  StillAdmissible(u)'
    <3>1. CASE t = u BY <2>5, <2>6, <2>7, <2>8, <2>13, <3>1
    <3>2. CASE t # u BY <2>9, <2>10, <2>11, <2>12, <2>13, <3>2
    <3> QED BY <3>1, <3>2
  <2>14. ASSUME UNCHANGED <<held, tx>> PROVE StillAdmissible(u)' BY <2>4, <2>14
  <2> QED BY <2>13, <2>14, StepOfOne
<1> QED BY <1>1, <1>2, <1>3 DEF LockInv

LEMMA Start ==
    ASSUME Init
    PROVE  CycleTypeOK /\ LedgersOK /\ DocumentsOK /\ LockInv
<1>1. CycleTypeOK
  <2>1. \A t \in Transactions : tx[t] = Idle /\ Refers(tx[t]) BY IdleType DEF Init, Refers
  <2> QED BY <2>1, IdleType DEF Init, CycleTypeOK, Statuses
<1>2. LedgersOK
  <2>1. IsSequence(<<>>) BY DEF IsSequence
  <2> QED BY <2>1 DEF Init, LedgersOK
<1>3. DocumentsOK BY DEF Init, DocumentsOK, Undated
<1>4. LockInv
  BY IdleType DEF Init, LockInv, LocksExclude, Guarded, StillAdmissible, Started
<1> QED BY <1>1, <1>2, <1>3, <1>4

CycleInv == CycleTypeOK /\ LedgersOK /\ DocumentsOK /\ LockInv

LEMMA CycleStep == ASSUME CycleInv, [Next]_vars PROVE CycleInv'
<1> USE DEF CycleInv
<1>1. LedgersOK' BY LedgerStep DEF Written, Grown, LedgersOK
<1> QED BY <1>1, CycleTypeStep, DocumentStep, LockInvStep

\* The inductive invariant: types, ledgers and documents that fit their years, and
\* transactions whose locks keep true what they checked, until they commit.
THEOREM CycleInvariant == Spec => []CycleInv
<1>1. Init => CycleInv BY Start DEF CycleInv
<1> QED BY <1>1, CycleStep, PTL DEF Spec
-----------------------------------------------------------------------------
(* What follows for years, drafts and books.                                 *)

\* What an approval finds and does at its commit.
LEMMA Committed ==
    ASSUME CycleInv, NEW t \in Transactions
    PROVE  /\ CommitApproveClose(t) =>
                \E y \in Years :
                    /\ y = closes[tx[t].close].year /\ y + 1 \in Years
                    /\ year[y] = "OPEN" /\ year[y + 1] \in {"ABSENT", "REVERSED"} /\ NoDraftIn(y)
                    /\ year' = [year EXCEPT ![y] = "CLOSED", ![y + 1] = "OPEN"]
           /\ CommitApproveReopen(t) =>
                \E y \in Years :
                    /\ y = closes[reopens[tx[t].reopen].close].year /\ y + 1 \in Years
                    /\ year[y] = "CLOSED" /\ year[y + 1] = "OPEN" /\ NoDraftIn(y + 1)
                    /\ y + 2 \in Years => year[y + 2] = "ABSENT"
                    /\ year' = [year EXCEPT ![y + 1] = "REVERSED", ![y] = "OPEN"]
<1> USE DEF CycleInv
<1>1. ASSUME CommitApproveClose(t) PROVE tx[t].kind = "approveClose" /\ tx[t].checked
  BY <1>1, Checked DEF CommitApproveClose
<1>2. ASSUME CommitApproveReopen(t) PROVE tx[t].kind = "approveReopen" /\ tx[t].checked
  BY <1>2, Checked DEF CommitApproveReopen
<1>3. StillAdmissible(t) BY DEF LockInv
<1> QED BY <1>1, <1>2, <1>3, Approvals DEF StillAdmissible

LEMMA OneOpenYearStep ==
    ASSUME CycleInv, OneOpenYear, [Next]_vars
    PROVE  OneOpenYear'
<1>1. year \in [Years -> Statuses] /\ Years = 1..LastYear BY DEF CycleInv, CycleTypeOK, Years
<1>2. CASE UNCHANGED year BY <1>2 DEF OneOpenYear
<1>3. CASE CreateInitialYear
  <2>1. year' = [year EXCEPT ![1] = "OPEN"] /\ \A y \in Years : year[y] = "ABSENT"
    BY <1>3 DEF CreateInitialYear
  <2>2. 1 \in Years BY <1>1
  <2>3. /\ year'[1] = "OPEN" /\ \A y \in Years : ~ y < 1
        /\ \A y \in Years : y # 1 => year'[y] = "ABSENT"
    BY <1>1, <2>1, <2>2
  <2> QED BY <1>1, <2>2, <2>3 DEF OneOpenYear
<1>4. ASSUME NEW y \in Years, year[y] \in {"OPEN", "CLOSED"}
      PROVE  \E o \in Years :
               /\ year[o] = "OPEN"
               /\ \A z \in Years : z < o => year[z] = "CLOSED"
               /\ \A z \in Years : z = o + 1 => year[z] \in {"ABSENT", "REVERSED"}
               /\ \A z \in Years : z > o + 1 => year[z] = "ABSENT"
  BY <1>4 DEF OneOpenYear
<1>5. ASSUME NEW t \in Transactions, CommitApproveClose(t) PROVE OneOpenYear'
  <2>1. PICK y \in Years :
          /\ y + 1 \in Years /\ year[y] = "OPEN"
          /\ year' = [year EXCEPT ![y] = "CLOSED", ![y + 1] = "OPEN"]
    BY <1>5, Committed
  <2>2. /\ \A z \in Years : z < y => year[z] = "CLOSED"
        /\ \A z \in Years : z > y + 1 => year[z] = "ABSENT"
    <3>1. PICK o \in Years :
            /\ year[o] = "OPEN"
            /\ \A z \in Years : z < o => year[z] = "CLOSED"
            /\ \A z \in Years : z = o + 1 => year[z] \in {"ABSENT", "REVERSED"}
            /\ \A z \in Years : z > o + 1 => year[z] = "ABSENT"
      BY <1>4, <2>1
    <3>2. o = y BY <1>1, <2>1, <3>1
    <3> QED BY <3>1, <3>2
  <2>3. /\ year'[y + 1] = "OPEN" /\ year'[y] = "CLOSED"
        /\ \A z \in Years : z # y /\ z # y + 1 => year'[z] = year[z]
    BY <1>1, <2>1
  <2>4. /\ \A z \in Years : z < y + 1 => year'[z] = "CLOSED"
        /\ \A z \in Years : z > y + 1 => year'[z] = "ABSENT"
    BY <1>1, <2>1, <2>2, <2>3
  <2>5. /\ \A z \in Years : z = (y + 1) + 1 => year'[z] \in {"ABSENT", "REVERSED"}
        /\ \A z \in Years : z > (y + 1) + 1 => year'[z] = "ABSENT"
    BY <1>1, <2>4
  <2> QED BY <2>1, <2>3, <2>4, <2>5 DEF OneOpenYear
<1>6. ASSUME NEW t \in Transactions, CommitApproveReopen(t) PROVE OneOpenYear'
  <2>1. PICK y \in Years :
          /\ y + 1 \in Years /\ year[y + 1] = "OPEN"
          /\ year' = [year EXCEPT ![y + 1] = "REVERSED", ![y] = "OPEN"]
          /\ y + 2 \in Years => year[y + 2] = "ABSENT"
    BY <1>6, Committed
  <2>2. /\ \A z \in Years : z < y + 1 => year[z] = "CLOSED"
        /\ \A z \in Years : z > y + 1 => year[z] = "ABSENT"
    <3>1. PICK o \in Years :
            /\ year[o] = "OPEN"
            /\ \A z \in Years : z < o => year[z] = "CLOSED"
            /\ \A z \in Years : z = o + 1 => year[z] \in {"ABSENT", "REVERSED"}
            /\ \A z \in Years : z > o + 1 => year[z] = "ABSENT"
      BY <1>4, <2>1
    <3>2. o = y + 1 BY <1>1, <2>1, <3>1
    <3>3. ASSUME NEW z \in Years, z > y + 1 PROVE year[z] = "ABSENT"
      <4>1. CASE z = y + 2 BY <2>1, <4>1
      <4>2. CASE z # y + 2 BY <1>1, <3>1, <3>2, <3>3, <4>2
      <4> QED BY <4>1, <4>2
    <3> QED BY <3>1, <3>2, <3>3
  <2>3. /\ year'[y + 1] = "REVERSED" /\ year'[y] = "OPEN"
        /\ \A z \in Years : z # y /\ z # y + 1 => year'[z] = year[z]
    BY <1>1, <2>1
  <2>4. /\ \A z \in Years : z < y => year'[z] = "CLOSED"
        /\ \A z \in Years : z = y + 1 => year'[z] \in {"ABSENT", "REVERSED"}
        /\ \A z \in Years : z > y + 1 => year'[z] = "ABSENT"
    BY <1>1, <2>1, <2>2, <2>3
  <2> QED BY <2>3, <2>4 DEF OneOpenYear
<1> QED BY <1>2, <1>3, <1>5, <1>6, YearWriters DEF CycleInv

\* One year is open, those before it are closed, and only what a reopening left
\* comes after it, whatever requests are approved at the same time.
THEOREM YearsStayInLine == Spec => []OneOpenYear
<1>1. Init => OneOpenYear BY DEF Init, OneOpenYear
<1>2. CycleInv /\ OneOpenYear /\ [Next]_vars => OneOpenYear' BY OneOpenYearStep
<1> QED BY <1>1, <1>2, CycleInvariant, PTL DEF Spec

DraftsDated == \A d \in Invoices : doc[d].status = "DRAFT" => doc[d].year \in Years

LEMMA DraftsStep ==
    ASSUME CycleInv, NoDraftInClosedYear, DraftsDated, [Next]_vars,
           NEW d \in Invoices, doc'[d].status = "DRAFT"
    PROVE  doc'[d].year \in Years /\ year'[doc'[d].year] = "OPEN"
<1>1. year \in [Years -> Statuses] /\ \A t \in Transactions : Refers(tx[t]) /\ StillAdmissible(t)
  BY DEF CycleInv, CycleTypeOK, LockInv
<1>2. PICK y : y = doc'[d].year OBVIOUS
<1>3. CASE doc[d].status = "DRAFT" /\ doc[d].year = y
  <2>1. y \in Years /\ year[y] = "OPEN" BY <1>3 DEF NoDraftInClosedYear, DraftsDated
  <2>2. \A z \in Years : NoDraftIn(z) => y # z BY <1>3 DEF NoDraftIn
  <2>3. ASSUME NEW t \in Transactions, CommitApproveClose(t) PROVE year'[y] = "OPEN"
    <3>1. PICK z \in Years : /\ z + 1 \in Years /\ NoDraftIn(z)
                             /\ year' = [year EXCEPT ![z] = "CLOSED", ![z + 1] = "OPEN"]
      BY <2>3, Committed
    <3>2. y # z BY <2>2, <3>1
    <3> QED BY <1>1, <2>1, <3>1, <3>2
  <2>4. ASSUME NEW t \in Transactions, CommitApproveReopen(t) PROVE year'[y] = "OPEN"
    <3>1. PICK z \in Years : /\ z + 1 \in Years /\ NoDraftIn(z + 1)
                             /\ year' = [year EXCEPT ![z + 1] = "REVERSED", ![z] = "OPEN"]
      BY <2>4, Committed
    <3>2. y # z + 1 BY <2>2, <3>1
    <3> QED BY <1>1, <2>1, <3>1, <3>2
  <2>5. ~ CreateInitialYear BY <2>1 DEF CreateInitialYear
  <2> QED BY <1>2, <2>1, <2>3, <2>4, <2>5, YearWriters DEF CycleInv
<1>4. ASSUME NEW t \in Transactions, CommitCreate(t), y = tx[t].year
      PROVE  y \in Years /\ year'[y] = "OPEN"
  <2>1. tx[t].kind = "create" /\ tx[t].checked BY <1>4, Checked DEF CommitCreate, CycleInv
  <2>2. year' = year BY <1>4 DEF CommitCreate
  <2> QED BY <1>1, <1>4, <2>1, <2>2 DEF StillAdmissible, Refers
<1> QED BY <1>2, <1>3, <1>4, DocumentStep DEF CycleInv

\* A draft is always dated in an open year: one that is created while the year
\* is being closed either keeps it from closing or is refused.
THEOREM DraftsAreInOpenYears == Spec => []NoDraftInClosedYear
<1>1. Init => NoDraftInClosedYear /\ DraftsDated
  BY DEF Init, NoDraftInClosedYear, DraftsDated, Undated, Documents
<1>2. CycleInv /\ NoDraftInClosedYear /\ DraftsDated /\ [Next]_vars =>
        NoDraftInClosedYear' /\ DraftsDated'
  BY DraftsStep DEF NoDraftInClosedYear, DraftsDated
<1> QED BY <1>1, <1>2, CycleInvariant, PTL DEF Spec

LEMMA FrozenStep ==
    ASSUME CycleInv, [Next]_vars, NEW y \in Years
    PROVE  /\ Len(ledger[y]) <= Len(ledger'[y])
           /\ \A p \in 1..Len(ledger[y]) : ledger'[y][p] = ledger[y][p]
           /\ year[y] # "OPEN" /\ year'[y] = year[y] => ledger'[y] = ledger[y]
<1>1. Written BY LedgerStep DEF CycleInv
<1>2. year \in [Years -> Statuses] /\ \A t \in Transactions : StillAdmissible(t)
  BY DEF CycleInv, CycleTypeOK, LockInv
<1>3. ASSUME NEW t \in Transactions, Posts(t, y) PROVE year[y] = "OPEN"
  <2>1. tx[t].kind \in {"create", "issue"} /\ tx[t].checked /\ tx[t].year = y
    BY <1>3, Checked DEF Posts, CommitIssue, CommitCreate, CycleInv
  <2> QED BY <1>2, <2>1 DEF StillAdmissible
<1>4. ASSUME NEW t \in Transactions, Closes(t, y) PROVE year'[y] # year[y]
  <2>1. PICK z \in Years :
          /\ z = closes[tx[t].close].year /\ z + 1 \in Years
          /\ year[z] = "OPEN" /\ year[z + 1] \in {"ABSENT", "REVERSED"}
          /\ year' = [year EXCEPT ![z] = "CLOSED", ![z + 1] = "OPEN"]
    BY <1>4, Committed DEF Closes
  <2>2. y \in {z, z + 1} /\ z # z + 1 BY <1>4, <2>1 DEF Closes, Years
  <2> QED BY <1>2, <2>1, <2>2
<1>5. ASSUME NEW t \in Transactions, Reopens(t, y) PROVE year'[y] # year[y]
  <2>1. PICK z \in Years :
          /\ z = closes[reopens[tx[t].reopen].close].year /\ z + 1 \in Years
          /\ year[z] = "CLOSED" /\ year[z + 1] = "OPEN"
          /\ year' = [year EXCEPT ![z + 1] = "REVERSED", ![z] = "OPEN"]
    BY <1>5, Committed DEF Reopens
  <2>2. y \in {z, z + 1} /\ z # z + 1 BY <1>5, <2>1 DEF Reopens, Years
  <2> QED BY <1>2, <2>1, <2>2
<1> QED BY <1>1, <1>3, <1>4, <1>5 DEF Written, Grown

\* Nothing is posted in a year that is not open and no entry is ever changed:
\* a posting that runs next to a close is in the books before it or is refused.
THEOREM BooksStayFrozen == Spec => BooksFrozen
<1>1. CycleInv /\ [Next]_vars =>
        [\A y \in Years :
           /\ Len(ledger[y]) <= Len(ledger'[y])
           /\ \A p \in 1..Len(ledger[y]) : ledger'[y][p] = ledger[y][p]
           /\ year[y] # "OPEN" /\ year'[y] = year[y] => ledger'[y] = ledger[y]]_vars
  BY FrozenStep
<1> QED BY <1>1, CycleInvariant, PTL DEF Spec, BooksFrozen
-----------------------------------------------------------------------------
(* Deadlocks.                                                                *)

\* Every transaction takes the locks it has left above those that it holds.
InOrder == \A t \in Transactions : Ordered(tx[t].todo, held[t])

LEMMA OrderMoves ==
    ASSUME NEW s \in Seq(Steps), NEW mine, Ordered(s, mine), s # <<>>
    PROVE  /\ Head(s) # Check => Ordered(Tail(s), mine \cup {Head(s)})
           /\ Ordered(Tail(s), mine)
<1>1. Len(s) \in Nat /\ s # <<>> /\ 1 \in 1..Len(s) BY TailOf
<1>2. PICK z \in Seq(Steps) : z = Tail(s) /\ Len(z) = Len(s) - 1 /\ Head(s) = s[1]
        /\ \A j \in 1..Len(z) : z[j] = s[j + 1]
  BY <1>1, TailOf
<1>3. ASSUME NEW i \in 1..Len(z), z[i] # Check
      PROVE  /\ Rank(z[i]) \in Nat
             /\ \A l \in mine : Rank(l) < Rank(z[i])
             /\ s[1] # Check => Rank(s[1]) < Rank(z[i])
             /\ \A j \in 1..(i - 1) : z[j] # Check => Rank(z[j]) < Rank(z[i])
  <2>1. i + 1 \in 1..Len(s) /\ s[i + 1] # Check /\ z[i] = s[i + 1] BY <1>1, <1>2, <1>3
  <2>2. /\ Rank(s[i + 1]) \in Nat
        /\ \A l \in mine : Rank(l) < Rank(s[i + 1])
        /\ \A j \in 1..i : s[j] # Check => Rank(s[j]) < Rank(s[i + 1])
    BY <1>1, <1>2, <2>1 DEF Ordered
  <2>3. ASSUME NEW j \in 1..(i - 1), z[j] # Check PROVE Rank(z[j]) < Rank(z[i])
    <3>1. j \in 1..Len(z) /\ j + 1 \in 1..i BY <1>1, <1>2
    <3> QED BY <1>2, <2>1, <2>2, <2>3, <3>1
  <2>4. 1 \in 1..i BY <1>1, <1>2
  <2> QED BY <2>1, <2>2, <2>3, <2>4
<1>4. \A l \in mine : Rank(l) \in Nat BY DEF Ordered
<1>5. s[1] # Check => Rank(s[1]) \in Nat BY <1>1 DEF Ordered
<1> QED BY <1>2, <1>3, <1>4, <1>5 DEF Ordered

LEMMA OrderStep ==
    ASSUME CycleTypeOK, InOrder, [Next]_vars
    PROVE  InOrder'
<1>1. tx \in [Transactions -> Operations] /\ \A t \in Transactions : Ordered(tx[t].todo, held[t])
  BY DEF CycleTypeOK, InOrder
<1>2. ASSUME NEW t \in Transactions, Ordered(tx'[t].todo, held'[t]),
             \A u \in Transactions \ {t} : tx'[u] = tx[u] /\ held'[u] = held[u]
      PROVE  InOrder'
  <2>1. ASSUME NEW u \in Transactions PROVE Ordered(tx'[u].todo, held'[u]) BY <1>1, <1>2
  <2> QED BY <2>1 DEF InOrder, Ordered
<1>3. CASE UNCHANGED <<held, tx>> BY <1>3 DEF InOrder, Ordered
<1>4. ASSUME NEW t \in Transactions, NEW op, Begun(op), Begin(t, op) PROVE InOrder'
  <2>1. /\ op.todo \in Seq(Steps) /\ op.todo # <<>> /\ Ordered(op.todo, {})
        /\ Guards(op.todo, Needs(op))
    BY <1>4 DEF Begun, Operations
  <2>2. Head(op.todo) # Check BY <2>1, TailOf DEF Guards
  <2>3. Ordered(Tail(op.todo), {} \cup {Head(op.todo)}) BY <2>1, <2>2, OrderMoves
  <2>4. /\ held'[t] = {Head(op.todo)} /\ tx'[t].todo = Tail(op.todo)
        /\ \A u \in Transactions \ {t} : tx'[u] = tx[u] /\ held'[u] = held[u]
    BY <1>4, Begins
  <2>5. {} \cup {Head(op.todo)} = {Head(op.todo)} OBVIOUS
  <2>6. Ordered(tx'[t].todo, held'[t]) BY <2>3, <2>4, <2>5
  <2> QED BY <1>2, <2>4, <2>6
<1>5. ASSUME NEW t \in Transactions, Lock(t) PROVE InOrder'
  <2>1. Ordered(Tail(tx[t].todo), held[t] \cup {Head(tx[t].todo)})
    BY <1>1, <1>5, Locks, OrderMoves
  <2> QED BY <1>2, <1>5, <2>1, Locks
<1>6. ASSUME NEW t \in Transactions, CheckOrRefuse(t), Admissible(t, reopens') PROVE InOrder'
  <2>1. tx[t] \in Operations /\ tx[t].todo \in Seq(Steps) BY <1>1 DEF Operations
  <2>2. tx[t].todo # <<>> BY <1>6 DEF CheckOrRefuse, Busy
  <2>3. Ordered(Tail(tx[t].todo), held[t]) BY <1>1, <2>1, <2>2, OrderMoves
  <2>4. tx'[t].todo = Tail(tx[t].todo)
    <3>1. tx' = [tx EXCEPT ![t] = [tx[t] EXCEPT !.todo = Tail(tx[t].todo), !.checked = TRUE]]
      BY <1>6 DEF CheckOrRefuse
    <3> QED BY <1>1, <2>1, <3>1 DEF Operations
  <2> QED BY <1>2, <1>6, <2>3, <2>4, Passes
<1>7. ASSUME NEW t \in Transactions, End(t) PROVE InOrder'
  <2>1. Ordered(<<>>, {}) BY DEF Ordered
  <2> QED BY <1>2, <1>7, <2>1, Ends, IdleType
<1> QED BY <1>3, <1>4, <1>5, <1>6, <1>7, StepOfOne

\* A transaction waits for a lock that ranks above all it holds itself.
LEMMA WaitsUpwards ==
    ASSUME CycleTypeOK, InOrder, NEW t \in Transactions, NEW u \in Transactions, Waits(t, u)
    PROVE  \E l \in held[u] : /\ Rank(l) \in Nat
                              /\ \A m \in held[t] : Rank(m) \in Nat /\ Rank(m) < Rank(l)
<1>1. tx[t] \in Operations /\ Ordered(tx[t].todo, held[t]) /\ Ordered(tx[u].todo, held[u])
  BY DEF CycleTypeOK, InOrder
<1>2. PICK l \in held[u] : Conflicting(Pending(t), l) BY DEF Waits
<1>3. PICK s \in Seq(Steps) : s = tx[t].todo BY <1>1 DEF Operations
<1>4. s # <<>> /\ Pending(t) = s[1] /\ 1 \in 1..Len(s)
  BY <1>3, TailOf DEF Waits, Busy, Pending
<1>5. Rank(l) \in Nat /\ Rank(l) = Rank(s[1])
  BY <1>1, <1>2, <1>4 DEF Ordered, Conflicting, Rank
<1>6. s[1] # Check
  <2>1. Rank(Check) \notin Nat BY RankOf
  <2> QED BY <1>5, <2>1
<1> QED BY <1>1, <1>3, <1>4, <1>5, <1>6 DEF Ordered

\* All operations take their locks in one order: every lock that a transaction
\* still takes ranks above all that it holds, and so no transactions, however
\* many, wait for each other in a circle.
THEOREM LocksInOrder == Spec => []InOrder
<1>1. Init => InOrder BY IdleType DEF Init, InOrder, Ordered
<1>2. CycleInv /\ InOrder /\ [Next]_vars => InOrder' BY OrderStep DEF CycleInv
<1> QED BY <1>1, <1>2, CycleInvariant, PTL DEF Spec

\* No two transactions of the accounting cycle ever wait for each other.
THEOREM NothingWaitsForItself == Spec => []NoDeadlock
<1>1. ASSUME CycleTypeOK, InOrder PROVE NoDeadlock
  <2>1. ASSUME NEW t \in Transactions, NEW u \in Transactions, Waits(t, u), Waits(u, t)
        PROVE  FALSE
    <3>1. PICK l \in held[u] : /\ Rank(l) \in Nat
                               /\ \A m \in held[t] : Rank(m) \in Nat /\ Rank(m) < Rank(l)
      BY <1>1, <2>1, WaitsUpwards
    <3>2. PICK k \in held[t] : /\ Rank(k) \in Nat
                               /\ \A m \in held[u] : Rank(m) \in Nat /\ Rank(m) < Rank(k)
      BY <1>1, <2>1, WaitsUpwards
    <3> QED BY <3>1, <3>2
  <2> QED BY <2>1 DEF NoDeadlock
<1> QED BY <1>1, CycleInvariant, LocksInOrder, PTL DEF CycleInv
-----------------------------------------------------------------------------
(* A request that is settled stays as it is.                                 *)

\* Of a transaction that has checked, what it found of its requests.
StillRequested(t) ==
    tx[t].checked =>
        /\ tx[t].kind \in {"approveClose", "cancelClose"} => closes[tx[t].close].status = "REQUESTED"
        /\ tx[t].kind \in {"approveReopen", "cancelReopen", "rejectReopen"} =>
             reopens[tx[t].reopen].status = "REQUESTED"
        /\ tx[t].kind = "approveReopen" =>
             LET c == reopens[tx[t].reopen].close IN
             closes[c].status = "COMPLETED" /\ ~ ReopenedIn(reopens, c)

\* Only what was closed is reopened.
CompletedReopens ==
    \A r \in 1..Len(reopens) :
        reopens[r].status = "COMPLETED" => closes[reopens[r].close].status = "COMPLETED"

RequestInv == CompletedReopens /\ \A t \in Transactions : StillRequested(t)

\* A commit that settles a request of closing, of reopening.
SettlesClose(t, c) == (CommitCancelClose(t) \/ CommitApproveClose(t)) /\ tx[t].close = c
SettlesReopen(t, r) == (CommitSettleReopen(t) \/ CommitApproveReopen(t)) /\ tx[t].reopen = r

\* Requests to reopen expire under the lock of the cycle, or when nobody holds it.
Expires(r) ==
    /\ reopens[r].status = "REQUESTED" /\ reopens'[r].status = "EXPIRED"
    /\ \/ \E t \in Transactions : CheckOrRefuse(t) /\ Cycle \in held[t]
       \/ \A t \in Transactions : Cycle \notin held[t]

ClosesWritten ==
    /\ Len(closes) \in Nat /\ Len(closes') \in Nat /\ Len(closes) <= Len(closes')
    /\ \A c \in 1..Len(closes) : closes'[c] = closes[c] \/ \E t \in Transactions : SettlesClose(t, c)
    /\ \A c \in 1..Len(closes') : c \notin 1..Len(closes) => closes'[c].status = "REQUESTED"
ReopensWritten ==
    /\ Len(reopens) \in Nat /\ Len(reopens') \in Nat /\ Len(reopens) <= Len(reopens')
    /\ \A r \in 1..Len(reopens) :
         \/ reopens'[r] = reopens[r]
         \/ \E t \in Transactions : SettlesReopen(t, r)
         \/ Expires(r)
    /\ \A r \in 1..Len(reopens') : r \notin 1..Len(reopens) => reopens'[r].status = "REQUESTED"

\* What the approval of a closing writes of its request and in the next year.
Approved(t, c, g) ==
    LET z == closes[c].year + 1 IN
    /\ c = tx[t].close /\ \E b, a : g = Opening(b, a)
    /\ Len(closes') = Len(closes) /\ \A k \in 1..Len(closes) : k # c => closes'[k] = closes[k]
    /\ closes'[c].status = "COMPLETED" /\ closes'[c].year = closes[c].year
    /\ closes'[c].opening = Position(ledger[z], g)
    /\ ledger'[z] = ledger[z] \o g
    /\ UNCHANGED <<reopens, doc>>

LEMMA CloseCommits ==
    ASSUME CycleTypeOK, LedgersOK, NEW t \in Transactions, CommitApproveClose(t)
    PROVE  \E c \in 1..Len(closes) : \E g : Approved(t, c, g)
<1>1. /\ closes \in Seq(CloseRequests) /\ DOMAIN ledger = Years /\ Refers(tx[t])
      /\ \A y \in Years : IsSequence(ledger[y])
  BY DEF CycleTypeOK, LedgersOK
<1>2. PICK c \in 1..Len(closes) : c = tx[t].close
  BY <1>1 DEF CommitApproveClose, Committing, Refers
<1>3. PICK y \in Years : y = closes[c].year /\ y + 1 \in Years BY RequestYear
<1>4. PICK b : b = Balance(ledger[y]) OBVIOUS
<1>5. PICK e : e = Regularization(b) OBVIOUS
<1>6. PICK f : f = Closing(Regularized(b)) OBVIOUS
<1>7. PICK g : g = Opening(Regularized(b), WithMissingAccounts(plan[y + 1], plan[y])) OBVIOUS
<1>8. PICK i, j, k :
        i = Position(ledger[y], e) /\ j = Position(ledger[y] \o e, f)
        /\ k = Position(ledger[y + 1], g)
  OBVIOUS
<1>9. PICK x : x = [closes[c] EXCEPT !.status = "COMPLETED", !.regularization = i,
                                     !.closing = j, !.opening = k]
  OBVIOUS
<1>10. closes' = [closes EXCEPT ![c] = x]
  BY <1>2, <1>3, <1>4, <1>5, <1>6, <1>7, <1>8, <1>9, Zenon DEF CommitApproveClose
<1>11. closes[c] \in CloseRequests BY <1>1
<1>12. x.status = "COMPLETED" /\ x.opening = k /\ x.year = y BY <1>3, <1>9, <1>11 DEF CloseRequests
<1>13. closes'[c] = x /\ Len(closes') = Len(closes)
       /\ \A q \in 1..Len(closes) : q # c => closes'[q] = closes[q]
  BY <1>1, <1>10
<1>14. PICK u, v : u = (ledger[y] \o e) \o f /\ v = ledger[y + 1] \o g OBVIOUS
<1>15. ledger' = [ledger EXCEPT ![y] = u, ![y + 1] = v]
  BY <1>2, <1>3, <1>4, <1>5, <1>6, <1>7, <1>14, Zenon DEF CommitApproveClose
<1>16. ledger'[y + 1] = v BY <1>1, <1>3, <1>15
<1>17. UNCHANGED <<reopens, doc>> BY DEF CommitApproveClose
<1>18. \E m, a : g = Opening(m, a) BY <1>7
<1>19. Approved(t, c, g)
  BY <1>2, <1>3, <1>8, <1>12, <1>13, <1>14, <1>16, <1>17, <1>18 DEF Approved
<1> QED BY <1>19

\* What the approval of a reopening writes of its request and in the next year.
Undone(t, r, g) ==
    LET c == reopens[r].close
        z == closes[c].year + 1 IN
    /\ r = tx[t].reopen /\ g = Reversal(ledger[z], closes[c].opening)
    /\ Len(reopens') = Len(reopens) /\ \A q \in 1..Len(reopens) : q # r => reopens'[q] = reopens[q]
    /\ reopens'[r].status = "COMPLETED" /\ reopens'[r].close = c
    /\ reopens'[r].opening = Position(ledger[z], g)
    /\ ledger'[z] = ledger[z] \o g
    /\ UNCHANGED <<closes, doc>>

LEMMA ReopenCommits ==
    ASSUME CycleTypeOK, LedgersOK, NEW t \in Transactions, CommitApproveReopen(t)
    PROVE  \E r \in 1..Len(reopens) : \E g : Undone(t, r, g)
<1>1. /\ reopens \in Seq(ReopenRequests) /\ DOMAIN ledger = Years /\ Refers(tx[t])
      /\ \A r \in 1..Len(reopens) : reopens[r].close \in 1..Len(closes)
  BY DEF CycleTypeOK, LedgersOK
<1>2. PICK r \in 1..Len(reopens) : r = tx[t].reopen
  BY <1>1 DEF CommitApproveReopen, Committing, Refers
<1>3. PICK c \in 1..Len(closes) : c = reopens[r].close BY <1>1
<1>4. PICK y \in Years : y = closes[c].year /\ y + 1 \in Years BY RequestYear
<1>5. PICK e : e = Reversal(ledger[y], closes[c].closing) OBVIOUS
<1>6. PICK f : f = Reversal(ledger[y], closes[c].regularization) OBVIOUS
<1>7. PICK g : g = Reversal(ledger[y + 1], closes[c].opening) OBVIOUS
<1>8. PICK k : k = Position(ledger[y + 1], g) OBVIOUS
<1>9. PICK x : x = [reopens[r] EXCEPT !.status = "COMPLETED", !.opening = k] OBVIOUS
<1>10. reopens' = [reopens EXCEPT ![r] = x]
  BY <1>2, <1>3, <1>4, <1>7, <1>8, <1>9, Zenon DEF CommitApproveReopen
<1>11. reopens[r] \in ReopenRequests BY <1>1
<1>12. x.status = "COMPLETED" /\ x.opening = k /\ x.close = c
  BY <1>3, <1>9, <1>11 DEF ReopenRequests
<1>13. reopens'[r] = x /\ Len(reopens') = Len(reopens)
       /\ \A q \in 1..Len(reopens) : q # r => reopens'[q] = reopens[q]
  BY <1>1, <1>10
<1>14. PICK u, v : u = (ledger[y] \o e) \o f /\ v = ledger[y + 1] \o g OBVIOUS
<1>15. ledger' = [ledger EXCEPT ![y] = u, ![y + 1] = v]
  BY <1>2, <1>3, <1>4, <1>5, <1>6, <1>7, <1>14, Zenon DEF CommitApproveReopen
<1>16. ledger'[y + 1] = v BY <1>1, <1>4, <1>15
<1>17. UNCHANGED <<closes, doc>> BY DEF CommitApproveReopen
<1>18. Undone(t, r, g)
  BY <1>2, <1>3, <1>4, <1>7, <1>8, <1>12, <1>13, <1>14, <1>16, <1>17 DEF Undone
<1> QED BY <1>18

LEMMA ClosesAreWritten ==
    ASSUME CycleTypeOK, LedgersOK, [Next]_vars
    PROVE  ClosesWritten
<1>1. closes \in Seq(CloseRequests) /\ \A t \in Transactions : Refers(tx[t]) BY DEF CycleTypeOK
<1>2. CASE UNCHANGED closes BY <1>1, <1>2 DEF ClosesWritten
<1>3. ASSUME NEW t \in Transactions, CommitRequestClose(t) PROVE ClosesWritten
  <2>1. PICK x : x = [year |-> tx[t].year, status |-> "REQUESTED", by |-> tx[t].user,
                      regularization |-> 0, closing |-> 0, opening |-> 0]
    OBVIOUS
  <2>2. closes' = Append(closes, x) /\ x.status = "REQUESTED"
    BY <1>3, <2>1 DEF CommitRequestClose
  <2>3. Len(closes') = Len(closes) + 1 /\ closes'[Len(closes) + 1] = x
        /\ \A c \in 1..Len(closes) : closes'[c] = closes[c]
    BY <1>1, <2>2
  <2> QED BY <1>1, <2>2, <2>3 DEF ClosesWritten
<1>4. ASSUME NEW t \in Transactions, CommitCancelClose(t) PROVE ClosesWritten
  <2>1. PICK c \in 1..Len(closes) : c = tx[t].close
    BY <1>1, <1>4 DEF CommitCancelClose, Committing, Refers
  <2>2. PICK x : x = [closes[c] EXCEPT !.status = "CANCELLED"] OBVIOUS
  <2>3. closes' = [closes EXCEPT ![c] = x] BY <1>4, <2>1, <2>2 DEF CommitCancelClose
  <2>4. Len(closes') = Len(closes) /\ \A k \in 1..Len(closes) : k # c => closes'[k] = closes[k]
    BY <1>1, <2>3
  <2> QED BY <1>1, <1>4, <2>1, <2>4 DEF ClosesWritten, SettlesClose
<1>5. ASSUME NEW t \in Transactions, CommitApproveClose(t) PROVE ClosesWritten
  <2>0. PICK c \in 1..Len(closes) : \E g : Approved(t, c, g) BY <1>5, CloseCommits
  <2>1. PICK g : Approved(t, c, g) BY <2>0
  <2>2. /\ c = tx[t].close /\ Len(closes') = Len(closes)
        /\ \A k \in 1..Len(closes) : k # c => closes'[k] = closes[k]
    BY <2>1 DEF Approved
  <2> QED BY <1>1, <1>5, <2>2 DEF ClosesWritten, SettlesClose
<1>6. ASSUME NEW t \in Transactions, Commit(t), ~ CommitRequestClose(t),
             ~ CommitCancelClose(t), ~ CommitApproveClose(t)
      PROVE  UNCHANGED closes
  BY <1>6 DEF Commit, CommitRequestReopen, CommitApproveReopen, CommitSettleReopen,
       CommitOpenAccount, CommitCreate, CommitIssue
<1>7. ASSUME NEW t \in Transactions, CanBegin(t) \/ Lock(t) \/ CheckOrRefuse(t) \/ Fail(t)
      PROVE  UNCHANGED closes
  BY <1>7, BeginTyped DEF Begin, Lock, CheckOrRefuse, Fail, records
<1>8. ASSUME \/ UNCHANGED vars \/ CreateInitialYear \/ ListReopens
             \/ \E d \in Invoices, from, to \in {"PENDING", "RESOLVED"} :
                  FiscalStatusChanges(d, from, to)
      PROVE  UNCHANGED closes
  BY <1>8 DEF CreateInitialYear, ListReopens, FiscalStatusChanges, vars
<1>9. ASSUME NEW t \in Transactions, Commit(t) PROVE ClosesWritten
  BY <1>2, <1>3, <1>4, <1>5, <1>6, <1>9
<1> QED BY <1>2, <1>7, <1>8, <1>9 DEF Next

\* Everyone who reads requests to reopen and writes them holds the cycle.
LEMMA HoldsCycle ==
    ASSUME NEW t \in Transactions, tx[t].kind \in ReopenOperation, Needs(tx[t]) \subseteq held[t]
    PROVE  Cycle \in held[t]
BY DEF ReopenOperation, Needs

LEMMA ExpiryWrites ==
    ASSUME CycleTypeOK, NEW n, NEW c, reopens' = Expired(n, c), NEW r \in 1..Len(reopens)
    PROVE  \/ reopens'[r] = reopens[r]
           \/ reopens[r].status = "REQUESTED" /\ reopens'[r].status = "EXPIRED"
<1>1. reopens[r] \in ReopenRequests BY DEF CycleTypeOK
<1>2. PICK x : x = [reopens[r] EXCEPT !.status = "EXPIRED"] OBVIOUS
<1>3. x.status = "EXPIRED" BY <1>1, <1>2 DEF ReopenRequests
<1>4. reopens'[r] = IF r <= n /\ reopens[r].status = "REQUESTED" /\ c \in {0, reopens[r].close}
                    THEN x ELSE reopens[r]
  BY <1>2 DEF Expired
<1> QED BY <1>3, <1>4

LEMMA ReopensAreWritten ==
    ASSUME CycleTypeOK, LedgersOK, \A t \in Transactions : Guarded(t), [Next]_vars
    PROVE  ReopensWritten
<1>1. reopens \in Seq(ReopenRequests) /\ \A t \in Transactions : Refers(tx[t]) BY DEF CycleTypeOK
<1>2. CASE UNCHANGED reopens BY <1>1, <1>2 DEF ReopensWritten
<1>3. ASSUME NEW t \in Transactions, CommitRequestReopen(t) PROVE ReopensWritten
  <2>1. PICK x : x = [close |-> tx[t].close, status |-> "REQUESTED", by |-> tx[t].user,
                      opening |-> 0]
    OBVIOUS
  <2>2. reopens' = Append(reopens, x) /\ x.status = "REQUESTED"
    BY <1>3, <2>1 DEF CommitRequestReopen
  <2>3. Len(reopens') = Len(reopens) + 1 /\ reopens'[Len(reopens) + 1] = x
        /\ \A r \in 1..Len(reopens) : reopens'[r] = reopens[r]
    BY <1>1, <2>2
  <2> QED BY <1>1, <2>2, <2>3 DEF ReopensWritten
<1>4. ASSUME NEW t \in Transactions, CommitSettleReopen(t) PROVE ReopensWritten
  <2>1. PICK r \in 1..Len(reopens) : r = tx[t].reopen
    BY <1>1, <1>4 DEF CommitSettleReopen, Committing, Refers
  <2>2. PICK s \in {"CANCELLED", "REJECTED"} : reopens' = [reopens EXCEPT ![r].status = s]
    BY <1>4, <2>1 DEF CommitSettleReopen
  <2>3. PICK x : x = [reopens[r] EXCEPT !.status = s] OBVIOUS
  <2>4. reopens' = [reopens EXCEPT ![r] = x] BY <2>2, <2>3
  <2>5. Len(reopens') = Len(reopens) /\ \A q \in 1..Len(reopens) : q # r => reopens'[q] = reopens[q]
    BY <1>1, <2>4
  <2> QED BY <1>1, <1>4, <2>1, <2>5 DEF ReopensWritten, SettlesReopen
<1>5. ASSUME NEW t \in Transactions, CommitApproveReopen(t) PROVE ReopensWritten
  <2>0. PICK r \in 1..Len(reopens) : \E g : Undone(t, r, g) BY <1>5, ReopenCommits
  <2>1. PICK g : Undone(t, r, g) BY <2>0
  <2>2. /\ r = tx[t].reopen /\ Len(reopens') = Len(reopens)
        /\ \A q \in 1..Len(reopens) : q # r => reopens'[q] = reopens[q]
    BY <2>1 DEF Undone
  <2> QED BY <1>1, <1>5, <2>2 DEF ReopensWritten, SettlesReopen
<1>6. ASSUME NEW n, NEW c, reopens' = Expired(n, c),
             \/ \E t \in Transactions : CheckOrRefuse(t) /\ Cycle \in held[t]
             \/ \A t \in Transactions : Cycle \notin held[t]
      PROVE  ReopensWritten
  <2>1. Len(reopens') = Len(reopens) BY <1>6, ExpiredKept
  <2> QED BY <1>1, <1>6, <2>1, ExpiryWrites DEF ReopensWritten, Expires
<1>7. ASSUME NEW t \in Transactions, CheckOrRefuse(t) PROVE ReopensWritten
  <2>1. CASE tx[t].kind \notin ReopenOperation BY <1>2, <1>7, <2>1 DEF CheckOrRefuse, ExpireStale
  <2>2. CASE tx[t].kind \in ReopenOperation
    <3>1. Cycle \in held[t] BY <1>7, <2>2, HoldsAtCheck, HoldsCycle
    <3>2. PICK n, c : reopens' = Expired(n, c) BY <1>7, <2>2 DEF CheckOrRefuse, ExpireStale
    <3> QED BY <1>6, <1>7, <3>1, <3>2
  <2> QED BY <2>1, <2>2
<1>8. CASE ListReopens BY <1>6, <1>8 DEF ListReopens
<1>9. ASSUME NEW t \in Transactions, Commit(t), ~ CommitRequestReopen(t),
             ~ CommitSettleReopen(t), ~ CommitApproveReopen(t)
      PROVE  UNCHANGED reopens
  BY <1>9 DEF Commit, CommitRequestClose, CommitApproveClose, CommitCancelClose,
       CommitOpenAccount, CommitCreate, CommitIssue
<1>10. ASSUME NEW t \in Transactions, CanBegin(t) \/ Lock(t) \/ Fail(t) PROVE UNCHANGED reopens
  BY <1>10, BeginTyped DEF Begin, Lock, Fail, records
<1>11. ASSUME \/ UNCHANGED vars \/ CreateInitialYear
              \/ \E d \in Invoices, from, to \in {"PENDING", "RESOLVED"} :
                   FiscalStatusChanges(d, from, to)
       PROVE  UNCHANGED reopens
  BY <1>11 DEF CreateInitialYear, FiscalStatusChanges, vars
<1>12. ASSUME NEW t \in Transactions, Commit(t) PROVE ReopensWritten
  BY <1>2, <1>3, <1>4, <1>5, <1>9, <1>12
<1> QED BY <1>2, <1>7, <1>8, <1>10, <1>11, <1>12 DEF Next

\* Who settles a request found it as it was when it was made, and holds it.
LEMMA SettlerHolds ==
    ASSUME CycleInv, RequestInv, NEW t \in Transactions
    PROVE  /\ \A c : SettlesClose(t, c) =>
                closes[c].status = "REQUESTED" /\ Exclusive("close", c) \in held[t] /\ End(t)
           /\ \A r : SettlesReopen(t, r) =>
                reopens[r].status = "REQUESTED" /\ Cycle \in held[t] /\ End(t)
<1>1. StillRequested(t) BY DEF RequestInv
<1>2. ASSUME NEW k \in {"cancelClose", "approveClose", "cancelReopen", "rejectReopen", "approveReopen"},
             Committing(t, k)
      PROVE  tx[t].kind = k /\ tx[t].checked /\ Needs(tx[t]) \subseteq held[t] /\ End(t)
  BY <1>2, Checked DEF CycleInv, Committing
<1>3. ASSUME NEW c, SettlesClose(t, c)
      PROVE  closes[c].status = "REQUESTED" /\ Exclusive("close", c) \in held[t] /\ End(t)
  <2>1. PICK k \in {"cancelClose", "approveClose"} : Committing(t, k)
    BY <1>3 DEF SettlesClose, CommitCancelClose, CommitApproveClose
  <2>2. tx[t].kind \in {"cancelClose", "approveClose"} /\ tx[t].close = c /\ tx[t].checked
        /\ Needs(tx[t]) \subseteq held[t] /\ End(t)
    BY <1>2, <1>3, <2>1 DEF SettlesClose
  <2>3. Exclusive("close", c) \in Needs(tx[t]) BY <2>2 DEF Needs
  <2> QED BY <1>1, <2>2, <2>3 DEF StillRequested
<1>4. ASSUME NEW r, SettlesReopen(t, r)
      PROVE  reopens[r].status = "REQUESTED" /\ Cycle \in held[t] /\ End(t)
  <2>1. PICK k \in {"cancelReopen", "rejectReopen", "approveReopen"} : Committing(t, k)
    BY <1>4 DEF SettlesReopen, CommitSettleReopen, CommitApproveReopen
  <2>2. tx[t].kind \in {"cancelReopen", "rejectReopen", "approveReopen"} /\ tx[t].reopen = r
        /\ tx[t].checked /\ Needs(tx[t]) \subseteq held[t] /\ End(t)
    BY <1>2, <1>4, <2>1 DEF SettlesReopen
  <2>3. Cycle \in held[t] BY <2>2, HoldsCycle DEF ReopenOperation
  <2> QED BY <1>1, <2>2, <2>3 DEF StillRequested
<1> QED BY <1>3, <1>4

\* Requests that are settled stay as they are.
SettledStay ==
    /\ \A c \in 1..Len(closes) : closes'[c] = closes[c] \/ closes[c].status = "REQUESTED"
    /\ \A r \in 1..Len(reopens) : reopens'[r] = reopens[r] \/ reopens[r].status = "REQUESTED"

LEMMA Settled ==
    ASSUME CycleInv, RequestInv, [Next]_vars
    PROVE  SettledStay /\ ClosesWritten /\ ReopensWritten
<1>1. ClosesWritten BY ClosesAreWritten DEF CycleInv
<1>2. ReopensWritten BY ReopensAreWritten DEF CycleInv, LockInv
<1>3. ASSUME NEW c \in 1..Len(closes) PROVE closes'[c] = closes[c] \/ closes[c].status = "REQUESTED"
  BY <1>1, SettlerHolds DEF ClosesWritten
<1>4. ASSUME NEW r \in 1..Len(reopens)
      PROVE  reopens'[r] = reopens[r] \/ reopens[r].status = "REQUESTED"
  BY <1>2, SettlerHolds DEF ReopensWritten, Expires
<1> QED BY <1>1, <1>2, <1>3, <1>4 DEF SettledStay

\* A reopening that is completed now was, or is approved in this step.
LEMMA CompletedNow ==
    ASSUME CycleInv, RequestInv, [Next]_vars,
           NEW r \in 1..Len(reopens'), reopens'[r].status = "COMPLETED"
    PROVE  /\ r \in 1..Len(reopens)
           /\ \/ reopens'[r] = reopens[r]
              \/ \E t \in Transactions : CommitApproveReopen(t) /\ tx[t].reopen = r
<1>1. ReopensWritten BY Settled
<1>2. r \in 1..Len(reopens) BY <1>1 DEF ReopensWritten
<1>3. ~ Expires(r) BY DEF Expires
<1>4. ASSUME NEW t \in Transactions, CommitSettleReopen(t), tx[t].reopen = r PROVE FALSE
  <2>1. reopens \in Seq(ReopenRequests) /\ reopens[r] \in ReopenRequests
    BY <1>2 DEF CycleInv, CycleTypeOK
  <2>2. PICK s \in {"CANCELLED", "REJECTED"} : reopens' = [reopens EXCEPT ![r].status = s]
    BY <1>4 DEF CommitSettleReopen
  <2>3. PICK x : x = [reopens[r] EXCEPT !.status = s] OBVIOUS
  <2>4. reopens'[r] = x BY <1>2, <2>1, <2>2, <2>3
  <2>5. x.status = s BY <2>1, <2>3 DEF ReopenRequests
  <2> QED BY <2>4, <2>5
<1> QED BY <1>1, <1>2, <1>3, <1>4 DEF ReopensWritten, SettlesReopen

LEMMA CompletedStep ==
    ASSUME CycleInv, RequestInv, [Next]_vars
    PROVE  CompletedReopens'
<1>1. SettledStay /\ ClosesWritten /\ ReopensWritten BY Settled
<1>2. /\ \A r \in 1..Len(reopens) : reopens[r].close \in 1..Len(closes)
      /\ \A r \in 1..Len(reopens) : reopens'[r].close = reopens[r].close
  BY RequestsKept DEF CycleInv, CycleTypeOK, Kept
<1>3. ASSUME NEW r \in 1..Len(reopens'), reopens'[r].status = "COMPLETED"
      PROVE  closes'[reopens'[r].close].status = "COMPLETED"
  <2>1. r \in 1..Len(reopens) BY <1>3, CompletedNow
  <2>2. closes[reopens[r].close].status = "COMPLETED"
    <3>1. CASE reopens'[r] = reopens[r] BY <1>3, <2>1, <3>1 DEF RequestInv, CompletedReopens
    <3>2. ASSUME NEW t \in Transactions, CommitApproveReopen(t), tx[t].reopen = r
          PROVE  closes[reopens[r].close].status = "COMPLETED"
      <4>1. tx[t].kind = "approveReopen" /\ tx[t].checked
        BY <3>2, Checked DEF CommitApproveReopen, CycleInv
      <4> QED BY <3>2, <4>1 DEF RequestInv, StillRequested
    <3> QED BY <1>3, <3>1, <3>2, CompletedNow
  <2> QED BY <1>1, <1>2, <2>1, <2>2 DEF SettledStay
<1> QED BY <1>3 DEF CompletedReopens

\* What a check that passes establishes of the requests.
LEMMA CheckFindsRequests ==
    ASSUME CycleInv, NEW u \in Transactions, CheckOrRefuse(u), Admissible(u, reopens')
    PROVE  StillRequested(u)'
<1>1. closes' = closes /\ Same(tx'[u], tx[u]) BY Passes DEF CheckOrRefuse, CycleInv
<1>2. CASE tx[u].kind = "approveClose"
  BY <1>1, <1>2 DEF Admissible, CanApproveClose, StillRequested, Same
<1>3. CASE tx[u].kind = "cancelClose" BY <1>1, <1>3 DEF Admissible, StillRequested, Same
<1>4. CASE tx[u].kind = "approveReopen"
  <2>1. PICK r : r = tx[u].reopen OBVIOUS
  <2>2. CanApproveReopen(r, tx[u].user, reopens') BY <1>4, <2>1 DEF Admissible
  <2>3. /\ reopens'[r].status = "REQUESTED" /\ closes[reopens'[r].close].status = "COMPLETED"
        /\ ~ ReopenedIn(reopens', reopens'[r].close)
    BY <2>2 DEF CanApproveReopen, ReopenPreflightReady
  <2>4. tx'[u].kind = "approveReopen" /\ tx'[u].reopen = r BY <1>1, <1>4, <2>1 DEF Same
  <2> QED BY <1>1, <2>3, <2>4 DEF StillRequested, ReopenedIn
<1>5. CASE tx[u].kind = "cancelReopen" BY <1>1, <1>5 DEF Admissible, StillRequested, Same
<1>6. CASE tx[u].kind = "rejectReopen" BY <1>1, <1>6 DEF Admissible, StillRequested, Same
<1>7. CASE tx[u].kind \notin {"approveClose", "cancelClose", "approveReopen", "cancelReopen",
                              "rejectReopen"}
  BY <1>1, <1>7 DEF StillRequested, Same
<1> QED BY <1>2, <1>3, <1>4, <1>5, <1>6, <1>7

\* Between its check and its commit a transaction finds its requests as they were.
LEMMA StaysRequested ==
    ASSUME CycleInv, RequestInv, [Next]_vars,
           NEW u \in Transactions, tx[u].checked, Same(tx'[u], tx[u]), tx'[u] # Idle,
           ~ CheckOrRefuse(u)
    PROVE  StillRequested(u)'
<1>1. /\ SettledStay /\ ClosesWritten /\ ReopensWritten
      /\ Refers(tx[u]) /\ StillRequested(u) /\ Needs(tx[u]) \subseteq held[u]
      /\ \A r \in 1..Len(reopens) : reopens[r].close \in 1..Len(closes)
      /\ \A r \in 1..Len(reopens) : reopens'[r].close = reopens[r].close
  BY Settled, RequestsKept DEF CycleInv, CycleTypeOK, LockInv, Guarded, RequestInv, Kept
<1>2. ASSUME NEW t \in Transactions, End(t) PROVE t # u BY <1>2, Ends DEF CycleInv
<1>3. ASSUME NEW l \in held[u], NEW t \in Transactions, NEW m \in held[t], t # u
      PROVE  ~ Conflicting(l, m)
  BY <1>3 DEF CycleInv, LockInv, LocksExclude
<1>4. CASE tx[u].kind \in {"approveClose", "cancelClose"}
  <2>1. PICK c \in 1..Len(closes) : c = tx[u].close BY <1>1, <1>4 DEF Refers
  <2>2. Exclusive("close", c) \in held[u] BY <1>1, <1>4, <2>1 DEF Needs
  <2>3. ASSUME NEW t \in Transactions, SettlesClose(t, c) PROVE FALSE
    <3>1. Exclusive("close", c) \in held[t] /\ t # u BY <1>2, <2>3, SettlerHolds
    <3>2. Conflicting(Exclusive("close", c), Exclusive("close", c)) BY DEF Conflicting, Exclusive
    <3> QED BY <1>3, <2>2, <3>1, <3>2
  <2>4. closes'[c] = closes[c] BY <1>1, <2>3 DEF ClosesWritten
  <2> QED BY <1>1, <1>4, <2>1, <2>4 DEF StillRequested, Same
<1>5. CASE tx[u].kind \in {"approveReopen", "cancelReopen", "rejectReopen"}
  <2>1. PICK r \in 1..Len(reopens) : r = tx[u].reopen BY <1>1, <1>5 DEF Refers
  <2>2. Cycle \in held[u] BY <1>1, <1>5, HoldsCycle DEF ReopenOperation
  <2>3. ASSUME NEW t \in Transactions, Cycle \in held[t], t # u PROVE FALSE
    BY <1>3, <2>2, <2>3, Conflicts
  <2>4. ASSUME NEW q \in 1..Len(reopens) PROVE reopens'[q] = reopens[q]
    <3>1. ~ Expires(q) BY <2>2, <2>3 DEF Expires
    <3>2. ASSUME NEW t \in Transactions, SettlesReopen(t, q) PROVE FALSE
      BY <1>2, <2>3, <3>2, SettlerHolds
    <3> QED BY <1>1, <3>1, <3>2 DEF ReopensWritten
  <2>5. reopens[r].status = "REQUESTED" /\ reopens'[r] = reopens[r]
    BY <1>1, <1>5, <2>1, <2>4 DEF StillRequested
  <2>6. CASE tx[u].kind = "approveReopen"
    <3>1. PICK c \in 1..Len(closes) : c = reopens[r].close BY <1>1
    <3>2. closes[c].status = "COMPLETED" /\ ~ ReopenedIn(reopens, c)
      BY <1>1, <2>1, <2>6, <3>1 DEF StillRequested
    <3>3. closes'[c].status = "COMPLETED" BY <1>1, <3>2 DEF SettledStay
    <3>4. ~ ReopenedIn(reopens', c) BY <1>1, <2>4, <3>2 DEF ReopenedIn, ReopensWritten
    <3>5. tx'[u].kind = "approveReopen" /\ tx'[u].reopen = r /\ reopens'[r].close = c
      BY <2>1, <2>5, <2>6, <3>1 DEF Same
    <3> QED BY <2>5, <3>3, <3>4, <3>5 DEF StillRequested, ReopenedIn
  <2>7. CASE tx[u].kind # "approveReopen"
    BY <1>5, <2>1, <2>5, <2>7 DEF StillRequested, Same
  <2> QED BY <2>6, <2>7
<1>6. CASE tx[u].kind \notin {"approveClose", "cancelClose", "approveReopen", "cancelReopen",
                              "rejectReopen"}
  BY <1>6 DEF StillRequested, Same
<1> QED BY <1>4, <1>5, <1>6

\* While one transaction begins, locks, checks or ends, the others stay.
LEMMA OthersStay ==
    ASSUME CycleTypeOK, NEW t \in Transactions,
           \/ \E op : Begun(op) /\ Begin(t, op)
           \/ Lock(t)
           \/ CheckOrRefuse(t) /\ Admissible(t, reopens')
           \/ End(t)
    PROVE  \A u \in Transactions \ {t} : tx'[u] = tx[u]
<1> DEFINE Stay == \A u \in Transactions \ {t} : tx'[u] = tx[u]
<1>1. ASSUME NEW op, Begun(op), Begin(t, op) PROVE Stay BY <1>1, Begins
<1>2. ASSUME Lock(t) PROVE Stay BY <1>2, Locks
<1>3. ASSUME CheckOrRefuse(t), Admissible(t, reopens') PROVE Stay BY <1>3, Passes
<1>4. ASSUME End(t) PROVE Stay BY <1>4, Ends
<1> QED BY <1>1, <1>2, <1>3, <1>4

LEMMA RequestStep ==
    ASSUME CycleInv, RequestInv, [Next]_vars
    PROVE  RequestInv'
<1>0. CycleTypeOK BY DEF CycleInv
<1>1. CompletedReopens' BY CompletedStep
<1>2. ASSUME NEW u \in Transactions PROVE StillRequested(u)'
  <2>1. CASE ~ tx'[u].checked BY <2>1 DEF StillRequested
  <2>2. ASSUME tx[u].checked, tx'[u].checked, Same(tx'[u], tx[u]) PROVE StillRequested(u)'
    <3>1. tx'[u] # Idle BY <2>2, IdleType
    <3>2. CASE CheckOrRefuse(u) /\ Admissible(u, reopens') BY <3>2, CheckFindsRequests
    <3>3. CASE CheckOrRefuse(u) /\ ~ Admissible(u, reopens')
      <4>1. End(u) BY <3>3 DEF CheckOrRefuse
      <4> QED BY <1>0, <3>1, <4>1, Ends
    <3>4. CASE ~ CheckOrRefuse(u) BY <2>2, <3>1, <3>4, StaysRequested
    <3> QED BY <3>2, <3>3, <3>4
  <2>3. Same(tx[u], tx[u]) BY DEF Same
  <2>4. ASSUME tx'[u] = tx[u] PROVE StillRequested(u)' BY <2>1, <2>2, <2>3, <2>4
  <2>5. ASSUME Lock(u) PROVE StillRequested(u)' BY <1>0, <2>1, <2>2, <2>5, Locks
  <2>6. ASSUME CheckOrRefuse(u), Admissible(u, reopens') PROVE StillRequested(u)'
    BY <2>6, CheckFindsRequests
  <2>7. ASSUME End(u) PROVE StillRequested(u)' BY <1>0, <2>1, <2>7, Ends, IdleType
  <2>8. ASSUME NEW op, Begun(op), Begin(u, op) PROVE StillRequested(u)'
    BY <1>0, <2>1, <2>8, Begins
  <2>9. ASSUME NEW t \in Transactions, t # u,
               \/ \E op : Begun(op) /\ Begin(t, op)
               \/ Lock(t)
               \/ CheckOrRefuse(t) /\ Admissible(t, reopens')
               \/ End(t)
        PROVE  tx'[u] = tx[u]
    BY <1>0, <2>9, OthersStay
  <2>10. ASSUME NEW t \in Transactions,
                \/ \E op : Begun(op) /\ Begin(t, op)
                \/ Lock(t)
                \/ CheckOrRefuse(t) /\ Admissible(t, reopens')
                \/ End(t)
         PROVE  StillRequested(u)'
    <3>1. CASE t = u BY <2>5, <2>6, <2>7, <2>8, <2>10, <3>1
    <3>2. CASE t # u BY <2>4, <2>9, <2>10, <3>2
    <3> QED BY <3>1, <3>2
  <2>11. ASSUME UNCHANGED <<held, tx>> PROVE StillRequested(u)' BY <2>4, <2>11
  <2> QED BY <1>0, <2>10, <2>11, StepOfOne
<1> QED BY <1>1, <1>2 DEF RequestInv

\* What a transaction has found of the requests it checked is so until it
\* commits, and nothing is reopened that was not closed.
THEOREM RequestsAreSettledOnce == Spec => []RequestInv
<1>1. Init => RequestInv
  BY IdleType DEF Init, RequestInv, CompletedReopens, StillRequested
<1>2. CycleInv /\ RequestInv /\ [Next]_vars => RequestInv' BY RequestStep
<1> QED BY <1>1, <1>2, CycleInvariant, PTL DEF Spec
-----------------------------------------------------------------------------
(* The requests account for the state of the years.                          *)

InForceOf(y, c) == c \in 1..Len(closes) /\ closes[c].year = y /\ CloseInForce(c)

LEMMA Cancelled ==
    ASSUME CycleTypeOK, NEW t \in Transactions, CommitCancelClose(t)
    PROVE  tx[t].close \in 1..Len(closes) /\ closes'[tx[t].close].status = "CANCELLED"
<1>1. closes \in Seq(CloseRequests) /\ Refers(tx[t]) BY DEF CycleTypeOK
<1>2. PICK c \in 1..Len(closes) : c = tx[t].close
  BY <1>1 DEF CommitCancelClose, Committing, Refers
<1>3. PICK x : x = [closes[c] EXCEPT !.status = "CANCELLED"] OBVIOUS
<1>4. closes' = [closes EXCEPT ![c] = x] BY <1>2, <1>3 DEF CommitCancelClose
<1>5. closes'[c] = x BY <1>1, <1>4
<1>6. closes[c] \in CloseRequests BY <1>1
<1>7. x.status = "CANCELLED" BY <1>3, <1>6 DEF CloseRequests
<1> QED BY <1>2, <1>5, <1>7

\* A close stays in force, or not, but for its own approval and reopening.
LEMMA ForceKept ==
    ASSUME CycleInv, RequestInv, [Next]_vars, NEW y, NEW c,
           \A t \in Transactions : CommitApproveClose(t) => tx[t].close # c,
           \A t \in Transactions : CommitApproveReopen(t) => reopens[tx[t].reopen].close # c
    PROVE  InForceOf(y, c)' <=> InForceOf(y, c)
<1>1. /\ SettledStay /\ ClosesWritten /\ ReopensWritten /\ CycleTypeOK
      /\ \A r \in 1..Len(reopens) : reopens'[r].close = reopens[r].close
      /\ \A k \in 1..Len(closes) : closes'[k].year = closes[k].year
  BY Settled, RequestsKept DEF CycleInv, Kept
<1>2. ASSUME InForceOf(y, c)' PROVE InForceOf(y, c)
  <2>1. c \in 1..Len(closes') /\ closes'[c].status = "COMPLETED" /\ closes'[c].year = y
        /\ ~ ReopenedIn(reopens', c)
    BY <1>2 DEF InForceOf, CloseInForce, ReopenedIn
  <2>2. c \in 1..Len(closes) BY <1>1, <2>1 DEF ClosesWritten
  <2>3. ~ \E t \in Transactions : SettlesClose(t, c) BY <1>1, <2>1, Cancelled DEF SettlesClose
  <2>4. closes'[c] = closes[c] BY <1>1, <2>2, <2>3 DEF ClosesWritten
  <2>5. ~ ReopenedIn(reopens, c)
    <3>1. ASSUME NEW r \in 1..Len(reopens), reopens[r].close = c, reopens[r].status = "COMPLETED"
          PROVE  FALSE
      <4>1. reopens'[r] = reopens[r] BY <1>1, <3>1 DEF SettledStay
      <4>2. r \in 1..Len(reopens') BY <1>1 DEF ReopensWritten
      <4> QED BY <2>1, <3>1, <4>1, <4>2 DEF ReopenedIn
    <3> QED BY <3>1 DEF ReopenedIn
  <2> QED BY <2>1, <2>2, <2>4, <2>5 DEF InForceOf, CloseInForce
<1>3. ASSUME InForceOf(y, c) PROVE InForceOf(y, c)'
  <2>1. c \in 1..Len(closes) /\ closes[c].status = "COMPLETED" /\ closes[c].year = y
        /\ ~ ReopenedIn(reopens, c)
    BY <1>3 DEF InForceOf, CloseInForce
  <2>2. c \in 1..Len(closes') /\ closes'[c] = closes[c]
    BY <1>1, <2>1 DEF SettledStay, ClosesWritten
  <2>3. ASSUME NEW r \in 1..Len(reopens'), reopens'[r].close = c, reopens'[r].status = "COMPLETED"
        PROVE  FALSE
    <3>1. r \in 1..Len(reopens) BY <2>3, CompletedNow
    <3>2. CASE reopens'[r] = reopens[r] BY <2>1, <2>3, <3>1, <3>2 DEF ReopenedIn
    <3>3. ASSUME NEW t \in Transactions, CommitApproveReopen(t), tx[t].reopen = r PROVE FALSE
      BY <1>1, <2>3, <3>1, <3>3
    <3> QED BY <2>3, <3>2, <3>3, CompletedNow
  <2> QED BY <2>1, <2>2, <2>3 DEF InForceOf, CloseInForce, ReopenedIn
<1> QED BY <1>2, <1>3

\* A transaction approves alone: both hold the lock of the cycle.
LEMMA OneApproves ==
    ASSUME CycleInv, NEW t \in Transactions, NEW u \in Transactions,
           CommitApproveClose(t) \/ CommitApproveReopen(t),
           CommitApproveClose(u) \/ CommitApproveReopen(u)
    PROVE  t = u
<1>1. Cycle \in held[t] /\ Cycle \in held[u] BY ApproverHolds DEF CycleInv
<1> QED BY <1>1, Conflicts DEF CycleInv, LockInv, LocksExclude

\* After its approval a close is in force; the other ones are as they were.
LEMMA ForceOfClose ==
    ASSUME CycleInv, RequestInv, [Next]_vars, NEW t \in Transactions, CommitApproveClose(t),
           NEW k, k = tx[t].close, NEW z, z = closes[k].year
    PROVE  /\ InForceOf(z, k)' /\ \A y : InForceOf(y, k)' => y = z
           /\ \A y, c : c # k => (InForceOf(y, c)' <=> InForceOf(y, c))
<1>1. CycleTypeOK /\ LedgersOK BY DEF CycleInv
<1>2. PICK q \in 1..Len(closes) : \E g : Approved(t, q, g) BY <1>1, CloseCommits
<1>3. PICK g : Approved(t, q, g) BY <1>2
<1>4. /\ q = k /\ closes'[k].status = "COMPLETED" /\ closes'[k].year = z
      /\ reopens' = reopens /\ k \in 1..Len(closes')
  BY <1>2, <1>3 DEF Approved
<1>5. closes[k].status = "REQUESTED" BY <1>4, SettlerHolds DEF SettlesClose
<1>6. ~ ReopenedIn(reopens, k)
  BY <1>5 DEF RequestInv, CompletedReopens, ReopenedIn
<1>7. ASSUME NEW u \in Transactions
      PROVE  (CommitApproveClose(u) => tx[u].close = k) /\ ~ CommitApproveReopen(u)
  <2>1. ASSUME CommitApproveReopen(u) PROVE FALSE
    <3>1. u # t BY <2>1 DEF CommitApproveReopen, CommitApproveClose, Committing
    <3> QED BY <2>1, <3>1, OneApproves
  <2>2. CommitApproveClose(u) => tx[u].close = k BY OneApproves
  <2> QED BY <2>1, <2>2
<1>8. \A y, c : c # k => (InForceOf(y, c)' <=> InForceOf(y, c)) BY <1>7, ForceKept
<1> QED BY <1>4, <1>6, <1>8 DEF InForceOf, CloseInForce, ReopenedIn

\* After its reopening a close that was in force is not.
LEMMA ForceOfReopen ==
    ASSUME CycleInv, RequestInv, [Next]_vars, NEW t \in Transactions, CommitApproveReopen(t),
           NEW k, k = reopens[tx[t].reopen].close, NEW z, z = closes[k].year
    PROVE  /\ InForceOf(z, k) /\ \A y : ~ InForceOf(y, k)'
           /\ \A y : InForceOf(y, k) => y = z
           /\ \A y, c : c # k => (InForceOf(y, c)' <=> InForceOf(y, c))
<1>1. /\ CycleTypeOK /\ LedgersOK
      /\ \A r \in 1..Len(reopens) : reopens[r].close \in 1..Len(closes)
  BY DEF CycleInv, CycleTypeOK
<1>2. PICK r \in 1..Len(reopens) : \E g : Undone(t, r, g) BY <1>1, ReopenCommits
<1>3. PICK g : Undone(t, r, g) BY <1>2
<1>4. /\ tx[t].reopen = r /\ reopens'[r].status = "COMPLETED" /\ reopens'[r].close = k
      /\ closes' = closes /\ r \in 1..Len(reopens') /\ k \in 1..Len(closes)
  BY <1>1, <1>2, <1>3 DEF Undone
<1>5. closes[k].status = "COMPLETED" /\ ~ ReopenedIn(reopens, k)
  <2>1. tx[t].kind = "approveReopen" /\ tx[t].checked
    BY Checked DEF CommitApproveReopen, CycleInv
  <2> QED BY <2>1 DEF RequestInv, StillRequested
<1>6. ASSUME NEW u \in Transactions
      PROVE  (CommitApproveReopen(u) => reopens[tx[u].reopen].close = k) /\ ~ CommitApproveClose(u)
  <2>1. ASSUME CommitApproveClose(u) PROVE FALSE
    <3>1. u # t BY <2>1 DEF CommitApproveReopen, CommitApproveClose, Committing
    <3> QED BY <2>1, <3>1, OneApproves
  <2>2. CommitApproveReopen(u) => reopens[tx[u].reopen].close = k BY OneApproves
  <2> QED BY <2>1, <2>2
<1>7. \A y, c : c # k => (InForceOf(y, c)' <=> InForceOf(y, c)) BY <1>6, ForceKept
<1>8. InForceOf(z, k) /\ \A y : InForceOf(y, k) => y = z
  BY <1>4, <1>5 DEF InForceOf, CloseInForce
<1>9. \A y : ~ InForceOf(y, k)' BY <1>4 DEF InForceOf, CloseInForce, ReopenedIn
<1> QED BY <1>7, <1>8, <1>9

ClosedAlike ==
    \A y \in Years :
        /\ year[y] = "CLOSED" <=> \E c : InForceOf(y, c)
        /\ \A c, d : InForceOf(y, c) /\ InForceOf(y, d) => c = d

LEMMA ClosedAlikeStep ==
    ASSUME CycleInv, RequestInv, ClosedAlike, [Next]_vars
    PROVE  ClosedAlike'
<1>1. /\ CycleTypeOK /\ LedgersOK /\ year \in [Years -> Statuses]
      /\ SettledStay /\ ClosesWritten /\ ReopensWritten
      /\ \A c \in 1..Len(closes) : closes'[c].year = closes[c].year
  BY Settled, RequestsKept DEF CycleInv, CycleTypeOK, Kept
<1>2. CASE /\ \A t \in Transactions : ~ CommitApproveClose(t) /\ ~ CommitApproveReopen(t)
  <2>1. \A y, c : InForceOf(y, c)' <=> InForceOf(y, c) BY <1>2, ForceKept
  <2>2. \A y \in Years : year'[y] = "CLOSED" <=> year[y] = "CLOSED"
    <3>1. CASE UNCHANGED year BY <3>1
    <3>2. CASE CreateInitialYear
      <4>1. year' = [year EXCEPT ![1] = "OPEN"] /\ \A y \in Years : year[y] = "ABSENT"
        BY <3>2 DEF CreateInitialYear
      <4> QED BY <1>1, <4>1
    <3> QED BY <1>1, <1>2, <3>1, <3>2, YearWriters
  <2> QED BY <2>1, <2>2 DEF ClosedAlike
<1>3. ASSUME NEW t \in Transactions, CommitApproveClose(t) PROVE ClosedAlike'
  <2>1. PICK k, z : k = tx[t].close /\ z = closes[k].year OBVIOUS
  <2>2. /\ z \in Years /\ z + 1 \in Years
        /\ year[z] = "OPEN" /\ year[z + 1] \in {"ABSENT", "REVERSED"}
        /\ year' = [year EXCEPT ![z] = "CLOSED", ![z + 1] = "OPEN"]
    BY <1>3, <2>1, Committed
  <2>6. InForceOf(z, k)' BY <1>3, <2>1, ForceOfClose
  <2>7. \A y : InForceOf(y, k)' => y = z BY <1>3, <2>1, ForceOfClose
  <2>9. \A y, c : c # k => (InForceOf(y, c)' <=> InForceOf(y, c)) BY <1>3, <2>1, ForceOfClose
  <2>10. /\ year'[z] = "CLOSED" /\ year'[z + 1] = "OPEN" /\ z # z + 1
         /\ \A y \in Years : y # z /\ y # z + 1 => year'[y] = year[y]
    BY <1>1, <2>2 DEF Years
  <2>11. ASSUME NEW y \in Years
         PROVE  /\ year'[y] = "CLOSED" <=> \E c : InForceOf(y, c)'
                /\ \A c, d : InForceOf(y, c)' /\ InForceOf(y, d)' => c = d
    <3>1. CASE y = z
      <4>1. ASSUME NEW c, InForceOf(y, c)' PROVE c = k
        BY <2>2, <2>9, <3>1, <4>1 DEF ClosedAlike
      <4> QED BY <2>6, <2>10, <3>1, <4>1
    <3>2. CASE y # z
      <4>1. \A c : InForceOf(y, c)' => InForceOf(y, c) BY <2>7, <2>9, <3>2
      <4>2. \A c : InForceOf(y, c) => InForceOf(y, c)'
        BY <2>1, <2>9, <3>2 DEF InForceOf
      <4>3. year'[y] = "CLOSED" <=> year[y] = "CLOSED" BY <2>2, <2>10, <3>2
      <4> QED BY <4>1, <4>2, <4>3 DEF ClosedAlike
    <3> QED BY <3>1, <3>2
  <2> QED BY <2>11 DEF ClosedAlike
<1>4. ASSUME NEW t \in Transactions, CommitApproveReopen(t) PROVE ClosedAlike'
  <2>1. PICK k, z : k = reopens[tx[t].reopen].close /\ z = closes[k].year OBVIOUS
  <2>3. /\ z \in Years /\ z + 1 \in Years
        /\ year[z] = "CLOSED" /\ year[z + 1] = "OPEN"
        /\ year' = [year EXCEPT ![z + 1] = "REVERSED", ![z] = "OPEN"]
    BY <1>4, <2>1, Committed
  <2>6. InForceOf(z, k) BY <1>4, <2>1, ForceOfReopen
  <2>7. \A y : ~ InForceOf(y, k)' BY <1>4, <2>1, ForceOfReopen
  <2>8. \A y : InForceOf(y, k) => y = z BY <1>4, <2>1, ForceOfReopen
  <2>9. \A y, c : c # k => (InForceOf(y, c)' <=> InForceOf(y, c)) BY <1>4, <2>1, ForceOfReopen
  <2>10. /\ year'[z] = "OPEN" /\ year'[z + 1] = "REVERSED" /\ z # z + 1
         /\ \A y \in Years : y # z /\ y # z + 1 => year'[y] = year[y]
    BY <1>1, <2>3 DEF Years
  <2>11. ASSUME NEW y \in Years
         PROVE  /\ year'[y] = "CLOSED" <=> \E c : InForceOf(y, c)'
                /\ \A c, d : InForceOf(y, c)' /\ InForceOf(y, d)' => c = d
    <3>1. CASE y = z
      <4>1. \A c : InForceOf(y, c) => c = k BY <2>6, <3>1 DEF ClosedAlike
      <4>2. \A c : ~ InForceOf(y, c)' BY <2>7, <2>9, <4>1
      <4> QED BY <2>10, <3>1, <4>2
    <3>2. CASE y # z
      <4>1. ~ InForceOf(y, k) BY <2>8, <3>2
      <4>2. \A c : InForceOf(y, c)' <=> InForceOf(y, c) BY <2>7, <2>9, <4>1
      <4>3. year'[y] = "CLOSED" <=> year[y] = "CLOSED" BY <2>3, <2>10, <3>2
      <4> QED BY <4>2, <4>3 DEF ClosedAlike
    <3> QED BY <3>1, <3>2
  <2> QED BY <2>11 DEF ClosedAlike
<1> QED BY <1>2, <1>3, <1>4

LEMMA ClosedAlikeMeans == ClosedAlike => ClosedByOneClose
<1>1. ASSUME ClosedAlike, NEW y \in Years
      PROVE  LET inForce == {c \in 1..Len(closes) : closes[c].year = y /\ CloseInForce(c)} IN
             /\ year[y] = "CLOSED" <=> inForce # {}
             /\ \A c, d \in inForce : c = d
  <2>1. PICK S : S = {c \in 1..Len(closes) : closes[c].year = y /\ CloseInForce(c)} OBVIOUS
  <2>2. \A c : c \in S <=> InForceOf(y, c) BY <2>1 DEF InForceOf
  <2>3. (year[y] = "CLOSED" <=> S # {}) /\ \A c, d \in S : c = d BY <1>1, <2>2 DEF ClosedAlike
  <2> QED BY <2>1, <2>3
<1> QED BY <1>1 DEF ClosedByOneClose

\* A year is closed when one of its completed closes was not reopened, and never
\* two at once, however many requests are made, approved and undone.
THEOREM OneCloseInForce == Spec => []ClosedByOneClose
<1>1. Init => ClosedAlike BY DEF Init, ClosedAlike, InForceOf
<1>2. CycleInv /\ RequestInv /\ ClosedAlike /\ [Next]_vars => ClosedAlike' BY ClosedAlikeStep
<1> QED BY <1>1, <1>2, ClosedAlikeMeans, CycleInvariant, RequestsAreSettledOnce, PTL DEF Spec
-----------------------------------------------------------------------------
(* What a reopening leaves of the year that it takes back.                   *)

\* The entry at position p of a ledger is of an origin.
EntryFrom(z, p, origin) == p \in 1..Len(ledger[z]) /\ ledger[z][p].origin = origin

\* A completed close points to its opening entry in the next year, a completed
\* reopening to what reverses that entry, and what was posted at once is posted.
OpeningsReferred ==
    \A c \in 1..Len(closes) : closes[c].status = "COMPLETED" /\ closes[c].opening # 0 =>
        EntryFrom(closes[c].year + 1, closes[c].opening, "OPENING")
ReversalsReferred ==
    \A r \in 1..Len(reopens) : reopens[r].status = "COMPLETED" =>
        LET c == closes[reopens[r].close]
            z == c.year + 1 IN
        /\ reopens[r].opening = 0 <=> c.opening = 0
        /\ c.opening # 0 =>
             /\ EntryFrom(z, reopens[r].opening, "FISCAL_YEAR_CLOSE_REVERSAL")
             /\ ledger[z][reopens[r].opening].of = c.opening
EntriesPosted ==
    \A d \in Entries : doc[d].year \in Years =>
        \E p \in 1..Len(ledger[doc[d].year]) : EntryFrom(doc[d].year, p, "DOCUMENT")

\* Of the approval of a reopening that has checked: nothing was dated nor posted
\* in the next year but what closes of the year and their reopenings posted.
StillReversible(t) ==
    tx[t].checked /\ tx[t].kind = "approveReopen" =>
        LET y == closes[reopens[tx[t].reopen].close].year IN
        /\ \A d \in Invoices \cup Remittances : doc[d].year # y + 1
        /\ NoSuccessorJournalActivity(y, reopens)

BooksInv ==
    /\ OpeningsReferred /\ ReversalsReferred /\ EntriesPosted
    /\ \A t \in Transactions : StillReversible(t)

LEMMA Appended ==
    ASSUME NEW s, IsSequence(s), NEW x
    PROVE  Len(s) \in Nat /\ Len(s \o <<x>>) = Len(s) + 1 /\ (s \o <<x>>)[Len(s) + 1] = x
<1>1. PICK S : s \in Seq(S) BY DEF IsSequence
<1>2. s \in Seq(S \cup {x}) /\ <<x>> \in Seq(S \cup {x}) BY <1>1
<1> QED BY <1>2

LEMMA EntryKept ==
    ASSUME CycleInv, [Next]_vars, NEW z \in Years, NEW p \in 1..Len(ledger[z])
    PROVE  p \in 1..Len(ledger'[z]) /\ ledger'[z][p] = ledger[z][p]
<1>1. Grown(ledger[z], ledger'[z]) /\ IsSequence(ledger[z])
  BY LedgerStep DEF CycleInv, Written, LedgersOK
<1>2. Len(ledger[z]) \in Nat /\ Len(ledger'[z]) \in Nat BY <1>1 DEF Grown, IsSequence
<1> QED BY <1>1, <1>2 DEF Grown

LEMMA OpeningIs ==
    \A b, a : Opening(b, a) = <<>> \/ \E m : Opening(b, a) = <<JournalEntry("OPENING", 0, m)>>
BY DEF Opening, EntryUnlessEmpty

LEMMA ReversalIs ==
    \A s, p : IF p = 0 THEN Reversal(s, p) = <<>>
              ELSE \E m : Reversal(s, p) = <<JournalEntry("FISCAL_YEAR_CLOSE_REVERSAL", p, m)>>
BY DEF Reversal

LEMMA PositionIs ==
    \A s : Position(s, <<>>) = 0 /\ \A x : Position(s, <<x>>) = Len(s) + 1
<1>1. \A x : <<x>> # <<>> OBVIOUS
<1> QED BY <1>1 DEF Position

LEMMA OpeningsStep ==
    ASSUME CycleInv, RequestInv, OpeningsReferred, [Next]_vars
    PROVE  OpeningsReferred'
<1>1. /\ CycleTypeOK /\ LedgersOK /\ ClosesWritten
      /\ \A c \in 1..Len(closes) : closes'[c].year = closes[c].year
  BY Settled, RequestsKept DEF CycleInv, Kept
<1>2. ASSUME NEW c \in 1..Len(closes'), closes'[c].status = "COMPLETED",
             NEW p, p = closes'[c].opening, p # 0, NEW z, z = closes'[c].year + 1
      PROVE  p \in 1..Len(ledger'[z]) /\ ledger'[z][p].origin = "OPENING"
  <2>1. c \in 1..Len(closes) BY <1>1, <1>2 DEF ClosesWritten
  <2>2. z \in Years /\ z = closes[c].year + 1 BY <1>1, <1>2, <2>1, RequestYear
  <2>5. CASE closes'[c] = closes[c]
    <3>1. p \in 1..Len(ledger[z]) /\ ledger[z][p].origin = "OPENING"
      BY <1>2, <2>1, <2>2, <2>5 DEF OpeningsReferred, EntryFrom
    <3> QED BY <2>2, <3>1, EntryKept
  <2>6. ASSUME NEW t \in Transactions, CommitApproveClose(t), tx[t].close = c
        PROVE  p \in 1..Len(ledger'[z]) /\ ledger'[z][p].origin = "OPENING"
    <3>1. PICK k \in 1..Len(closes) : \E g : Approved(t, k, g) BY <1>1, <2>6, CloseCommits
    <3>2. PICK g : Approved(t, k, g) BY <3>1
    <3>3. /\ k = c /\ p = Position(ledger[z], g) /\ ledger'[z] = ledger[z] \o g
          /\ \E b, a : g = Opening(b, a)
      BY <1>2, <2>2, <2>6, <3>2 DEF Approved
    <3>5. PICK m : g = <<JournalEntry("OPENING", 0, m)>>
      BY <1>2, <3>3, OpeningIs, PositionIs
    <3>6. PICK x : x = JournalEntry("OPENING", 0, m) OBVIOUS
    <3>7. g = <<x>> /\ x.origin = "OPENING" BY <3>5, <3>6 DEF JournalEntry
    <3>8. p = Len(ledger[z]) + 1 BY <3>3, <3>7, PositionIs
    <3>9. IsSequence(ledger[z]) BY <1>1, <2>2 DEF LedgersOK
    <3>10. ledger'[z] = ledger[z] \o <<x>> BY <3>3, <3>7
    <3>11. Len(ledger[z]) \in Nat /\ Len(ledger'[z]) = p /\ ledger'[z][p] = x
      BY <3>8, <3>9, <3>10, Appended
    <3> QED BY <3>7, <3>8, <3>11
  <2>7. ASSUME NEW t \in Transactions, CommitCancelClose(t), tx[t].close = c PROVE FALSE
    BY <1>1, <1>2, <2>7, Cancelled
  <2> QED BY <1>1, <2>1, <2>5, <2>6, <2>7 DEF ClosesWritten, SettlesClose
<1> QED BY <1>2 DEF OpeningsReferred, EntryFrom

LEMMA ReversalsStep ==
    ASSUME CycleInv, RequestInv, ReversalsReferred, [Next]_vars
    PROVE  ReversalsReferred'
<1>1. /\ CycleTypeOK /\ LedgersOK /\ SettledStay /\ ClosesWritten /\ ReopensWritten
      /\ \A r \in 1..Len(reopens) : reopens[r].close \in 1..Len(closes)
  BY Settled DEF CycleInv, CycleTypeOK
<1>2. ASSUME NEW r \in 1..Len(reopens'), reopens'[r].status = "COMPLETED",
             NEW k, k = closes'[reopens'[r].close], NEW z, z = k.year + 1,
             NEW p, p = reopens'[r].opening
      PROVE  /\ p = 0 <=> k.opening = 0
             /\ k.opening # 0 =>
                  /\ p \in 1..Len(ledger'[z])
                  /\ ledger'[z][p].origin = "FISCAL_YEAR_CLOSE_REVERSAL"
                  /\ ledger'[z][p].of = k.opening
  <2>1. r \in 1..Len(reopens) BY <1>2, CompletedNow
  <2>2. PICK c \in 1..Len(closes) : c = reopens[r].close BY <1>1, <2>1
  <2>3. closes[c].year + 1 \in Years BY <1>1, RequestYear
  <2>4. CASE reopens'[r] = reopens[r]
    <3>1. closes[c].status = "COMPLETED"
      BY <1>2, <2>1, <2>2, <2>4 DEF RequestInv, CompletedReopens
    <3>2. k = closes[c] BY <1>1, <1>2, <2>2, <2>4, <3>1 DEF SettledStay
    <3>3. /\ p = 0 <=> k.opening = 0
          /\ k.opening # 0 =>
               /\ p \in 1..Len(ledger[z])
               /\ ledger[z][p].origin = "FISCAL_YEAR_CLOSE_REVERSAL"
               /\ ledger[z][p].of = k.opening
      BY <1>2, <2>1, <2>2, <2>4, <3>2 DEF ReversalsReferred, EntryFrom
    <3>4. z \in Years BY <1>2, <2>3, <3>2
    <3> QED BY <3>3, <3>4, EntryKept
  <2>5. ASSUME NEW t \in Transactions, CommitApproveReopen(t), tx[t].reopen = r
        PROVE  /\ p = 0 <=> k.opening = 0
               /\ k.opening # 0 =>
                    /\ p \in 1..Len(ledger'[z])
                    /\ ledger'[z][p].origin = "FISCAL_YEAR_CLOSE_REVERSAL"
                    /\ ledger'[z][p].of = k.opening
    <3>1. PICK q \in 1..Len(reopens) : \E g : Undone(t, q, g) BY <1>1, <2>5, ReopenCommits
    <3>2. PICK g : Undone(t, q, g) BY <3>1
    <3>3. q = r /\ reopens'[r].close = c /\ closes' = closes BY <2>2, <2>5, <3>2 DEF Undone
    <3>4. k = closes[c] /\ z \in Years BY <1>2, <2>3, <3>3
    <3>5. /\ g = Reversal(ledger[z], k.opening) /\ p = Position(ledger[z], g)
          /\ ledger'[z] = ledger[z] \o g
      BY <1>2, <2>2, <3>2, <3>3, <3>4 DEF Undone
    <3>6. CASE k.opening = 0
      <4>1. g = <<>> BY <3>5, <3>6, ReversalIs
      <4> QED BY <3>5, <3>6, <4>1, PositionIs
    <3>7. CASE k.opening # 0
      <4>1. PICK m : g = <<JournalEntry("FISCAL_YEAR_CLOSE_REVERSAL", k.opening, m)>>
        BY <3>5, <3>7, ReversalIs
      <4>2. PICK x : x = JournalEntry("FISCAL_YEAR_CLOSE_REVERSAL", k.opening, m) OBVIOUS
      <4>3. g = <<x>> /\ x.origin = "FISCAL_YEAR_CLOSE_REVERSAL" /\ x.of = k.opening
        BY <4>1, <4>2 DEF JournalEntry
      <4>4. p = Len(ledger[z]) + 1 BY <3>5, <4>3, PositionIs
      <4>5. IsSequence(ledger[z]) BY <1>1, <3>4 DEF LedgersOK
      <4>6. ledger'[z] = ledger[z] \o <<x>> BY <3>5, <4>3
      <4>7. Len(ledger[z]) \in Nat /\ Len(ledger'[z]) = p /\ ledger'[z][p] = x
        BY <4>4, <4>5, <4>6, Appended
      <4>8. p # 0 /\ p \in 1..Len(ledger'[z]) BY <4>4, <4>7
      <4>9. /\ ledger'[z][p].origin = "FISCAL_YEAR_CLOSE_REVERSAL"
            /\ ledger'[z][p].of = k.opening
        BY <4>3, <4>7
      <4>10. p # 0 /\ p \in 1..Len(ledger'[z]) BY <4>8
      <4> QED BY <3>7, <4>9, <4>10, Zenon
    <3> QED BY <3>6, <3>7
  <2> QED BY <1>2, <2>4, <2>5, CompletedNow
<1> QED BY <1>2 DEF ReversalsReferred, EntryFrom

\* A document is dated by the transaction that creates or issues it, which
\* posts it at once if it is an entry.
Dates(t, d) ==
    /\ CommitCreate(t) \/ CommitIssue(t)
    /\ d \in tx[t].doc /\ doc'[d].year = tx[t].year
    /\ d \in Entries => Posted(tx[t].year)

LEMMA DocumentsDated ==
    ASSUME CycleInv, [Next]_vars, NEW d \in Documents
    PROVE  doc'[d].year = doc[d].year \/ \E t \in Transactions : Dates(t, d)
<1>1. /\ tx \in [Transactions -> Operations] /\ DOMAIN doc = Documents
      /\ \A e \in Documents : doc[e] \in [status : {"ABSENT", "DRAFT", "POSTED"},
             year : 0..LastYear, fiscal : {"none", "PENDING", "RESOLVED"}]
  BY DEF CycleInv, CycleTypeOK, DocumentsOK
<1>2. CASE UNCHANGED doc BY <1>2
<1>3. ASSUME NEW t \in Transactions, CommitCreate(t)
      PROVE  doc'[d].year = doc[d].year \/ Dates(t, d)
  <2>1. PICK e \in tx[t].doc :
          /\ doc' = [doc EXCEPT ![e] = [status |-> IF e \in Invoices THEN "DRAFT" ELSE "POSTED",
                                        year |-> tx[t].year, fiscal |-> "none"]]
          /\ e \in Entries => Posted(tx[t].year)
    BY <1>3 DEF CommitCreate
  <2>2. d # e => doc'[d] = doc[d] BY <1>1, <2>1
  <2>3. d = e => doc'[d].year = tx[t].year BY <1>1, <2>1
  <2> QED BY <1>3, <2>1, <2>2, <2>3 DEF Dates
<1>4. ASSUME NEW t \in Transactions, CommitIssue(t)
      PROVE  doc'[d].year = doc[d].year \/ Dates(t, d)
  <2>1. PICK e \in tx[t].doc, f \in {"PENDING", "RESOLVED"} :
          doc' = [doc EXCEPT ![e] = [status |-> "POSTED", year |-> tx[t].year, fiscal |-> f]]
    BY <1>4 DEF CommitIssue
  <2>2. d # e => doc'[d] = doc[d] BY <1>1, <2>1
  <2>3. d = e => doc'[d].year = tx[t].year BY <1>1, <2>1
  <2>4. Posted(tx[t].year) BY <1>4 DEF CommitIssue
  <2> QED BY <1>4, <2>1, <2>2, <2>3, <2>4 DEF Dates
<1>5. ASSUME NEW e \in Invoices, NEW from, NEW to, FiscalStatusChanges(e, from, to)
      PROVE  doc'[d].year = doc[d].year
  <2>1. PICK x : x = [doc[e] EXCEPT !.fiscal = to] OBVIOUS
  <2>2. doc' = [doc EXCEPT ![e] = x] BY <1>5, <2>1 DEF FiscalStatusChanges
  <2>3. x.year = doc[e].year BY <1>1, <2>1 DEF Documents
  <2> QED BY <1>1, <2>2, <2>3
<1>6. ASSUME NEW t \in Transactions, Commit(t), ~ CommitCreate(t), ~ CommitIssue(t)
      PROVE  UNCHANGED doc
  BY <1>6 DEF Commit, CommitRequestClose, CommitCancelClose, CommitApproveClose,
       CommitRequestReopen, CommitApproveReopen, CommitSettleReopen, CommitOpenAccount
<1>7. ASSUME NEW t \in Transactions, CanBegin(t) \/ Lock(t) \/ CheckOrRefuse(t) \/ Fail(t)
      PROVE  UNCHANGED doc
  BY <1>7, BeginTyped DEF Begin, Lock, CheckOrRefuse, Fail, records, CycleInv
<1>8. ASSUME UNCHANGED vars \/ CreateInitialYear \/ ListReopens PROVE UNCHANGED doc
  BY <1>8 DEF CreateInitialYear, ListReopens, vars
<1>9. CASE \E t \in Transactions : CommitCreate(t) BY <1>3, <1>9
<1>10. CASE \E t \in Transactions : CommitIssue(t) BY <1>4, <1>10
<1>11. CASE \E e \in Invoices : FiscalStatusChanges(e, "PENDING", "RESOLVED")
                               \/ FiscalStatusChanges(e, "RESOLVED", "PENDING")
  BY <1>5, <1>11
<1> QED BY <1>2, <1>6, <1>7, <1>8, <1>9, <1>10, <1>11 DEF Next

LEMMA EntriesStep ==
    ASSUME CycleInv, EntriesPosted, [Next]_vars
    PROVE  EntriesPosted'
<1>1. CycleTypeOK /\ LedgersOK BY DEF CycleInv
<1>2. ASSUME NEW d \in Entries, NEW z \in Years, z = doc'[d].year
      PROVE  \E p \in 1..Len(ledger'[z]) : ledger'[z][p].origin = "DOCUMENT"
  <2>1. CASE doc[d].year = z
    <3>1. PICK p \in 1..Len(ledger[z]) : ledger[z][p].origin = "DOCUMENT"
      BY <2>1 DEF EntriesPosted, EntryFrom
    <3> QED BY <3>1, EntryKept
  <2>2. ASSUME NEW t \in Transactions, Dates(t, d)
        PROVE  \E p \in 1..Len(ledger'[z]) : ledger'[z][p].origin = "DOCUMENT"
    <3>1. Posted(z) BY <1>2, <2>2 DEF Dates
    <3>2. PICK m : ledger' = [ledger EXCEPT ![z] = Append(ledger[z], JournalEntry("DOCUMENT", 0, m))]
      BY <3>1 DEF Posted
    <3>3. PICK x : x = JournalEntry("DOCUMENT", 0, m) OBVIOUS
    <3>4. x.origin = "DOCUMENT" BY <3>3 DEF JournalEntry
    <3>5. ledger'[z] = Append(ledger[z], x) BY <1>1, <3>2, <3>3 DEF LedgersOK
    <3>6. Append(ledger[z], x) = ledger[z] \o <<x>> BY <1>1 DEF LedgersOK, IsSequence
    <3>7. /\ Len(ledger[z]) \in Nat /\ Len(ledger'[z]) = Len(ledger[z]) + 1
          /\ ledger'[z][Len(ledger[z]) + 1] = x
      BY <1>1, <3>5, <3>6, Appended DEF LedgersOK
    <3> QED BY <3>4, <3>7
  <2> QED BY <1>2, <2>1, <2>2, DocumentsDated DEF Documents
<1> QED BY <1>2 DEF EntriesPosted, EntryFrom

\* Who dates a document holds the cycle or the year of its date, which is open.
LEMMA DaterHolds ==
    ASSUME CycleInv, NEW t \in Transactions, NEW d, Dates(t, d)
    PROVE  /\ \/ Cycle \in held[t]
              \/ Shared("year", doc'[d].year) \in held[t]
              \/ Exclusive("year", doc'[d].year) \in held[t]
           /\ End(t) /\ doc'[d].year \in Years /\ year[doc'[d].year] = "OPEN"
<1>1. PICK k \in {"create", "issue"} : Committing(t, k) BY DEF Dates, CommitCreate, CommitIssue
<1>2. tx[t].kind \in {"create", "issue"} /\ tx[t].checked BY <1>1, Checked DEF CycleInv
<1>3. \/ Cycle \in held[t]
      \/ Shared("year", tx[t].year) \in held[t]
      \/ Exclusive("year", tx[t].year) \in held[t]
  BY <1>2, DocumentHolds DEF CycleInv, LockInv
<1>4. year[tx[t].year] = "OPEN" BY <1>2 DEF CycleInv, LockInv, StillAdmissible
<1>5. tx[t].year \in Years BY <1>2 DEF CycleInv, CycleTypeOK, Refers
<1>6. doc'[d].year = tx[t].year BY DEF Dates
<1> QED BY <1>1, <1>3, <1>4, <1>5, <1>6 DEF Committing

\* What a check that passes establishes of the year to be taken back.
LEMMA CheckFindsBooks ==
    ASSUME CycleInv, NEW u \in Transactions, CheckOrRefuse(u), Admissible(u, reopens')
    PROVE  StillReversible(u)'
<1>1. /\ closes' = closes /\ doc' = doc /\ ledger' = ledger /\ Same(tx'[u], tx[u])
  BY Passes DEF CheckOrRefuse, CycleInv
<1>2. CASE tx[u].kind = "approveReopen"
  <2>1. PICK c : c = reopens'[tx[u].reopen].close OBVIOUS
  <2>2. ReopenPreflightReady(c, reopens') BY <1>2, <2>1 DEF Admissible, CanApproveReopen
  <2>3. PICK y : y = closes[c].year OBVIOUS
  <2>4. /\ NoSuccessorJournalActivity(y, reopens')
        /\ \A d \in Invoices \cup Remittances : doc[d].year # y + 1
    BY <2>2, <2>3 DEF ReopenPreflightReady
  <2>5. closes'[reopens'[tx'[u].reopen].close].year = y BY <1>1, <2>1, <2>3 DEF Same
  <2>6. NoSuccessorJournalActivity(y, reopens)' BY <1>1, <2>4 DEF NoSuccessorJournalActivity
  <2> QED BY <1>1, <2>4, <2>5, <2>6 DEF StillReversible
<1>3. CASE tx[u].kind # "approveReopen" BY <1>1, <1>3 DEF StillReversible, Same
<1> QED BY <1>2, <1>3

\* The year to be taken back stays as the approval found it until it commits.
LEMMA StaysReversible ==
    ASSUME CycleInv, RequestInv, [Next]_vars, NEW u \in Transactions, StillReversible(u),
           tx[u].checked, Same(tx'[u], tx[u]), tx'[u] # Idle
    PROVE  StillReversible(u)'
<1>1. /\ SettledStay /\ ClosesWritten /\ ReopensWritten
      /\ CycleTypeOK /\ Refers(tx[u]) /\ Needs(tx[u]) \subseteq held[u]
      /\ \A r \in 1..Len(reopens) : reopens[r].close \in 1..Len(closes)
      /\ \A r \in 1..Len(reopens) : reopens'[r].close = reopens[r].close
      /\ \A c \in 1..Len(closes) : closes'[c].year = closes[c].year
      /\ Written
  BY Settled, RequestsKept, LedgerStep DEF CycleInv, CycleTypeOK, LockInv, Guarded, Kept
<1>2. CASE tx[u].kind # "approveReopen" BY <1>2 DEF StillReversible, Same
<1>3. CASE tx[u].kind = "approveReopen"
  <2>1. PICK r \in 1..Len(reopens) : r = tx[u].reopen BY <1>1, <1>3 DEF Refers
  <2>2. PICK y \in Years : y = closes[reopens[r].close].year /\ y + 1 \in Years
    BY <1>1, RequestYear
  <2>3. {Cycle, Exclusive("year", y), Exclusive("year", y + 1)} \subseteq held[u]
    BY <1>1, <1>3, <2>1, <2>2 DEF Needs
  <2>4. /\ \A d \in Invoices \cup Remittances : doc[d].year # y + 1
        /\ NoSuccessorJournalActivity(y, reopens)
    BY <1>3, <2>1, <2>2 DEF StillReversible
  <2>5. ASSUME NEW t \in Transactions, End(t),
               \/ Cycle \in held[t]
               \/ Shared("year", y + 1) \in held[t]
               \/ Exclusive("year", y + 1) \in held[t]
        PROVE  FALSE
    <3>1. t # u BY <1>1, <2>5, Ends
    <3> QED BY <2>3, <2>5, <3>1, Conflicts DEF CycleInv, LockInv, LocksExclude
  <2>6. ASSUME NEW d \in Invoices \cup Remittances, doc'[d].year = y + 1 PROVE FALSE
    <3>1. PICK t \in Transactions : Dates(t, d)
      BY <2>4, <2>6, DocumentsDated DEF Documents
    <3> QED BY <2>5, <2>6, <3>1, DaterHolds
  <2>7. ledger'[y + 1] = ledger[y + 1]
    <3>1. ASSUME NEW t \in Transactions, Posts(t, y + 1) PROVE FALSE
      <4>1. PICK k \in {"create", "issue"} : Committing(t, k) /\ tx[t].year = y + 1
        BY <3>1 DEF Posts, CommitCreate, CommitIssue
      <4>2. tx[t].kind \in {"create", "issue"} /\ tx[t].checked /\ End(t)
        BY <4>1, Checked DEF CycleInv, Committing
      <4>3. \/ Cycle \in held[t]
            \/ Shared("year", y + 1) \in held[t]
            \/ Exclusive("year", y + 1) \in held[t]
        BY <4>1, <4>2, DocumentHolds DEF CycleInv, LockInv
      <4> QED BY <2>5, <4>2, <4>3
    <3>2. ASSUME NEW t \in Transactions, CommitApproveClose(t) \/ CommitApproveReopen(t)
          PROVE  FALSE
      BY <2>5, <3>2, ApproverHolds DEF CycleInv
    <3> QED BY <1>1, <2>2, <3>1, <3>2 DEF Written, Closes, Reopens
  <2>8. NoSuccessorJournalActivity(y, reopens)'
    <3>1. ASSUME NEW c \in 1..Len(closes), closes[c].year = y, closes[c].status = "COMPLETED"
          PROVE  c \in 1..Len(closes') /\ closes'[c] = closes[c]
      BY <1>1, <3>1 DEF SettledStay, ClosesWritten
    <3>2. ASSUME NEW q \in 1..Len(reopens), reopens[q].status = "COMPLETED"
          PROVE  q \in 1..Len(reopens') /\ reopens'[q] = reopens[q]
      BY <1>1, <3>2 DEF SettledStay, ReopensWritten
    <3>3. ASSUME NEW p \in 1..Len(ledger'[y + 1])
          PROVE  \/ \E c \in 1..Len(closes') :
                      closes'[c].year = y /\ closes'[c].status = "COMPLETED" /\ closes'[c].opening = p
                 \/ \E q \in 1..Len(reopens') :
                      /\ reopens'[q].close \in 1..Len(closes')
                      /\ closes'[reopens'[q].close].year = y
                      /\ closes'[reopens'[q].close].status = "COMPLETED"
                      /\ reopens'[q].status = "COMPLETED" /\ reopens'[q].opening = p
      <4>1. p \in 1..Len(ledger[y + 1]) BY <2>7
      <4>2. \/ \E c \in 1..Len(closes) :
                 closes[c].year = y /\ closes[c].status = "COMPLETED" /\ closes[c].opening = p
            \/ \E q \in 1..Len(reopens) :
                 /\ closes[reopens[q].close].year = y
                 /\ closes[reopens[q].close].status = "COMPLETED"
                 /\ reopens[q].status = "COMPLETED" /\ reopens[q].opening = p
        BY <2>4, <4>1 DEF NoSuccessorJournalActivity
      <4>3. CASE \E c \in 1..Len(closes) :
                 closes[c].year = y /\ closes[c].status = "COMPLETED" /\ closes[c].opening = p
        BY <3>1, <4>3
      <4>4. ASSUME NEW q \in 1..Len(reopens), closes[reopens[q].close].year = y,
                   closes[reopens[q].close].status = "COMPLETED",
                   reopens[q].status = "COMPLETED", reopens[q].opening = p
            PROVE  /\ q \in 1..Len(reopens') /\ reopens'[q].close \in 1..Len(closes')
                   /\ closes'[reopens'[q].close].year = y
                   /\ closes'[reopens'[q].close].status = "COMPLETED"
                   /\ reopens'[q].status = "COMPLETED" /\ reopens'[q].opening = p
        <5>1. PICK c \in 1..Len(closes) : c = reopens[q].close BY <1>1
        <5>2. c \in 1..Len(closes') /\ closes'[c] = closes[c] BY <3>1, <4>4, <5>1
        <5>3. q \in 1..Len(reopens') /\ reopens'[q] = reopens[q] BY <3>2, <4>4
        <5> QED BY <4>4, <5>1, <5>2, <5>3
      <4> QED BY <4>2, <4>3, <4>4
    <3> QED BY <3>3 DEF NoSuccessorJournalActivity
  <2>9. tx'[u].reopen = r /\ closes'[reopens'[r].close].year = y BY <1>1, <2>1, <2>2 DEF Same
  <2> QED BY <2>6, <2>8, <2>9 DEF StillReversible
<1> QED BY <1>2, <1>3

LEMMA BooksStep ==
    ASSUME CycleInv, RequestInv, BooksInv, [Next]_vars
    PROVE  BooksInv'
<1>0. CycleTypeOK BY DEF CycleInv
<1>1. OpeningsReferred' /\ ReversalsReferred' /\ EntriesPosted'
  BY OpeningsStep, ReversalsStep, EntriesStep DEF BooksInv
<1>2. ASSUME NEW u \in Transactions PROVE StillReversible(u)'
  <2>1. CASE ~ tx'[u].checked BY <2>1 DEF StillReversible
  <2>2. ASSUME tx[u].checked, tx'[u].checked, Same(tx'[u], tx[u]) PROVE StillReversible(u)'
    <3>1. tx'[u] # Idle BY <2>2, IdleType
    <3> QED BY <2>2, <3>1, StaysReversible DEF BooksInv
  <2>3. Same(tx[u], tx[u]) BY DEF Same
  <2>4. ASSUME tx'[u] = tx[u] PROVE StillReversible(u)' BY <2>1, <2>2, <2>3, <2>4
  <2>5. ASSUME Lock(u) PROVE StillReversible(u)' BY <1>0, <2>1, <2>2, <2>5, Locks
  <2>6. ASSUME CheckOrRefuse(u), Admissible(u, reopens') PROVE StillReversible(u)'
    BY <2>6, CheckFindsBooks
  <2>7. ASSUME End(u) PROVE StillReversible(u)' BY <1>0, <2>1, <2>7, Ends, IdleType
  <2>8. ASSUME NEW op, Begun(op), Begin(u, op) PROVE StillReversible(u)'
    BY <1>0, <2>1, <2>8, Begins
  <2>9. ASSUME NEW t \in Transactions, t # u,
               \/ \E op : Begun(op) /\ Begin(t, op)
               \/ Lock(t)
               \/ CheckOrRefuse(t) /\ Admissible(t, reopens')
               \/ End(t)
        PROVE  tx'[u] = tx[u]
    BY <1>0, <2>9, OthersStay
  <2>10. ASSUME NEW t \in Transactions,
                \/ \E op : Begun(op) /\ Begin(t, op)
                \/ Lock(t)
                \/ CheckOrRefuse(t) /\ Admissible(t, reopens')
                \/ End(t)
         PROVE  StillReversible(u)'
    <3>1. CASE t = u BY <2>5, <2>6, <2>7, <2>8, <2>10, <3>1
    <3>2. CASE t # u BY <2>4, <2>9, <2>10, <3>2
    <3> QED BY <3>1, <3>2
  <2>11. ASSUME UNCHANGED <<held, tx>> PROVE StillReversible(u)' BY <2>4, <2>11
  <2> QED BY <1>0, <2>10, <2>11, StepOfOne
<1> QED BY <1>1, <1>2 DEF BooksInv

\* The requests and the ledgers tell the same, and an approval of a reopening
\* commits on the books that it checked.
THEOREM BooksAgreeWithRequests == Spec => []BooksInv
<1>1. Init => BooksInv
  BY IdleType DEF Init, BooksInv, OpeningsReferred, ReversalsReferred, EntriesPosted,
     StillReversible, Undated, Documents, Years
<1>2. CycleInv /\ RequestInv /\ BooksInv /\ [Next]_vars => BooksInv' BY BooksStep
<1> QED BY <1>1, <1>2, CycleInvariant, RequestsAreSettledOnce, PTL DEF Spec

\* Nothing is dated in year z and every entry of its ledger is reversed.
IdleYear(z) ==
    /\ \A d \in Documents : doc[d].year # z
    /\ \A p \in 1..Len(ledger[z]) :
         ledger[z][p].of = 0 => \E q \in 1..Len(ledger[z]) : ledger[z][q].of = p

\* A reversed year stays idle: nothing is dated nor posted in it.
LEMMA StaysIdle ==
    ASSUME CycleInv, [Next]_vars, NEW z \in Years, year[z] = "REVERSED", year'[z] = "REVERSED",
           IdleYear(z)
    PROVE  IdleYear(z)'
<1>1. ledger'[z] = ledger[z] BY FrozenStep
<1>2. ASSUME NEW d \in Documents, doc'[d].year = z PROVE FALSE
  <2>1. doc[d].year # z BY DEF IdleYear
  <2>2. PICK t \in Transactions : Dates(t, d) BY <1>2, <2>1, DocumentsDated
  <2>3. year[z] = "OPEN" BY <1>2, <2>2, DaterHolds
  <2> QED BY <2>3
<1> QED BY <1>1, <1>2 DEF IdleYear

\* A close that was undone has its opening entry reversed.
LEMMA UndoneIsReversed ==
    ASSUME CycleInv, BooksInv, NEW c \in 1..Len(closes), closes[c].opening # 0,
           ReopenedIn(reopens, c)
    PROVE  \E q \in 1..Len(ledger[closes[c].year + 1]) :
               ledger[closes[c].year + 1][q].of = closes[c].opening
<1>1. PICK r \in 1..Len(reopens) : reopens[r].close = c /\ reopens[r].status = "COMPLETED"
  BY DEF ReopenedIn
<1>2. PICK z : z = closes[c].year + 1 OBVIOUS
<1>3. /\ reopens[r].opening \in 1..Len(ledger[z])
      /\ ledger[z][reopens[r].opening].of = closes[c].opening
  BY <1>1, <1>2 DEF BooksInv, ReversalsReferred, EntryFrom
<1> QED BY <1>2, <1>3

\* The approval of a reopening leaves the next year idle.
LEMMA BecomesIdle ==
    ASSUME CycleInv, RequestInv, BooksInv, ClosedAlike, [Next]_vars,
           NEW t \in Transactions, CommitApproveReopen(t), NEW z \in Years,
           year'[z] = "REVERSED", year[z] # "REVERSED"
    PROVE  IdleYear(z)'
<1>1. /\ CycleTypeOK /\ LedgersOK /\ year \in [Years -> Statuses]
      /\ \A r \in 1..Len(reopens) : reopens[r].close \in 1..Len(closes)
      /\ closes \in Seq(CloseRequests)
  BY DEF CycleInv, CycleTypeOK
<1>2. PICK r \in 1..Len(reopens) : \E g : Undone(t, r, g) BY <1>1, ReopenCommits
<1>3. PICK g : Undone(t, r, g) BY <1>2
<1>4. PICK c \in 1..Len(closes) : c = reopens[r].close BY <1>1
<1>5. PICK y \in Years :
        /\ y = closes[c].year /\ y + 1 \in Years /\ year[y] = "CLOSED"
        /\ year' = [year EXCEPT ![y + 1] = "REVERSED", ![y] = "OPEN"]
  BY <1>3, <1>4, Committed DEF Undone
<1>6. z = y + 1 BY <1>1, <1>5
<1>7. /\ tx[t].reopen = r /\ g = Reversal(ledger[z], closes[c].opening)
      /\ ledger'[z] = ledger[z] \o g /\ doc' = doc
  BY <1>3, <1>4, <1>5, <1>6 DEF Undone
<1>8. tx[t].kind = "approveReopen" /\ tx[t].checked
  BY Checked DEF CommitApproveReopen, CycleInv
<1>9. /\ \A d \in Invoices \cup Remittances : doc[d].year # z
      /\ NoSuccessorJournalActivity(y, reopens)
  BY <1>4, <1>5, <1>6, <1>7, <1>8 DEF BooksInv, StillReversible
<1>10. InForceOf(y, c)
  BY <1>4, <1>5, <1>7, <1>8 DEF RequestInv, StillRequested, InForceOf, CloseInForce
\* Every entry of the year is the opening of a close of the year before, or its reversal.
<1>11. ASSUME NEW p \in 1..Len(ledger[z])
       PROVE  \/ \E k \in 1..Len(closes) :
                   closes[k].year = y /\ closes[k].status = "COMPLETED" /\ closes[k].opening = p
              \/ ledger[z][p].of # 0 /\ ledger[z][p].origin = "FISCAL_YEAR_CLOSE_REVERSAL"
  <2>1. CASE \E k \in 1..Len(closes) :
               closes[k].year = y /\ closes[k].status = "COMPLETED" /\ closes[k].opening = p
    BY <2>1
  <2>2. ASSUME NEW q \in 1..Len(reopens), closes[reopens[q].close].year = y,
               reopens[q].status = "COMPLETED", reopens[q].opening = p
        PROVE  ledger[z][p].of # 0 /\ ledger[z][p].origin = "FISCAL_YEAR_CLOSE_REVERSAL"
    <3>1. PICK k : k = closes[reopens[q].close] OBVIOUS
    <3>2. k.year + 1 = z /\ p # 0 BY <1>6, <2>2, <3>1
    <3>3. k.opening # 0 /\ ledger[z][p].of = k.opening
          /\ ledger[z][p].origin = "FISCAL_YEAR_CLOSE_REVERSAL"
      BY <2>2, <3>1, <3>2 DEF BooksInv, ReversalsReferred, EntryFrom
    <3> QED BY <3>3
  <2> QED BY <1>6, <1>9, <2>1, <2>2 DEF NoSuccessorJournalActivity
<1>12. ASSUME NEW k \in 1..Len(closes), closes[k].year = y, closes[k].status = "COMPLETED",
              NEW p \in 1..Len(ledger[z]), closes[k].opening = p
       PROVE  ledger[z][p].origin = "OPENING"
  BY <1>6, <1>12 DEF BooksInv, OpeningsReferred, EntryFrom
<1>13. ASSUME NEW d \in Documents, doc'[d].year = z PROVE FALSE
  <2>1. d \in Entries /\ doc[d].year = z BY <1>7, <1>9, <1>13 DEF Documents
  <2>2. PICK p \in 1..Len(ledger[z]) : ledger[z][p].origin = "DOCUMENT"
    BY <2>1 DEF BooksInv, EntriesPosted, EntryFrom
  <2> QED BY <1>11, <1>12, <2>2
<1>14. ASSUME NEW p \in 1..Len(ledger[z]), ledger[z][p].of = 0
       PROVE  \E q \in 1..Len(ledger'[z]) : ledger'[z][q].of = p
  <2>1. PICK k \in 1..Len(closes) :
          closes[k].year = y /\ closes[k].status = "COMPLETED" /\ closes[k].opening = p
    BY <1>11, <1>14
  <2>2. closes[k].opening # 0 BY <2>1
  <2>3. CASE k = c
    <3>1. PICK m : g = <<JournalEntry("FISCAL_YEAR_CLOSE_REVERSAL", p, m)>>
      BY <1>7, <2>1, <2>2, <2>3, ReversalIs
    <3>2. PICK x : x = JournalEntry("FISCAL_YEAR_CLOSE_REVERSAL", p, m) OBVIOUS
    <3>3. ledger'[z] = ledger[z] \o <<x>> /\ x.of = p BY <1>7, <3>1, <3>2 DEF JournalEntry
    <3>4. /\ Len(ledger[z]) \in Nat /\ Len(ledger'[z]) = Len(ledger[z]) + 1
          /\ ledger'[z][Len(ledger[z]) + 1] = x
      BY <1>1, <3>3, Appended DEF LedgersOK
    <3> QED BY <3>3, <3>4
  <2>4. CASE k # c
    <3>1. ~ InForceOf(y, k) BY <1>10, <2>4 DEF ClosedAlike
    <3>2. ReopenedIn(reopens, k) BY <2>1, <3>1 DEF InForceOf, CloseInForce
    <3>3. PICK q \in 1..Len(ledger[z]) : ledger[z][q].of = p
      BY <1>6, <2>1, <2>2, <3>2, UndoneIsReversed
    <3> QED BY <3>3, EntryKept
  <2> QED BY <2>3, <2>4
<1>15. ASSUME NEW p \in 1..Len(ledger'[z]), p \notin 1..Len(ledger[z]) PROVE ledger'[z][p].of # 0
  <2>1. IsSequence(ledger[z]) /\ Len(ledger[z]) \in Nat BY <1>1 DEF LedgersOK, IsSequence
  <2>2. CASE closes[c].opening = 0
    <3>1. g = <<>> BY <1>7, <2>2, ReversalIs
    <3>2. ledger[z] \o <<>> = ledger[z] BY <2>1 DEF IsSequence
    <3> QED BY <1>7, <1>15, <3>1, <3>2
  <2>3. CASE closes[c].opening # 0
    <3>1. PICK m : g = <<JournalEntry("FISCAL_YEAR_CLOSE_REVERSAL", closes[c].opening, m)>>
      BY <1>7, <2>3, ReversalIs
    <3>2. PICK x : x = JournalEntry("FISCAL_YEAR_CLOSE_REVERSAL", closes[c].opening, m) OBVIOUS
    <3>3. ledger'[z] = ledger[z] \o <<x>> /\ x.of # 0 BY <1>7, <2>3, <3>1, <3>2 DEF JournalEntry
    <3>4. /\ Len(ledger'[z]) = Len(ledger[z]) + 1 /\ ledger'[z][Len(ledger[z]) + 1] = x
      BY <2>1, <3>3, Appended
    <3>5. p = Len(ledger[z]) + 1 BY <1>15, <2>1, <3>4
    <3> QED BY <3>3, <3>4, <3>5
  <2> QED BY <2>2, <2>3
<1>16. \A p \in 1..Len(ledger[z]) : ledger'[z][p] = ledger[z][p] BY EntryKept
<1>17. ASSUME NEW p \in 1..Len(ledger'[z]), ledger'[z][p].of = 0
       PROVE  \E q \in 1..Len(ledger'[z]) : ledger'[z][q].of = p
  <2>1. p \in 1..Len(ledger[z]) BY <1>15, <1>17
  <2> QED BY <1>14, <1>16, <1>17, <2>1
<1> QED BY <1>13, <1>17 DEF IdleYear

LEMMA ReversedStep ==
    ASSUME CycleInv, RequestInv, BooksInv, ClosedAlike, ReversedYearIdle, [Next]_vars
    PROVE  ReversedYearIdle'
<1>1. year \in [Years -> Statuses] BY DEF CycleInv, CycleTypeOK
<1>2. ASSUME NEW z \in Years, year'[z] = "REVERSED" PROVE IdleYear(z)'
  <2>1. CASE year[z] = "REVERSED"
    <3>1. IdleYear(z) BY <2>1 DEF ReversedYearIdle, IdleYear
    <3> QED BY <1>2, <2>1, <3>1, StaysIdle
  <2>2. CASE year[z] # "REVERSED"
    <3>1. ~ CreateInitialYear BY <1>1, <1>2, <2>2 DEF CreateInitialYear
    <3>2. ASSUME NEW t \in Transactions, CommitApproveClose(t) PROVE FALSE
      <4>1. PICK y \in Years :
              y + 1 \in Years /\ year' = [year EXCEPT ![y] = "CLOSED", ![y + 1] = "OPEN"]
        BY <3>2, Committed
      <4> QED BY <1>1, <1>2, <2>2, <4>1
    <3>3. PICK t \in Transactions : CommitApproveReopen(t)
      BY <1>2, <2>2, <3>1, <3>2, YearWriters DEF CycleInv
    <3> QED BY <1>2, <2>2, <3>3, BecomesIdle
  <2> QED BY <2>1, <2>2
<1> QED BY <1>2 DEF ReversedYearIdle, IdleYear

\* Nothing that was dated or posted in the successor is lost under a reopening:
\* a reversed year has no documents and every entry in it is reversed.
THEOREM ReversedYearsAreIdle == Spec => []ReversedYearIdle
<1>1. Init => ReversedYearIdle /\ ClosedAlike
  BY DEF Init, ReversedYearIdle, ClosedAlike, InForceOf
<1>2. CycleInv /\ RequestInv /\ BooksInv /\ ClosedAlike /\ ReversedYearIdle /\ [Next]_vars
        => ReversedYearIdle' /\ ClosedAlike'
  BY ReversedStep, ClosedAlikeStep
<1> QED BY <1>1, <1>2, CycleInvariant, RequestsAreSettledOnce, BooksAgreeWithRequests, PTL DEF Spec
-----------------------------------------------------------------------------
(* What the ledgers add up to.                                               *)

Amounts == [Accounts -> Int]
Entry == [origin : Origins, of : Nat, amount : Amounts]

\* A ledger of entries that reverse, if they reverse, an earlier one.
SoundLedger(s) == s \in Seq(Entry) /\ \A p \in DOMAIN s : s[p].of < p

TotalOf(s, a) == Balance(s)[a]
PartOf(o, s, a) == BalanceAt(s, From(o, s))[a]
AmountAt(s, p, a) == IF p = 0 THEN 0 ELSE s[p].amount[a]

LEMMA BalanceIs ==
    ASSUME NEW s, SoundLedger(s), NEW a \in Accounts, NEW P \in SUBSET DOMAIN s,
           NEW f, f = [p \in DOMAIN s |-> s[p].amount[a]]
    PROVE  /\ BalanceAt(s, P)[a] = SumFunctionOnSet(f, P)
           /\ BalanceAt(s, P)[a] \in Int
           /\ IsFiniteSet(P) /\ \A p \in P : f[p] = s[p].amount[a] /\ f[p] \in Int
<1>1. PICK n \in Nat : n = Len(s) BY DEF SoundLedger
<1>2. DOMAIN s = 1..n /\ \A p \in DOMAIN s : s[p] \in Entry BY <1>1 DEF SoundLedger
<1>3. \A p \in DOMAIN s : s[p].amount[a] \in Int BY <1>2 DEF Entry, Amounts
<1>4. IsFiniteSet(P) BY <1>2, TermsFinite, FS_Subset
<1>5. \A p \in P : f[p] = s[p].amount[a] /\ f[p] \in Int BY <1>3
<1>6. SumFunctionOnSet(f, P) \in Int BY <1>4, <1>5, SumType
<1>7. BalanceAt(s, P)[a] = SumFunctionOnSet(f, P) BY DEF BalanceAt
<1> QED BY <1>4, <1>5, <1>6, <1>7

\* What a ledger gains does not change what was in it.
LEMMA BalanceKept ==
    ASSUME NEW s, SoundLedger(s), NEW z, SoundLedger(z), NEW a \in Accounts,
           NEW P \in SUBSET DOMAIN s, \A p \in DOMAIN s : p \in DOMAIN z /\ z[p] = s[p]
    PROVE  BalanceAt(z, P)[a] = BalanceAt(s, P)[a]
<1>1. PICK f : f = [p \in DOMAIN s |-> s[p].amount[a]] OBVIOUS
<1>2. PICK g : g = [p \in DOMAIN z |-> z[p].amount[a]] OBVIOUS
<1>3. P \in SUBSET DOMAIN z OBVIOUS
<1>4. /\ BalanceAt(s, P)[a] = SumFunctionOnSet(f, P)
      /\ IsFiniteSet(P) /\ \A p \in P : f[p] = s[p].amount[a]
  BY <1>1, BalanceIs
<1>5. BalanceAt(z, P)[a] = SumFunctionOnSet(g, P) /\ \A p \in P : g[p] = z[p].amount[a]
  BY <1>2, <1>3, BalanceIs
<1>6. \A p \in P : f[p] = g[p] BY <1>4, <1>5
<1> QED BY <1>4, <1>5, <1>6, SumAgrees

\* One more entry of a ledger, in a part of it.
LEMMA BalanceGrows ==
    ASSUME NEW s, SoundLedger(s), NEW z, SoundLedger(z), NEW a \in Accounts,
           NEW P \in SUBSET DOMAIN s, \A p \in DOMAIN s : p \in DOMAIN z /\ z[p] = s[p],
           NEW q \in DOMAIN z, q \notin DOMAIN s
    PROVE  BalanceAt(z, P \cup {q})[a] = BalanceAt(s, P)[a] + z[q].amount[a]
<1>1. PICK g : g = [p \in DOMAIN z |-> z[p].amount[a]] OBVIOUS
<1>2. PICK Q : Q = P \cup {q} OBVIOUS
<1>3. Q \in SUBSET DOMAIN z /\ P \in SUBSET DOMAIN z /\ q \in Q /\ Q \ {q} = P BY <1>2
<1>4. /\ BalanceAt(z, Q)[a] = SumFunctionOnSet(g, Q) /\ IsFiniteSet(Q)
      /\ \A p \in Q : g[p] = z[p].amount[a] /\ g[p] \in Int
  <2>1. Q \in SUBSET DOMAIN z BY <1>3
  <2>2. BalanceAt(z, Q)[a] = SumFunctionOnSet(g, Q) BY <1>1, <2>1, BalanceIs
  <2>3. IsFiniteSet(Q) BY <1>1, <2>1, BalanceIs, Zenon
  <2>4. \A p \in Q : g[p] = z[p].amount[a] /\ g[p] \in Int BY <1>1, <2>1, BalanceIs, Zenon
  <2> QED BY <2>2, <2>3, <2>4
<1>5. BalanceAt(z, P)[a] = SumFunctionOnSet(g, P) /\ BalanceAt(z, P)[a] \in Int
  <2>1. P \in SUBSET DOMAIN z BY <1>3
  <2>2. BalanceAt(z, P)[a] = SumFunctionOnSet(g, P) BY <1>1, <2>1, BalanceIs
  <2>3. BalanceAt(z, P)[a] \in Int BY <1>1, <2>1, BalanceIs, Zenon
  <2> QED BY <2>2, <2>3
<1>6. SumFunctionOnSet(g, Q) = g[q] + SumFunctionOnSet(g, Q \ {q}) BY <1>3, <1>4, SumTakesOut
<1>7. BalanceAt(z, P)[a] = BalanceAt(s, P)[a] BY BalanceKept
<1>8. g[q] = z[q].amount[a] /\ g[q] \in Int BY <1>3, <1>4
<1>9. SumFunctionOnSet(g, Q \ {q}) = BalanceAt(s, P)[a] BY <1>3, <1>5, <1>7
<1>10. BalanceAt(z, Q)[a] = g[q] + BalanceAt(s, P)[a] BY <1>4, <1>6, <1>9
<1>11. BalanceAt(s, P)[a] \in Int BY <1>5, <1>7
<1> QED BY <1>2, <1>8, <1>10, <1>11
-----------------------------------------------------------------------------
\* Ledger z is ledger s with at most one more entry, of the amounts m, which
\* counts as an opening or as a closing if o says so.
Added(s, z, o, m) ==
    /\ SoundLedger(s) /\ SoundLedger(z) /\ m \in Amounts
    /\ \A p \in DOMAIN s : p \in DOMAIN z /\ z[p] = s[p]
    /\ \A p \in DOMAIN z : p \in DOMAIN s \/ z[p].amount = m
    /\ \A a \in Accounts : TotalOf(z, a) = TotalOf(s, a) + m[a]
    /\ \A a \in Accounts :
         PartOf("OPENING", z, a) = PartOf("OPENING", s, a) + (IF o = "OPENING" THEN m[a] ELSE 0)
    /\ \A a \in Accounts :
         PartOf("CLOSING", z, a) = PartOf("CLOSING", s, a) + (IF o = "CLOSING" THEN m[a] ELSE 0)

\* What an entry counts as: its origin, or that of the entry it reverses.
Class(s, x) == IF x.of = 0 THEN x.origin ELSE s[x.of].origin

LEMMA EntryAdds ==
    ASSUME NEW s, SoundLedger(s), NEW x \in Entry, x.of <= Len(s),
           x.of # 0 => x.origin = "FISCAL_YEAR_CLOSE_REVERSAL"
    PROVE  Added(s, s \o <<x>>, Class(s, x), x.amount)
<1>1. PICK n \in Nat : n = Len(s) BY DEF SoundLedger
<1>2. PICK z : z = s \o <<x>> OBVIOUS
<1>3. /\ z \in Seq(Entry) /\ DOMAIN s = 1..n /\ DOMAIN z = 1..(n + 1) /\ z[n + 1] = x
      /\ \A p \in 1..n : z[p] = s[p] /\ s[p] \in Entry /\ s[p].of < p
  BY <1>1, <1>2 DEF SoundLedger
<1>4. x.of \in 0..n /\ x.amount \in Amounts BY <1>1 DEF Entry
<1>5. SoundLedger(z)
  <2>1. ASSUME NEW p \in 1..(n + 1) PROVE z[p].of < p
    <3>1. CASE p = n + 1 BY <1>3, <1>4, <3>1
    <3>2. CASE p # n + 1 BY <1>3, <3>2
    <3> QED BY <3>1, <3>2
  <2> QED BY <1>3, <2>1 DEF SoundLedger
<1>6. \A p \in DOMAIN s : p \in DOMAIN z /\ z[p] = s[p] BY <1>3
<1>7. n + 1 \in DOMAIN z /\ n + 1 \notin DOMAIN s BY <1>3
<1>8. ASSUME NEW a \in Accounts PROVE TotalOf(z, a) = TotalOf(s, a) + x.amount[a]
  <2>1. PICK P \in SUBSET DOMAIN s : P = DOMAIN s OBVIOUS
  <2>2. DOMAIN z = P \cup {n + 1} BY <1>3, <2>1
  <2>3. BalanceAt(z, P \cup {n + 1})[a] = BalanceAt(s, P)[a] + z[n + 1].amount[a]
    BY <1>5, <1>6, <1>7, BalanceGrows
  <2> QED BY <1>3, <2>1, <2>2, <2>3 DEF TotalOf, Balance
<1>9. ASSUME NEW o \in {"OPENING", "CLOSING"}, NEW a \in Accounts
      PROVE  PartOf(o, z, a) = PartOf(o, s, a) + (IF Class(s, x) = o THEN x.amount[a] ELSE 0)
  <2>1. PICK P : P = From(o, s) OBVIOUS
  <2>2. P \in SUBSET DOMAIN s BY <2>1 DEF From
  <2>3. ASSUME NEW p \in 1..n PROVE p \in From(o, z) <=> p \in P
    <3>1. z[p] = s[p] /\ s[p].of < p /\ s[p].of \in Nat BY <1>3 DEF Entry
    <3>2. s[p].of # 0 => z[s[p].of] = s[s[p].of] BY <1>3, <3>1
    <3> QED BY <1>3, <2>1, <3>1, <3>2 DEF From
  <2>4. n + 1 \in From(o, z) <=> Class(s, x) = o
    <3>1. x.of # 0 => z[x.of] = s[x.of] BY <1>3, <1>4
    <3>2. n + 1 \in From(o, z) <=> x.origin = o \/ (x.of # 0 /\ z[x.of].origin = o)
      BY <1>3, <1>7 DEF From
    <3>3. x.of # 0 => x.origin # o BY <1>9
    <3> QED BY <3>1, <3>2, <3>3 DEF Class
  <2>5. PICK F : F = From(o, z) OBVIOUS
  <2>6. F \subseteq 1..(n + 1) /\ P \subseteq 1..n BY <1>3, <2>2, <2>5 DEF From
  <2>10. \A p : p \in F <=> p \in P \/ (p = n + 1 /\ Class(s, x) = o)
    <3>1. (\A p \in 1..(n + 1) : p \in 1..n \/ p = n + 1) /\ n + 1 \notin 1..n OBVIOUS
    <3>2. \A p \in 1..n : p \in F <=> p \in P BY <2>3, <2>5
    <3>3. n + 1 \in F <=> Class(s, x) = o BY <2>4, <2>5
    <3> QED BY <2>6, <3>1, <3>2, <3>3
  <2>7. BalanceAt(s, P)[a] \in Int
    <3>1. PICK f : f = [p \in DOMAIN s |-> s[p].amount[a]] OBVIOUS
    <3> QED BY <2>2, <3>1, BalanceIs
  <2>8. CASE Class(s, x) = o
    <3>1. F = P \cup {n + 1} BY <2>8, <2>10
    <3>2. BalanceAt(z, P \cup {n + 1})[a] = BalanceAt(s, P)[a] + z[n + 1].amount[a]
      BY <1>5, <1>6, <1>7, <2>2, BalanceGrows
    <3> QED BY <1>3, <2>1, <2>5, <2>8, <3>1, <3>2 DEF PartOf
  <2>9. CASE Class(s, x) # o
    <3>1. F = P BY <2>9, <2>10
    <3>2. BalanceAt(z, P)[a] = BalanceAt(s, P)[a] BY <1>5, <1>6, <2>2, BalanceKept
    <3> QED BY <2>1, <2>5, <2>7, <2>9, <3>1, <3>2 DEF PartOf
  <2> QED BY <2>8, <2>9
<1>10. \A p \in DOMAIN z : p \in DOMAIN s \/ z[p].amount = x.amount BY <1>3
<1> QED BY <1>2, <1>4, <1>5, <1>6, <1>8, <1>9, <1>10 DEF Added

LEMMA TotalType ==
    ASSUME NEW s, SoundLedger(s), NEW a \in Accounts
    PROVE  TotalOf(s, a) \in Int /\ \A o : PartOf(o, s, a) \in Int
<1>1. PICK f : f = [p \in DOMAIN s |-> s[p].amount[a]] OBVIOUS
<1>2. ASSUME NEW P \in SUBSET DOMAIN s PROVE BalanceAt(s, P)[a] \in Int BY <1>1, <1>2, BalanceIs
<1>3. PICK D : D = DOMAIN s OBVIOUS
<1>4. BalanceAt(s, D)[a] \in Int BY <1>2, <1>3
<1>5. \A o : From(o, s) \in SUBSET DOMAIN s BY DEF From
<1> QED BY <1>2, <1>3, <1>4, <1>5 DEF TotalOf, PartOf, Balance

LEMMA NothingAdds ==
    ASSUME NEW s, SoundLedger(s), NEW m \in Amounts, \A a \in Accounts : m[a] = 0, NEW o
    PROVE  Added(s, s, o, m)
BY TotalType DEF Added

\* The entry at position p of a ledger, if there is one, is of an origin.
IfAny(s, p, origin) == p # 0 => p \in DOMAIN s /\ s[p].origin = origin

\* The amounts m are posted under an origin and at a position, unless all are zero.
PostedAt(s, z, o, m, p) ==
    /\ Added(s, z, o, m)
    /\ \A a \in Accounts : AmountAt(z, p, a) = m[a]
    /\ IfAny(z, p, o)

\* What is posted by a close, which posts no entry of empty lines.
LEMMA UnlessEmptyAdds ==
    ASSUME NEW s, SoundLedger(s), NEW m \in Amounts, NEW o \in Origins
    PROVE  LET e == EntryUnlessEmpty(o, m) IN PostedAt(s, s \o e, o, m, Position(s, e))
<1>e. PICK e : e = EntryUnlessEmpty(o, m) OBVIOUS
<1>p. PICK z, p : z = s \o e /\ p = Position(s, e) OBVIOUS
<1>1. PICK n \in Nat : n = Len(s) /\ DOMAIN s = 1..n /\ s \in Seq(Entry) BY DEF SoundLedger
<1>2. ASSUME \A a \in Accounts : m[a] = 0 PROVE PostedAt(s, z, o, m, p)
  <2>1. e = <<>> BY <1>e, <1>2 DEF EntryUnlessEmpty
  <2>2. z = s BY <1>1, <1>p, <2>1
  <2>3. p = 0 BY <1>p, <2>1, PositionIs
  <2> QED BY <1>2, <2>2, <2>3, NothingAdds DEF AmountAt, PostedAt, IfAny
<1>3. ASSUME ~ \A a \in Accounts : m[a] = 0
      PROVE  PostedAt(s, z, o, m, p)
  <2>1. PICK x : x = JournalEntry(o, 0, m) OBVIOUS
  <2>2. x \in Entry /\ x.of = 0 /\ x.origin = o /\ x.amount = m
    BY <2>1 DEF JournalEntry, Entry
  <2>3. e = <<x>> BY <1>e, <1>3, <2>1 DEF EntryUnlessEmpty
  <2>4. Added(s, z, o, m)
    <3>1. Class(s, x) = o BY <2>2 DEF Class
    <3>2. Added(s, s \o <<x>>, Class(s, x), x.amount) BY <1>1, <2>2, EntryAdds
    <3> QED BY <1>p, <2>2, <2>3, <3>1, <3>2
  <2>5. p = n + 1 BY <1>1, <1>p, <2>3, PositionIs
  <2>6. z[n + 1] = x /\ n + 1 \in DOMAIN z BY <1>1, <1>p, <2>2, <2>3
  <2> QED BY <2>2, <2>4, <2>5, <2>6 DEF AmountAt, PostedAt, IfAny
<1>4. PostedAt(s, z, o, m, p) BY <1>2, <1>3
<1> QED BY <1>e, <1>p, <1>4

\* What is posted by a reopening, which reverses nothing when there is no entry.
LEMMA ReversalAdds ==
    ASSUME NEW s, SoundLedger(s), NEW z, SoundLedger(z),
           \A q \in DOMAIN s : q \in DOMAIN z /\ z[q] = s[q],
           NEW p \in Nat, NEW o, p # 0 => p \in DOMAIN s /\ s[p].origin = o,
           NEW m, m = [a \in Accounts |-> - AmountAt(s, p, a)]
    PROVE  Added(z, z \o Reversal(s, p), o, m)
<1>1. CASE p = 0
  <2>1. Reversal(s, p) = <<>> BY <1>1 DEF Reversal
  <2>2. z \o <<>> = z BY DEF SoundLedger
  <2>3. m = [a \in Accounts |-> 0]
    <3>1. \A a \in Accounts : AmountAt(s, p, a) = 0 BY <1>1 DEF AmountAt
    <3>2. \A k \in Int : - k = 0 - k OBVIOUS
    <3>3. \A a \in Accounts : - AmountAt(s, p, a) = 0 BY <3>1, <3>2
    <3> QED BY <3>3
  <2>4. m \in Amounts /\ \A a \in Accounts : m[a] = 0 BY <2>3 DEF Amounts
  <2> QED BY <2>1, <2>2, <2>4, NothingAdds
<1>2. CASE p # 0
  <2>1. s[p] \in Entry /\ p \in DOMAIN z /\ z[p] = s[p] BY <1>2 DEF SoundLedger
  <2>2. \A a \in Accounts : s[p].amount[a] \in Int BY <2>1 DEF Entry, Amounts
  <2>3. m = [a \in Accounts |-> - s[p].amount[a]] BY <1>2 DEF AmountAt
  <2>4. m \in Amounts BY <2>2, <2>3 DEF Amounts
  <2>5. PICK x : x = JournalEntry("FISCAL_YEAR_CLOSE_REVERSAL", p, m) OBVIOUS
  <2>6. /\ x \in Entry /\ x.of = p /\ x.amount = m
        /\ x.origin = "FISCAL_YEAR_CLOSE_REVERSAL"
    BY <2>4, <2>5 DEF JournalEntry, Entry, Origins
  <2>7. Reversal(s, p) = <<x>> BY <1>2, <2>3, <2>5 DEF Reversal
  <2>8. Class(z, x) = o BY <1>2, <2>1, <2>6 DEF Class
  <2>9. x.of <= Len(z)
    <3>1. z \in Seq(Entry) BY DEF SoundLedger
    <3> QED BY <2>1, <2>6, <3>1
  <2>10. Added(z, z \o <<x>>, Class(z, x), x.amount) BY <2>6, <2>9, EntryAdds
  <2> QED BY <2>6, <2>7, <2>8, <2>10
<1> QED BY <1>1, <1>2

\* What is posted with a document.
LEMMA SaleAdds ==
    ASSUME NEW s, SoundLedger(s), NEW client \in Clients
    PROVE  Added(s, Append(s, JournalEntry("DOCUMENT", 0, Sale(client))), "DOCUMENT", Sale(client))
<1>1. PICK m : m = Sale(client) OBVIOUS
<1>2. m \in Amounts BY <1>1 DEF Sale, Amounts
<1>3. PICK x : x = JournalEntry("DOCUMENT", 0, m) OBVIOUS
<1>4. x \in Entry /\ x.of = 0 /\ x.origin = "DOCUMENT" /\ x.amount = m
  BY <1>2, <1>3 DEF JournalEntry, Entry, Origins
<1>5. s \in Seq(Entry) BY DEF SoundLedger
<1>6. Append(s, x) = s \o <<x>> /\ x.of <= Len(s) BY <1>4, <1>5
<1>7. Class(s, x) = "DOCUMENT" BY <1>4 DEF Class
<1>8. Added(s, s \o <<x>>, Class(s, x), x.amount) BY <1>4, <1>6, EntryAdds
<1> QED BY <1>1, <1>3, <1>4, <1>6, <1>7, <1>8
-----------------------------------------------------------------------------
(* What an approval posts, account by account.                               *)

\* Accounts that a ledger moves are in the plan of its year.
OnlyPlanned(s, accounts) ==
    \A a \in Accounts : accounts[a] = "absent" => \A p \in DOMAIN s : s[p].amount[a] = 0

\* A year that was never opened has no plan, and one that was reversed only
\* accounts that it got from the year before.
PlansOK ==
    /\ plan \in [Years -> [Accounts -> {"absent", "own", "copied"}]]
    /\ \A y \in Years :
         /\ year[y] = "ABSENT" => \A a \in Accounts : plan[y][a] = "absent"
         /\ year[y] # "ABSENT" => plan[y]["result"] # "absent" /\ plan[y]["profit"] # "absent"
         /\ year[y] = "REVERSED" => \A a \in Accounts : plan[y][a] # "own"
LedgersPlanned == \A y \in Years : SoundLedger(ledger[y]) /\ OnlyPlanned(ledger[y], plan[y])

LEMMA TotalOfUnplanned ==
    ASSUME NEW s, SoundLedger(s), NEW accounts, OnlyPlanned(s, accounts),
           NEW a \in Accounts, accounts[a] = "absent"
    PROVE  TotalOf(s, a) = 0
<1>1. PICK f : f = [p \in DOMAIN s |-> s[p].amount[a]] OBVIOUS
<1>2. PICK P \in SUBSET DOMAIN s : P = DOMAIN s OBVIOUS
<1>3. BalanceAt(s, P)[a] = SumFunctionOnSet(f, P) /\ IsFiniteSet(P)
      /\ \A p \in P : f[p] = s[p].amount[a]
  BY <1>1, BalanceIs
<1>4. \A p \in P : f[p] = 0 BY <1>3 DEF OnlyPlanned
<1>5. SumFunctionOnSet(f, P) = 0 BY <1>3, <1>4, SumOfZeros
<1> QED BY <1>2, <1>3, <1>5 DEF TotalOf, Balance

LEMMA AddedPlanned ==
    ASSUME NEW s, NEW z, NEW o, NEW m, Added(s, z, o, m), NEW old, OnlyPlanned(s, old),
           NEW accounts,
           \A a \in Accounts : accounts[a] = "absent" => old[a] = "absent" /\ m[a] = 0
    PROVE  OnlyPlanned(z, accounts)
<1>1. ASSUME NEW a \in Accounts, accounts[a] = "absent", NEW p \in DOMAIN z
      PROVE  z[p].amount[a] = 0
  <2>1. CASE p \in DOMAIN s BY <1>1, <2>1 DEF Added, OnlyPlanned
  <2>2. CASE p \notin DOMAIN s
    <3>1. z[p].amount = m BY <1>1, <2>2 DEF Added
    <3> QED BY <1>1, <3>1
  <2> QED BY <2>1, <2>2
<1> QED BY <1>1 DEF OnlyPlanned

\* What the approval of close c of year y posts: nothing is left in the year,
\* and the opening of the next is the opposite of its closing.
ClosePosts(c, y) ==
    /\ SoundLedger(ledger'[y]) /\ SoundLedger(ledger'[y + 1])
    /\ OnlyPlanned(ledger'[y], plan[y]) /\ OnlyPlanned(ledger'[y + 1], plan'[y + 1])
    /\ IfAny(ledger'[y], closes'[c].closing, "CLOSING")
    /\ IfAny(ledger'[y], closes'[c].regularization, "REGULARIZATION")
    /\ \A a \in Accounts : TotalOf(ledger'[y], a) = 0
    /\ \A a \in Accounts : PartOf("OPENING", ledger'[y], a) = PartOf("OPENING", ledger[y], a)
    /\ \A a \in Accounts : PartOf("CLOSING", ledger'[y + 1], a) = PartOf("CLOSING", ledger[y + 1], a)
    /\ \A a \in Accounts :
         PartOf("CLOSING", ledger'[y], a) =
             PartOf("CLOSING", ledger[y], a) + AmountAt(ledger'[y], closes'[c].closing, a)
    /\ \A a \in Accounts :
         PartOf("OPENING", ledger'[y + 1], a) =
             PartOf("OPENING", ledger[y + 1], a) + AmountAt(ledger'[y + 1], closes'[c].opening, a)
    /\ \A a \in Accounts :
         /\ AmountAt(ledger'[y], closes'[c].closing, a) \in Int
         /\ AmountAt(ledger'[y + 1], closes'[c].opening, a) \in Int
         /\ AmountAt(ledger'[y], closes'[c].closing, a)
              + AmountAt(ledger'[y + 1], closes'[c].opening, a) = 0
    /\ \A z \in Years \ {y, y + 1} : ledger'[z] = ledger[z]
    /\ plan' = [plan EXCEPT ![y + 1] = WithMissingAccounts(plan[y + 1], plan[y])]

LEMMA Regularizes ==
    ASSUME NEW b \in Amounts
    PROVE  \E r \in Amounts :
             /\ Regularization(b) = EntryUnlessEmpty("REGULARIZATION", r)
             /\ Regularized(b) \in Amounts
             /\ \A a \in Accounts : Regularized(b)[a] = b[a] + r[a]
             /\ r["client"] = 0 /\ r["client2"] = 0
<1>1. PICK r : r = [a \in Accounts |-> CASE a = "result" -> - b["result"]
                                         [] a = "profit" -> b["result"]
                                         [] OTHER -> 0]
  OBVIOUS
<1>2. {"result", "profit", "client", "client2"} = Accounts BY DEF Accounts
<1>3. b["result"] \in Int /\ - b["result"] \in Int /\ b["profit"] \in Int /\ b["client"] \in Int
      /\ b["client2"] \in Int
  BY <1>2 DEF Amounts
<1>4. /\ r["result"] = - b["result"] /\ r["profit"] = b["result"]
      /\ r["client"] = 0 /\ r["client2"] = 0
  BY <1>1, <1>2
<1>5. r \in Amounts
  <2>1. \A a \in Accounts : r[a] \in Int BY <1>2, <1>3, <1>4
  <2> QED BY <1>1, <2>1 DEF Amounts
<1>6. PICK n : n = Regularized(b) OBVIOUS
<1>7. /\ n["result"] = 0 /\ n["profit"] = b["profit"] + b["result"]
      /\ n["client"] = b["client"] /\ n["client2"] = b["client2"]
      /\ n \in Amounts
  BY <1>2, <1>3, <1>6 DEF Regularized, Amounts
<1>8. \A a \in Accounts : n[a] = b[a] + r[a] BY <1>2, <1>3, <1>4, <1>7
<1>9. Regularization(b) = EntryUnlessEmpty("REGULARIZATION", r) BY <1>1 DEF Regularization
<1> QED BY <1>4, <1>5, <1>6, <1>7, <1>8, <1>9

\* The balances that a close carries over are those of accounts that the next
\* year has a copy of.
LEMMA OpensAll ==
    ASSUME PlansOK, NEW y \in Years, y + 1 \in Years, year[y] = "OPEN",
           year[y + 1] \in {"ABSENT", "REVERSED"}, NEW n \in Amounts,
           \A a \in Accounts : plan[y][a] = "absent" => n[a] = 0
    PROVE  Opening(n, WithMissingAccounts(plan[y + 1], plan[y])) = EntryUnlessEmpty("OPENING", n)
<1>1. PICK w : w = WithMissingAccounts(plan[y + 1], plan[y]) OBVIOUS
<1>2. ASSUME NEW a \in Accounts PROVE (IF w[a] = "copied" THEN n[a] ELSE 0) = n[a]
  <2>1. plan[y + 1][a] \in {"absent", "copied"} BY <1>2 DEF PlansOK
  <2>2. w[a] = IF plan[y + 1][a] = "absent" /\ plan[y][a] # "absent" THEN "copied" ELSE plan[y + 1][a]
    BY <1>1, <1>2 DEF WithMissingAccounts
  <2>3. CASE w[a] = "copied" BY <2>3
  <2>4. CASE w[a] # "copied"
    <3>1. plan[y][a] = "absent" BY <2>1, <2>2, <2>4
    <3> QED BY <1>2, <2>4, <3>1
  <2> QED BY <2>3, <2>4
<1>3. [a \in Accounts |-> IF w[a] = "copied" THEN n[a] ELSE 0] = [a \in Accounts |-> n[a]]
  BY <1>2
<1>4. n = [a \in Accounts |-> n[a]] BY DEF Amounts
<1> QED BY <1>1, <1>3, <1>4 DEF Opening

LEMMA CloseWrites ==
    ASSUME CycleInv, PlansOK, LedgersPlanned, NEW t \in Transactions, CommitApproveClose(t),
           NEW c, c = tx[t].close, NEW y, y = closes[c].year
    PROVE  ClosePosts(c, y)
<1>1. /\ CycleTypeOK /\ closes \in Seq(CloseRequests) /\ DOMAIN ledger = Years
      /\ DOMAIN plan = Years /\ c \in 1..Len(closes)
  BY Approvals DEF CycleInv, CycleTypeOK, LedgersOK, PlansOK
<1>2. y \in Years /\ y + 1 \in Years /\ year[y] = "OPEN" /\ year[y + 1] \in {"ABSENT", "REVERSED"}
  BY Committed
<1>3. y # y + 1 BY <1>2 DEF Years
<1>4. PICK s, z : s = ledger[y] /\ z = ledger[y + 1] OBVIOUS
<1>5. SoundLedger(s) /\ SoundLedger(z) /\ OnlyPlanned(s, plan[y]) /\ OnlyPlanned(z, plan[y + 1])
  BY <1>2, <1>4 DEF LedgersPlanned
\* The entries that are posted.
<1>6. PICK b : b = Balance(s) OBVIOUS
<1>7. b \in Amounts /\ \A a \in Accounts : b[a] = TotalOf(s, a)
  <2>1. \A a \in Accounts : b[a] = TotalOf(s, a) BY <1>6 DEF TotalOf
  <2>2. \A a \in Accounts : b[a] \in Int BY <1>5, <2>1, TotalType
  <2>3. b = [a \in Accounts |-> b[a]] BY <1>6 DEF Balance, BalanceAt
  <2> QED BY <2>1, <2>2, <2>3 DEF Amounts
<1>8. PICK r \in Amounts :
        /\ Regularization(b) = EntryUnlessEmpty("REGULARIZATION", r)
        /\ Regularized(b) \in Amounts
        /\ \A a \in Accounts : Regularized(b)[a] = b[a] + r[a]
        /\ r["client"] = 0 /\ r["client2"] = 0
  BY <1>7, Regularizes
<1>9. PICK n \in Amounts : n = Regularized(b) BY <1>8
<1>10. \A a \in Accounts : n[a] = b[a] + r[a] BY <1>8, <1>9
<1>11. ASSUME NEW a \in Accounts, plan[y][a] = "absent" PROVE r[a] = 0 /\ n[a] = 0
  <2>1. a \in Clients BY <1>2, <1>11 DEF PlansOK, Accounts, Clients
  <2>2. r[a] = 0 BY <1>8, <2>1 DEF Clients
  <2>3. b[a] = 0 BY <1>5, <1>7, <1>11, TotalOfUnplanned
  <2> QED BY <1>10, <1>11, <2>2, <2>3
<1>12. PICK d : d = [a \in Accounts |-> - n[a]] OBVIOUS
<1>13. d \in Amounts /\ \A a \in Accounts : d[a] + n[a] = 0
  <2>1. \A a \in Accounts : n[a] \in Int BY DEF Amounts
  <2> QED BY <1>12, <2>1 DEF Amounts
<1>14. PICK e : e = EntryUnlessEmpty("REGULARIZATION", r) OBVIOUS
<1>15. PICK f : f = EntryUnlessEmpty("CLOSING", d) OBVIOUS
<1>16. PICK g : g = EntryUnlessEmpty("OPENING", n) OBVIOUS
<1>17. /\ Regularization(b) = e /\ Closing(Regularized(b)) = f
       /\ Opening(Regularized(b), WithMissingAccounts(plan[y + 1], plan[y])) = g
  <2>1. Closing(n) = f BY <1>12, <1>15 DEF Closing
  <2>2. Opening(n, WithMissingAccounts(plan[y + 1], plan[y])) = g
    BY <1>2, <1>11, <1>16, OpensAll
  <2> QED BY <1>8, <1>9, <1>14, <2>1, <2>2
\* Where they are posted.
<1>18. PICK i, j, k : i = Position(s, e) /\ j = Position(s \o e, f) /\ k = Position(z, g) OBVIOUS
<1>19. PICK s1 : s1 = s \o e OBVIOUS
<1>20. PICK s2, z2 : s2 = s1 \o f /\ z2 = z \o g OBVIOUS
<1>21. ledger' = [ledger EXCEPT ![y] = s2, ![y + 1] = z2]
  <2>1. ledger' = [ledger EXCEPT ![y] = (s \o e) \o f, ![y + 1] = z \o g]
    BY <1>4, <1>6, <1>17, Zenon DEF CommitApproveClose
  <2> QED BY <1>19, <1>20, <2>1
<1>22. ledger'[y] = s2 /\ ledger'[y + 1] = z2 /\ \A w \in Years \ {y, y + 1} : ledger'[w] = ledger[w]
  BY <1>1, <1>2, <1>3, <1>21
<1>23. closes'[c].regularization = i /\ closes'[c].closing = j /\ closes'[c].opening = k
  <2>1. PICK x : x = [closes[c] EXCEPT !.status = "COMPLETED", !.regularization = i,
                                       !.closing = j, !.opening = k]
    OBVIOUS
  <2>2. closes' = [closes EXCEPT ![c] = x]
    BY <1>4, <1>6, <1>17, <1>18, <2>1, Zenon DEF CommitApproveClose
  <2>3. closes'[c] = x BY <1>1, <2>2
  <2>4. closes[c] \in CloseRequests BY <1>1
  <2>5. x.regularization = i /\ x.closing = j /\ x.opening = k BY <2>1, <2>4 DEF CloseRequests
  <2> QED BY <2>3, <2>5
<1>24. plan' = [plan EXCEPT ![y + 1] = WithMissingAccounts(plan[y + 1], plan[y])]
  BY Zenon DEF CommitApproveClose
\* What they add to the ledgers.
<1>25. "REGULARIZATION" \in Origins /\ "CLOSING" \in Origins /\ "OPENING" \in Origins BY DEF Origins
<1>26. PostedAt(s, s1, "REGULARIZATION", r, i)
  BY <1>5, <1>14, <1>18, <1>19, <1>25, UnlessEmptyAdds
<1>27. PostedAt(s1, s2, "CLOSING", d, j)
  <2>1. SoundLedger(s1) BY <1>26 DEF PostedAt, Added
  <2>2. j = Position(s1, f) BY <1>18, <1>19
  <2> QED BY <1>13, <1>15, <1>20, <1>25, <2>1, <2>2, UnlessEmptyAdds
<1>28. PostedAt(z, z2, "OPENING", n, k)
  BY <1>5, <1>16, <1>18, <1>20, <1>25, UnlessEmptyAdds
<1>a. Added(s, s1, "REGULARIZATION", r) /\ Added(s1, s2, "CLOSING", d) /\ Added(z, z2, "OPENING", n)
  BY <1>26, <1>27, <1>28 DEF PostedAt
<1>b. \A a \in Accounts : AmountAt(s2, j, a) = d[a] /\ AmountAt(z2, k, a) = n[a]
  BY <1>27, <1>28 DEF PostedAt
<1>29. SoundLedger(s2) /\ SoundLedger(z2) /\ SoundLedger(s1) BY <1>a DEF Added
<1>30. OnlyPlanned(s2, plan[y])
  <2>1. \A a \in Accounts : plan[y][a] = "absent" => r[a] = 0 /\ d[a] = 0
    <3>1. ASSUME NEW a \in Accounts, plan[y][a] = "absent" PROVE r[a] = 0 /\ d[a] = 0
      <4>1. r[a] = 0 /\ n[a] = 0 BY <1>11, <3>1
      <4>2. d[a] \in Int /\ d[a] + n[a] = 0 BY <1>13, <3>1 DEF Amounts
      <4> QED BY <4>1, <4>2
    <3> QED BY <3>1
  <2>2. OnlyPlanned(s1, plan[y]) BY <1>5, <1>a, <2>1, AddedPlanned
  <2> QED BY <1>a, <2>1, <2>2, AddedPlanned
<1>31. OnlyPlanned(z2, plan'[y + 1])
  <2>1. PICK w : w = WithMissingAccounts(plan[y + 1], plan[y]) OBVIOUS
  <2>2. plan'[y + 1] = w BY <1>1, <1>2, <1>24, <2>1
  <2>3. ASSUME NEW a \in Accounts, w[a] = "absent" PROVE plan[y + 1][a] = "absent" /\ n[a] = 0
    <3>1. w[a] = IF plan[y + 1][a] = "absent" /\ plan[y][a] # "absent" THEN "copied" ELSE plan[y + 1][a]
      BY <2>1, <2>3 DEF WithMissingAccounts
    <3>2. plan[y + 1][a] = "absent" /\ plan[y][a] = "absent" BY <2>3, <3>1
    <3> QED BY <1>11, <2>3, <3>2
  <2>4. OnlyPlanned(z2, w) BY <1>5, <1>a, <2>3, AddedPlanned
  <2> QED BY <2>2, <2>4
<1>32. ASSUME NEW a \in Accounts
       PROVE  /\ TotalOf(s2, a) = 0
              /\ PartOf("OPENING", s2, a) = PartOf("OPENING", s, a)
              /\ PartOf("CLOSING", z2, a) = PartOf("CLOSING", z, a)
              /\ PartOf("CLOSING", s2, a) = PartOf("CLOSING", s, a) + d[a]
              /\ PartOf("OPENING", z2, a) = PartOf("OPENING", z, a) + n[a]
              /\ d[a] \in Int /\ n[a] \in Int /\ d[a] + n[a] = 0
  <2>1. d[a] \in Int /\ n[a] \in Int /\ r[a] \in Int /\ d[a] + n[a] = 0 /\ n[a] = b[a] + r[a]
    BY <1>10, <1>13, <1>32 DEF Amounts
  <2>2. \A o : PartOf(o, s, a) \in Int /\ PartOf(o, z, a) \in Int BY <1>5, <1>32, TotalType
  <2>3. /\ TotalOf(s1, a) = TotalOf(s, a) + r[a]
        /\ PartOf("OPENING", s1, a) = PartOf("OPENING", s, a) + 0
        /\ PartOf("CLOSING", s1, a) = PartOf("CLOSING", s, a) + 0
    BY <1>a, <1>32 DEF Added
  <2>4. /\ TotalOf(s2, a) = TotalOf(s1, a) + d[a]
        /\ PartOf("OPENING", s2, a) = PartOf("OPENING", s1, a) + 0
        /\ PartOf("CLOSING", s2, a) = PartOf("CLOSING", s1, a) + d[a]
    BY <1>a, <1>32 DEF Added
  <2>5. /\ PartOf("CLOSING", z2, a) = PartOf("CLOSING", z, a) + 0
        /\ PartOf("OPENING", z2, a) = PartOf("OPENING", z, a) + n[a]
    BY <1>a, <1>32 DEF Added
  <2>6. TotalOf(s, a) = b[a] /\ b[a] \in Int BY <1>7, <1>32 DEF Amounts
  <2> QED BY <2>1, <2>2, <2>3, <2>4, <2>5, <2>6
<1>33. IfAny(s2, j, "CLOSING") /\ IfAny(s2, i, "REGULARIZATION")
  <2>1. IfAny(s2, j, "CLOSING") /\ IfAny(s1, i, "REGULARIZATION") BY <1>26, <1>27 DEF PostedAt
  <2>2. \A p \in DOMAIN s1 : p \in DOMAIN s2 /\ s2[p] = s1[p] BY <1>a DEF Added
  <2> QED BY <2>1, <2>2 DEF IfAny
<1> QED BY <1>4, <1>22, <1>23, <1>24, <1>b, <1>29, <1>30, <1>31, <1>32, <1>33 DEF ClosePosts

\* A completed close points to the entries that it posted in its own year.
ClosingsReferred ==
    \A c \in 1..Len(closes) : closes[c].status = "COMPLETED" =>
        /\ IfAny(ledger[closes[c].year], closes[c].closing, "CLOSING")
        /\ IfAny(ledger[closes[c].year], closes[c].regularization, "REGULARIZATION")

\* What the reopening of year y posts: the reversals of what close c posted.
ReopenPosts(c, y) ==
    /\ SoundLedger(ledger'[y]) /\ SoundLedger(ledger'[y + 1])
    /\ OnlyPlanned(ledger'[y], plan[y]) /\ OnlyPlanned(ledger'[y + 1], plan[y + 1])
    /\ \A a \in Accounts : PartOf("OPENING", ledger'[y], a) = PartOf("OPENING", ledger[y], a)
    /\ \A a \in Accounts : PartOf("CLOSING", ledger'[y + 1], a) = PartOf("CLOSING", ledger[y + 1], a)
    /\ \A a \in Accounts :
         PartOf("CLOSING", ledger'[y], a) =
             PartOf("CLOSING", ledger[y], a) - AmountAt(ledger[y], closes[c].closing, a)
    /\ \A a \in Accounts :
         PartOf("OPENING", ledger'[y + 1], a) =
             PartOf("OPENING", ledger[y + 1], a) - AmountAt(ledger[y + 1], closes[c].opening, a)
    /\ \A a \in Accounts :
         TotalOf(ledger'[y + 1], a) =
             TotalOf(ledger[y + 1], a) - AmountAt(ledger[y + 1], closes[c].opening, a)
    /\ \A z \in Years \ {y, y + 1} : ledger'[z] = ledger[z]
    /\ plan' = plan

\* An entry of a year, or none, moves only accounts of its plan.
LEMMA AmountType ==
    ASSUME NEW s, SoundLedger(s), NEW p, NEW o, IfAny(s, p, o), NEW accounts,
           OnlyPlanned(s, accounts)
    PROVE  /\ \A a \in Accounts : AmountAt(s, p, a) \in Int
           /\ \A a \in Accounts : accounts[a] = "absent" => AmountAt(s, p, a) = 0
<1>1. CASE p = 0 BY <1>1 DEF AmountAt
<1>2. CASE p # 0
  <2>1. p \in DOMAIN s BY <1>2 DEF IfAny
  <2>2. s[p] \in Entry BY <2>1 DEF SoundLedger
  <2>3. \A a \in Accounts : s[p].amount[a] \in Int BY <2>2 DEF Entry, Amounts
  <2> QED BY <1>2, <2>1, <2>3 DEF AmountAt, OnlyPlanned
<1> QED BY <1>1, <1>2

LEMMA ReopenWrites ==
    ASSUME CycleInv, LedgersPlanned, PlansOK, ClosingsReferred, OpeningsReferred,
           NEW t \in Transactions, CommitApproveReopen(t),
           NEW c, c = reopens[tx[t].reopen].close, closes[c].status = "COMPLETED",
           NEW y, y = closes[c].year
    PROVE  ReopenPosts(c, y)
<1>1. /\ CycleTypeOK /\ closes \in Seq(CloseRequests) /\ DOMAIN ledger = Years
      /\ c \in 1..Len(closes)
  BY Approvals DEF CycleInv, CycleTypeOK, LedgersOK
<1>2. y \in Years /\ y + 1 \in Years /\ y # y + 1 BY <1>1, RequestYear DEF Years
<1>3. PICK s, z : s = ledger[y] /\ z = ledger[y + 1] OBVIOUS
<1>4. SoundLedger(s) /\ SoundLedger(z) /\ OnlyPlanned(s, plan[y]) /\ OnlyPlanned(z, plan[y + 1])
  BY <1>2, <1>3 DEF LedgersPlanned
<1>5. PICK i, j, k :
        i = closes[c].regularization /\ j = closes[c].closing /\ k = closes[c].opening
  OBVIOUS
<1>6. i \in Nat /\ j \in Nat /\ k \in Nat
  <2>1. closes[c] \in CloseRequests BY <1>1
  <2> QED BY <1>5, <2>1 DEF CloseRequests
<1>7. IfAny(s, i, "REGULARIZATION") /\ IfAny(s, j, "CLOSING") /\ IfAny(z, k, "OPENING")
  <2>1. DOMAIN z = 1..Len(z)
    <3>1. z \in Seq(Entry) BY <1>4 DEF SoundLedger
    <3> QED BY <3>1
  <2>2. IfAny(z, k, "OPENING")
    BY <1>1, <1>3, <1>5, <2>1 DEF OpeningsReferred, EntryFrom, IfAny
  <2> QED BY <1>1, <1>3, <1>5, <2>2 DEF ClosingsReferred
<1>8. PICK u, v, w : /\ u = [a \in Accounts |-> - AmountAt(s, j, a)]
                     /\ v = [a \in Accounts |-> - AmountAt(s, i, a)]
                     /\ w = [a \in Accounts |-> - AmountAt(z, k, a)]
  OBVIOUS
<1>9. ASSUME NEW a \in Accounts
      PROVE  /\ AmountAt(s, j, a) \in Int /\ AmountAt(s, i, a) \in Int /\ AmountAt(z, k, a) \in Int
             /\ plan[y][a] = "absent" => AmountAt(s, j, a) = 0 /\ AmountAt(s, i, a) = 0
             /\ plan[y + 1][a] = "absent" => AmountAt(z, k, a) = 0
  BY <1>4, <1>7, <1>9, AmountType
<1>10. ASSUME NEW a \in Accounts
       PROVE  /\ u[a] = 0 - AmountAt(s, j, a) /\ v[a] = 0 - AmountAt(s, i, a)
              /\ w[a] = 0 - AmountAt(z, k, a)
  <2>1. \A n \in Int : - n = 0 - n OBVIOUS
  <2>2. u[a] = - AmountAt(s, j, a) /\ v[a] = - AmountAt(s, i, a) /\ w[a] = - AmountAt(z, k, a)
    BY <1>8, <1>10
  <2> QED BY <1>9, <1>10, <2>1, <2>2
\* What is posted, and what it adds to the ledgers.
<1>11. PICK s1 : s1 = s \o Reversal(s, j) OBVIOUS
<1>12. PICK s2, z2 : s2 = s1 \o Reversal(s, i) /\ z2 = z \o Reversal(z, k) OBVIOUS
<1>13. ledger' = [ledger EXCEPT ![y] = s2, ![y + 1] = z2]
  BY <1>3, <1>5, <1>11, <1>12, Zenon DEF CommitApproveReopen
<1>14. ledger'[y] = s2 /\ ledger'[y + 1] = z2 /\ \A x \in Years \ {y, y + 1} : ledger'[x] = ledger[x]
  BY <1>1, <1>2, <1>13
<1>15. plan' = plan BY DEF CommitApproveReopen
<1>16. Added(s, s1, "CLOSING", u)
  <2>1. \A q \in DOMAIN s : q \in DOMAIN s /\ s[q] = s[q] OBVIOUS
  <2>2. j # 0 => j \in DOMAIN s /\ s[j].origin = "CLOSING" BY <1>7 DEF IfAny
  <2>3. Added(s, s \o Reversal(s, j), "CLOSING", u) BY <1>4, <1>6, <1>8, <2>1, <2>2, ReversalAdds
  <2> QED BY <1>11, <2>3
<1>17. Added(s1, s2, "REGULARIZATION", v)
  <2>1. SoundLedger(s1) /\ \A q \in DOMAIN s : q \in DOMAIN s1 /\ s1[q] = s[q] BY <1>16 DEF Added
  <2>2. i # 0 => i \in DOMAIN s /\ s[i].origin = "REGULARIZATION" BY <1>7 DEF IfAny
  <2>3. Added(s1, s1 \o Reversal(s, i), "REGULARIZATION", v)
    BY <1>4, <1>6, <1>8, <2>1, <2>2, ReversalAdds
  <2> QED BY <1>12, <2>3
<1>18. Added(z, z2, "OPENING", w)
  <2>1. \A q \in DOMAIN z : q \in DOMAIN z /\ z[q] = z[q] OBVIOUS
  <2>2. k # 0 => k \in DOMAIN z /\ z[k].origin = "OPENING" BY <1>7 DEF IfAny
  <2>3. Added(z, z \o Reversal(z, k), "OPENING", w) BY <1>4, <1>6, <1>8, <2>1, <2>2, ReversalAdds
  <2> QED BY <1>12, <2>3
<1>19. SoundLedger(s2) /\ SoundLedger(z2) BY <1>17, <1>18 DEF Added
<1>20. OnlyPlanned(s2, plan[y]) /\ OnlyPlanned(z2, plan[y + 1])
  <2>1. PICK P, Q : P = plan[y] /\ Q = plan[y + 1] OBVIOUS
  <2>2. ASSUME NEW a \in Accounts
        PROVE  /\ P[a] = "absent" => u[a] = 0 /\ v[a] = 0
               /\ Q[a] = "absent" => w[a] = 0
    <3>1. /\ P[a] = "absent" => AmountAt(s, j, a) = 0 /\ AmountAt(s, i, a) = 0
          /\ Q[a] = "absent" => AmountAt(z, k, a) = 0
      BY <1>9, <2>1, <2>2
    <3>2. /\ u[a] = 0 - AmountAt(s, j, a) /\ v[a] = 0 - AmountAt(s, i, a)
          /\ w[a] = 0 - AmountAt(z, k, a)
      BY <1>10, <2>2
    <3> QED BY <3>1, <3>2
  <2>3. \A a \in Accounts : P[a] = "absent" => P[a] = "absent" /\ u[a] = 0 BY <2>2
  <2>4. \A a \in Accounts : P[a] = "absent" => P[a] = "absent" /\ v[a] = 0 BY <2>2
  <2>5. \A a \in Accounts : Q[a] = "absent" => Q[a] = "absent" /\ w[a] = 0 BY <2>2
  <2>6. OnlyPlanned(s, P) /\ OnlyPlanned(z, Q) BY <1>4, <2>1
  <2>7. OnlyPlanned(s1, P) BY <1>16, <2>3, <2>6, AddedPlanned
  <2>8. OnlyPlanned(s2, P) BY <1>17, <2>4, <2>7, AddedPlanned
  <2>9. OnlyPlanned(z2, Q) BY <1>18, <2>5, <2>6, AddedPlanned
  <2> QED BY <2>1, <2>8, <2>9
<1>21. ASSUME NEW a \in Accounts
       PROVE  /\ PartOf("OPENING", s2, a) = PartOf("OPENING", s, a)
              /\ PartOf("CLOSING", z2, a) = PartOf("CLOSING", z, a)
              /\ PartOf("CLOSING", s2, a) = PartOf("CLOSING", s, a) - AmountAt(s, j, a)
              /\ PartOf("OPENING", z2, a) = PartOf("OPENING", z, a) - AmountAt(z, k, a)
              /\ TotalOf(z2, a) = TotalOf(z, a) - AmountAt(z, k, a)
  <2>1. /\ AmountAt(s, j, a) \in Int /\ AmountAt(z, k, a) \in Int
        /\ u[a] = 0 - AmountAt(s, j, a) /\ w[a] = 0 - AmountAt(z, k, a)
    BY <1>9, <1>10, <1>21
  <2>2. /\ TotalOf(z, a) \in Int
        /\ \A o : PartOf(o, s, a) \in Int /\ PartOf(o, z, a) \in Int
    BY <1>4, <1>21, TotalType
  <2>3. /\ PartOf("OPENING", s1, a) = PartOf("OPENING", s, a) + 0
        /\ PartOf("CLOSING", s1, a) = PartOf("CLOSING", s, a) + u[a]
    BY <1>16, <1>21 DEF Added
  <2>4. /\ PartOf("OPENING", s2, a) = PartOf("OPENING", s1, a) + 0
        /\ PartOf("CLOSING", s2, a) = PartOf("CLOSING", s1, a) + 0
    BY <1>17, <1>21 DEF Added
  <2>5. /\ PartOf("CLOSING", z2, a) = PartOf("CLOSING", z, a) + 0
        /\ PartOf("OPENING", z2, a) = PartOf("OPENING", z, a) + w[a]
        /\ TotalOf(z2, a) = TotalOf(z, a) + w[a]
    BY <1>18, <1>21 DEF Added
  <2> QED BY <2>1, <2>2, <2>3, <2>4, <2>5
<1> QED BY <1>3, <1>5, <1>14, <1>15, <1>19, <1>20, <1>21 DEF ReopenPosts
-----------------------------------------------------------------------------
(* Plans of accounts.                                                        *)

\* Of a transaction that has checked, what it found of the plan it writes, or
\* whose year it takes back.
StillPlanned(t) ==
    tx[t].checked =>
        /\ tx[t].kind = "account" => year[tx[t].year] = "OPEN"
        /\ tx[t].kind = "approveReopen" =>
             LET y == closes[reopens[tx[t].reopen].close].year IN
             \A a \in Accounts : plan[y + 1][a] # "own"

\* Only the first year, a close and an account that is opened write a plan.
LEMMA PlanWriters ==
    ASSUME CycleTypeOK, [Next]_vars
    PROVE  \/ UNCHANGED plan
           \/ CreateInitialYear
           \/ \E t \in Transactions : CommitApproveClose(t) \/ CommitOpenAccount(t)
<1>1. ASSUME NEW t \in Transactions, CanBegin(t) PROVE UNCHANGED plan
  BY <1>1, BeginTyped DEF Begin, records
<1>2. ASSUME NEW t \in Transactions, Lock(t) \/ CheckOrRefuse(t) \/ Fail(t)
      PROVE  UNCHANGED plan
  BY <1>2 DEF Lock, CheckOrRefuse, Fail, records
<1>3. ASSUME NEW t \in Transactions, Commit(t), ~ CommitApproveClose(t), ~ CommitOpenAccount(t)
      PROVE  UNCHANGED plan
  BY <1>3 DEF Commit, CommitRequestClose, CommitCancelClose, CommitRequestReopen,
       CommitSettleReopen, CommitApproveReopen, CommitCreate, CommitIssue
<1> QED BY <1>1, <1>2, <1>3 DEF Next, vars, ListReopens, FiscalStatusChanges

LEMMA CheckFindsPlan ==
    ASSUME CycleInv, NEW u \in Transactions, CheckOrRefuse(u), Admissible(u, reopens')
    PROVE  StillPlanned(u)'
<1>1. /\ closes' = closes /\ year' = year /\ plan' = plan /\ Same(tx'[u], tx[u])
  BY Passes DEF CheckOrRefuse, CycleInv
<1>2. CASE tx[u].kind = "approveReopen"
  <2>1. PICK c : c = reopens'[tx[u].reopen].close OBVIOUS
  <2>2. ReopenPreflightReady(c, reopens') BY <1>2, <2>1 DEF Admissible, CanApproveReopen
  <2>3. PICK y : y = closes[c].year OBVIOUS
  <2>4. PlanCopied(y) BY <2>2, <2>3 DEF ReopenPreflightReady
  <2>5. \A a \in Accounts : plan[y + 1][a] # "own" BY <2>4 DEF PlanCopied
  <2>6. tx'[u].kind = "approveReopen" /\ closes'[reopens'[tx'[u].reopen].close].year = y
    BY <1>1, <1>2, <2>1, <2>3 DEF Same
  <2> QED BY <1>1, <2>5, <2>6 DEF StillPlanned
<1>3. CASE tx[u].kind = "account"
  <2>1. year[tx[u].year] = "OPEN" BY <1>3 DEF Admissible
  <2> QED BY <1>1, <1>3, <2>1 DEF StillPlanned, Same
<1>4. CASE tx[u].kind \notin {"approveReopen", "account"} BY <1>1, <1>4 DEF StillPlanned, Same
<1> QED BY <1>2, <1>3, <1>4

\* No other transaction changes the plan, nor the year, between check and commit.
LEMMA StaysPlanned ==
    ASSUME CycleInv, [Next]_vars, NEW u \in Transactions, StillPlanned(u),
           tx[u].checked, Same(tx'[u], tx[u]), tx'[u] # Idle
    PROVE  StillPlanned(u)'
<1>1. /\ Kept /\ CycleTypeOK /\ Refers(tx[u]) /\ Needs(tx[u]) \subseteq held[u]
      /\ StillAdmissible(u)
      /\ \A r \in 1..Len(reopens) : reopens[r].close \in 1..Len(closes)
  BY RequestsKept DEF CycleInv, CycleTypeOK, LockInv, Guarded
<1>2. ASSUME NEW t \in Transactions, End(t), NEW y, Exclusive("year", y) \in held[u]
      PROVE  Exclusive("year", y) \notin held[t]
  <2>1. t # u BY <1>1, <1>2, Ends
  <2> QED BY <1>2, <2>1, Conflicts DEF CycleInv, LockInv, LocksExclude
<1>3. CASE tx[u].kind = "account"
  <2>1. PICK y \in Years : y = tx[u].year BY <1>1, <1>3 DEF Refers
  <2>2. year[y] = "OPEN" BY <1>3, <2>1 DEF StillPlanned
  <2>3. Exclusive("year", y) \in held[u] BY <1>1, <1>3, <2>1 DEF Needs
  <2>4. year'[y] = year[y]
    <3>1. ASSUME NEW t \in Transactions, CommitApproveClose(t) \/ CommitApproveReopen(t)
          PROVE  year'[y] = year[y]
      <4>1. /\ End(t)
            /\ \A z \in {ApprovedYear(t), ApprovedYear(t) + 1} : Exclusive("year", z) \in held[t]
            /\ year'[y] # year[y] => y \in {ApprovedYear(t), ApprovedYear(t) + 1}
        BY <3>1, ApproverHolds DEF CycleInv
      <4> QED BY <1>2, <2>3, <4>1
    <3>2. ~ CreateInitialYear BY <2>2 DEF CreateInitialYear
    <3> QED BY <1>1, <3>1, <3>2, YearWriters
  <2> QED BY <1>3, <2>1, <2>2, <2>4 DEF StillPlanned, Same
<1>4. CASE tx[u].kind = "approveReopen"
  <2>1. PICK r \in 1..Len(reopens) : r = tx[u].reopen BY <1>1, <1>4 DEF Refers
  <2>2. PICK y \in Years : y = closes[reopens[r].close].year /\ y + 1 \in Years
    BY <1>1, RequestYear
  <2>3. {Cycle, Exclusive("year", y), Exclusive("year", y + 1)} \subseteq held[u]
    BY <1>1, <1>4, <2>1, <2>2 DEF Needs
  <2>4. year[y] = "CLOSED" /\ \A a \in Accounts : plan[y + 1][a] # "own"
    BY <1>1, <1>4, <2>1, <2>2 DEF StillPlanned, StillAdmissible
  <2>5. plan'[y + 1] = plan[y + 1]
    <3>1. ~ CreateInitialYear BY <2>2, <2>4 DEF CreateInitialYear
    <3>2. ASSUME NEW t \in Transactions, CommitApproveClose(t) PROVE FALSE
      <4>1. Cycle \in held[t] /\ End(t) BY <3>2, ApproverHolds DEF CycleInv
      <4>2. t # u BY <1>1, <4>1, Ends
      <4> QED BY <2>3, <4>1, <4>2, Conflicts DEF CycleInv, LockInv, LocksExclude
    <3>3. ASSUME NEW t \in Transactions, CommitOpenAccount(t) PROVE plan'[y + 1] = plan[y + 1]
      <4>1. tx[t].kind = "account" /\ Needs(tx[t]) \subseteq held[t] /\ End(t)
        BY <3>3, Checked DEF CommitOpenAccount, Committing, CycleInv
      <4>2. Exclusive("year", tx[t].year) \in held[t] BY <4>1 DEF Needs
      <4>3. tx[t].year # y + 1 BY <1>2, <2>3, <4>1, <4>2
      <4> QED BY <3>3, <4>3 DEF CommitOpenAccount
    <3> QED BY <1>1, <3>1, <3>2, <3>3, PlanWriters
  <2>6. closes'[reopens'[tx'[u].reopen].close].year = y
    BY <1>1, <2>1, <2>2 DEF Kept, Same
  <2> QED BY <2>4, <2>5, <2>6, <1>4 DEF StillPlanned, Same
<1>5. CASE tx[u].kind \notin {"account", "approveReopen"} BY <1>5 DEF StillPlanned, Same
<1> QED BY <1>3, <1>4, <1>5

LEMMA StillPlannedStep ==
    ASSUME CycleInv, [Next]_vars, \A t \in Transactions : StillPlanned(t),
           NEW u \in Transactions
    PROVE  StillPlanned(u)'
<1>0. CycleTypeOK BY DEF CycleInv
<1>1. CASE ~ tx'[u].checked BY <1>1 DEF StillPlanned
<1>2. ASSUME tx[u].checked, tx'[u].checked, Same(tx'[u], tx[u]) PROVE StillPlanned(u)'
  <2>1. tx'[u] # Idle BY <1>2, IdleType
  <2> QED BY <1>2, <2>1, StaysPlanned
<1>3. Same(tx[u], tx[u]) BY DEF Same
<1>4. ASSUME tx'[u] = tx[u] PROVE StillPlanned(u)' BY <1>1, <1>2, <1>3, <1>4
<1>5. ASSUME Lock(u) PROVE StillPlanned(u)' BY <1>0, <1>1, <1>2, <1>5, Locks
<1>6. ASSUME CheckOrRefuse(u), Admissible(u, reopens') PROVE StillPlanned(u)'
  BY <1>6, CheckFindsPlan
<1>7. ASSUME End(u) PROVE StillPlanned(u)' BY <1>0, <1>1, <1>7, Ends, IdleType
<1>8. ASSUME NEW op, Begun(op), Begin(u, op) PROVE StillPlanned(u)' BY <1>0, <1>1, <1>8, Begins
<1>9. ASSUME NEW t \in Transactions,
             \/ \E op : Begun(op) /\ Begin(t, op)
             \/ Lock(t)
             \/ CheckOrRefuse(t) /\ Admissible(t, reopens')
             \/ End(t)
      PROVE  StillPlanned(u)'
  <2>1. CASE t = u BY <1>5, <1>6, <1>7, <1>8, <1>9, <2>1
  <2>2. CASE t # u
    <3>1. tx'[u] = tx[u] BY <1>0, <1>9, <2>2, OthersStay
    <3> QED BY <1>4, <3>1
  <2> QED BY <2>1, <2>2
<1>10. ASSUME UNCHANGED <<held, tx>> PROVE StillPlanned(u)' BY <1>4, <1>10
<1> QED BY <1>0, <1>9, <1>10, StepOfOne

\* An account is opened in a year that is open.
LEMMA OpensAccount ==
    ASSUME CycleInv, \A t \in Transactions : StillPlanned(t),
           NEW t \in Transactions, CommitOpenAccount(t)
    PROVE  /\ tx[t].year \in Years /\ year[tx[t].year] = "OPEN" /\ year' = year
           /\ plan' = [plan EXCEPT ![tx[t].year]["client2"] = "own"]
<1>1. tx[t].kind = "account" /\ tx[t].checked
  BY Checked DEF CommitOpenAccount, CycleInv
<1>2. Refers(tx[t]) /\ StillPlanned(t) BY DEF CycleInv, CycleTypeOK
<1>3. year' = year /\ plan' = [plan EXCEPT ![tx[t].year]["client2"] = "own"]
  BY DEF CommitOpenAccount
<1> QED BY <1>1, <1>2, <1>3 DEF StillPlanned, Refers

\* The plan of a year, of what it is worth when the year has a status.
PlanOK(accounts, status) ==
    /\ status = "ABSENT" => \A a \in Accounts : accounts[a] = "absent"
    /\ status # "ABSENT" => accounts["result"] # "absent" /\ accounts["profit"] # "absent"
    /\ status = "REVERSED" => \A a \in Accounts : accounts[a] # "own"

LEMMA PlansStep ==
    ASSUME CycleInv, PlansOK, \A t \in Transactions : StillPlanned(t), [Next]_vars
    PROVE  /\ PlansOK'
           /\ \A y \in Years, a \in Accounts : plan'[y][a] = "absent" => plan[y][a] = "absent"
<1> DEFINE Plans == [Accounts -> {"absent", "own", "copied"}]
<1>1. /\ CycleTypeOK /\ year \in [Years -> Statuses] /\ plan \in [Years -> Plans]
      /\ \A y \in Years : PlanOK(plan[y], year[y])
      /\ Years = 1..LastYear
  BY DEF CycleInv, CycleTypeOK, PlansOK, PlanOK, Years
<1> DEFINE Good(y) == /\ plan'[y] \in Plans /\ PlanOK(plan'[y], year'[y])
                      /\ \A a \in Accounts : plan'[y][a] = "absent" => plan[y][a] = "absent"
<1>2. ASSUME NEW y \in Years, plan'[y] = plan[y], year'[y] = year[y] PROVE Good(y)
  BY <1>1, <1>2
<1> SUFFICES plan' = [y \in Years |-> plan'[y]] /\ \A y \in Years : Good(y)
  BY DEF PlansOK, PlanOK
<1>3. {"result", "profit", "client", "client2"} = Accounts BY DEF Accounts
<1>4. CASE CreateInitialYear
  <2>1. /\ plan' = [plan EXCEPT ![1] = InitialAccounts] /\ year' = [year EXCEPT ![1] = "OPEN"]
        /\ \A y \in Years : year[y] = "ABSENT"
    BY <1>4 DEF CreateInitialYear
  <2>2. 1 \in Years BY <1>1
  <2>3. /\ InitialAccounts \in Plans /\ InitialAccounts["result"] = "own"
        /\ InitialAccounts["profit"] = "own"
    BY <1>3 DEF InitialAccounts
  <2>4. Good(1)
    <3>1. plan'[1] = InitialAccounts /\ year'[1] = "OPEN" BY <1>1, <2>1, <2>2
    <3>2. \A a \in Accounts : plan[1][a] = "absent" BY <1>1, <2>1, <2>2 DEF PlanOK
    <3> QED BY <2>3, <3>1, <3>2 DEF PlanOK
  <2>5. \A y \in Years \ {1} : plan'[y] = plan[y] /\ year'[y] = year[y] BY <1>1, <2>1
  <2>6. plan' = [y \in Years |-> plan'[y]] BY <1>1, <2>1
  <2> QED BY <1>2, <2>4, <2>5, <2>6
<1>5. ASSUME NEW t \in Transactions, CommitApproveClose(t)
      PROVE  plan' = [y \in Years |-> plan'[y]] /\ \A y \in Years : Good(y)
  <2>1. PICK y \in Years :
          /\ y = closes[tx[t].close].year /\ y + 1 \in Years
          /\ year[y] = "OPEN" /\ year[y + 1] \in {"ABSENT", "REVERSED"}
          /\ year' = [year EXCEPT ![y] = "CLOSED", ![y + 1] = "OPEN"]
    BY <1>5, Committed
  <2>2. y # y + 1 BY <1>1, <2>1
  <2>3. PICK w : w = WithMissingAccounts(plan[y + 1], plan[y]) OBVIOUS
  <2>4. plan' = [plan EXCEPT ![y + 1] = w]
    BY <1>5, <2>1, <2>3, Zenon DEF CommitApproveClose
  <2>5. /\ plan'[y + 1] = w /\ plan'[y] = plan[y] /\ year'[y] = "CLOSED" /\ year'[y + 1] = "OPEN"
        /\ \A z \in Years \ {y, y + 1} : plan'[z] = plan[z] /\ year'[z] = year[z]
    BY <1>1, <2>1, <2>2, <2>4
  <2>6. ASSUME NEW a \in Accounts
        PROVE  /\ w[a] = IF plan[y + 1][a] = "absent" /\ plan[y][a] # "absent" THEN "copied"
                         ELSE plan[y + 1][a]
               /\ w[a] \in {"absent", "own", "copied"}
    BY <1>1, <2>1, <2>3, <2>6 DEF WithMissingAccounts
  <2>7. w \in Plans
    <3>1. w = [a \in Accounts |-> w[a]] BY <2>3 DEF WithMissingAccounts
    <3> QED BY <2>6, <3>1
  <2>8. Good(y)
    <3>1. plan'[y] = plan[y] /\ year'[y] = "CLOSED" BY <2>5
    <3>2. plan[y] \in Plans /\ plan[y]["result"] # "absent" /\ plan[y]["profit"] # "absent"
      BY <1>1, <2>1 DEF PlanOK
    <3> QED BY <3>1, <3>2 DEF PlanOK
  <2>9. Good(y + 1)
    <3>1. plan[y]["result"] # "absent" /\ plan[y]["profit"] # "absent"
      BY <1>1, <2>1 DEF PlanOK
    <3>2. w["result"] # "absent" /\ w["profit"] # "absent" BY <1>3, <2>6, <3>1
    <3>3. \A a \in Accounts : w[a] = "absent" => plan[y + 1][a] = "absent" BY <2>6
    <3> QED BY <2>5, <2>7, <3>2, <3>3 DEF PlanOK
  <2>10. plan' = [z \in Years |-> plan'[z]] BY <1>1, <2>4
  <2> QED BY <1>2, <2>5, <2>8, <2>9, <2>10
<1>6. ASSUME NEW t \in Transactions, CommitApproveReopen(t)
      PROVE  plan' = [y \in Years |-> plan'[y]] /\ \A y \in Years : Good(y)
  <2>1. PICK y \in Years :
          /\ y = closes[reopens[tx[t].reopen].close].year /\ y + 1 \in Years
          /\ year[y] = "CLOSED" /\ year[y + 1] = "OPEN"
          /\ year' = [year EXCEPT ![y + 1] = "REVERSED", ![y] = "OPEN"]
    BY <1>6, Committed
  <2>2. plan' = plan BY <1>6 DEF CommitApproveReopen
  <2>3. y # y + 1 BY <1>1, <2>1
  <2>4. /\ year'[y] = "OPEN" /\ year'[y + 1] = "REVERSED"
        /\ \A z \in Years \ {y, y + 1} : year'[z] = year[z]
    BY <1>1, <2>1, <2>3
  <2>5. tx[t].kind = "approveReopen" /\ tx[t].checked /\ StillPlanned(t)
    BY <1>6, Checked DEF CommitApproveReopen, CycleInv
  <2>6. \A a \in Accounts : plan[y + 1][a] # "own" BY <2>1, <2>5 DEF StillPlanned
  <2>7. Good(y) BY <1>1, <2>1, <2>2, <2>4 DEF PlanOK
  <2>8. Good(y + 1) BY <1>1, <2>1, <2>2, <2>4, <2>6 DEF PlanOK
  <2> QED BY <1>1, <1>2, <2>2, <2>4, <2>7, <2>8
<1>7. ASSUME NEW t \in Transactions, CommitOpenAccount(t)
      PROVE  plan' = [y \in Years |-> plan'[y]] /\ \A y \in Years : Good(y)
  <2>1. PICK y \in Years :
          /\ year[y] = "OPEN" /\ year' = year
          /\ plan' = [plan EXCEPT ![y]["client2"] = "own"]
    BY <1>7, OpensAccount
  <2>2. PICK w : w = [plan[y] EXCEPT !["client2"] = "own"] OBVIOUS
  <2>3. plan' = [plan EXCEPT ![y] = w] BY <2>1, <2>2
  <2>4. plan'[y] = w /\ \A z \in Years \ {y} : plan'[z] = plan[z] BY <1>1, <2>3
  <2>5. /\ w \in Plans /\ w["client2"] = "own"
        /\ \A a \in Accounts \ {"client2"} : w[a] = plan[y][a]
    BY <1>1, <1>3, <2>2
  <2>6. Good(y)
    <3>1. plan[y]["result"] # "absent" /\ plan[y]["profit"] # "absent" BY <1>1, <2>1 DEF PlanOK
    <3>2. w["result"] # "absent" /\ w["profit"] # "absent" BY <1>3, <2>5, <3>1
    <3>3. \A a \in Accounts : w[a] = "absent" => plan[y][a] = "absent" BY <2>5
    <3> QED BY <2>1, <2>4, <2>5, <3>2, <3>3 DEF PlanOK
  <2>7. plan' = [z \in Years |-> plan'[z]] BY <1>1, <2>3
  <2> QED BY <1>2, <2>1, <2>4, <2>6, <2>7
<1>8. CASE UNCHANGED <<plan, year>>
  <2>1. plan' = [y \in Years |-> plan'[y]] BY <1>1, <1>8
  <2> QED BY <1>2, <1>8, <2>1
<1> QED BY <1>1, <1>4, <1>5, <1>6, <1>7, <1>8, PlanWriters, YearWriters

\* Of a step that approves nothing, what it posts in a year.
Documented(z) ==
    /\ SoundLedger(ledger'[z]) /\ OnlyPlanned(ledger'[z], plan[z])
    /\ \A a \in Accounts : PartOf("OPENING", ledger'[z], a) = PartOf("OPENING", ledger[z], a)
    /\ \A a \in Accounts : PartOf("CLOSING", ledger'[z], a) = PartOf("CLOSING", ledger[z], a)

LEMMA DocumentPosts ==
    ASSUME CycleInv, PlansOK, LedgersPlanned, [Next]_vars,
           \A t \in Transactions : ~ CommitApproveClose(t) /\ ~ CommitApproveReopen(t),
           NEW z \in Years
    PROVE  Documented(z)
<1>1. Written /\ DOMAIN ledger = Years BY LedgerStep DEF CycleInv, LedgersOK
<1>2. PICK s : s = ledger[z] OBVIOUS
<1>3. SoundLedger(s) /\ OnlyPlanned(s, plan[z]) BY <1>2 DEF LedgersPlanned
<1>4. CASE ledger'[z] = s BY <1>2, <1>3, <1>4 DEF Documented
<1>5. ASSUME NEW t \in Transactions, Posts(t, z), ledger'[z] # s PROVE Documented(z)
  <2>1. Posted(z) /\ tx[t].kind \in {"create", "issue"} /\ tx[t].checked /\ tx[t].year = z
    <3>1. tx[t].kind \in {"create", "issue"} /\ tx[t].checked /\ tx[t].year = z
      BY <1>5, Checked DEF Posts, CommitIssue, CommitCreate, CycleInv
    <3>2. Posted(z) BY <1>2, <1>5 DEF Posts, CommitIssue, CommitCreate
    <3> QED BY <3>1, <3>2
  <2>2. year[z] = "OPEN" BY <2>1 DEF CycleInv, LockInv, StillAdmissible
  <2>3. PICK client \in Clients :
          /\ plan[z][client] # "absent"
          /\ ledger' = [ledger EXCEPT ![z] = Append(s, JournalEntry("DOCUMENT", 0, Sale(client)))]
    BY <1>2, <2>1 DEF Posted
  <2>4. PICK z2 : z2 = Append(s, JournalEntry("DOCUMENT", 0, Sale(client))) OBVIOUS
  <2>5. ledger'[z] = z2 BY <1>1, <2>3, <2>4
  <2>6. PICK m : m = Sale(client) OBVIOUS
  <2>7. Added(s, z2, "DOCUMENT", m) BY <1>3, <2>4, <2>6, SaleAdds
  <2>8. PICK P : P = plan[z] OBVIOUS
  <2>9. ASSUME NEW a \in Accounts, P[a] = "absent" PROVE P[a] = "absent" /\ m[a] = 0
    <3>1. a # client /\ a # "result" BY <2>2, <2>3, <2>8, <2>9 DEF PlansOK
    <3> QED BY <2>6, <2>9, <3>1 DEF Sale
  <2>10. OnlyPlanned(s, P) BY <1>3, <2>8
  <2>11. OnlyPlanned(z2, P) BY <2>7, <2>9, <2>10, AddedPlanned
  <2>12. SoundLedger(z2) BY <2>7 DEF Added
  <2>13. ASSUME NEW a \in Accounts
         PROVE  /\ PartOf("OPENING", z2, a) = PartOf("OPENING", s, a)
                /\ PartOf("CLOSING", z2, a) = PartOf("CLOSING", s, a)
    <3>1. /\ PartOf("OPENING", z2, a) = PartOf("OPENING", s, a) + 0
          /\ PartOf("CLOSING", z2, a) = PartOf("CLOSING", s, a) + 0
      BY <2>7, <2>13 DEF Added
    <3>2. \A o : PartOf(o, s, a) \in Int BY <1>3, <2>13, TotalType
    <3> QED BY <3>1, <3>2
  <2> QED BY <1>2, <2>5, <2>8, <2>11, <2>12, <2>13 DEF Documented
<1> QED BY <1>1, <1>2, <1>4, <1>5 DEF Written, Closes, Reopens

LEMMA LedgersPlannedStep ==
    ASSUME CycleInv, RequestInv, PlansOK, LedgersPlanned, ClosingsReferred, OpeningsReferred,
           \A t \in Transactions : StillPlanned(t), [Next]_vars
    PROVE  LedgersPlanned'
<1>1. \A y \in Years, a \in Accounts : plan'[y][a] = "absent" => plan[y][a] = "absent"
  BY PlansStep
<1>2. ASSUME NEW z \in Years, NEW s, OnlyPlanned(s, plan[z]) PROVE OnlyPlanned(s, plan'[z])
  BY <1>1, <1>2 DEF OnlyPlanned
<1>3. ASSUME NEW z \in Years, ledger'[z] = ledger[z]
      PROVE  SoundLedger(ledger'[z]) /\ OnlyPlanned(ledger'[z], plan'[z])
  BY <1>2, <1>3 DEF LedgersPlanned
<1>4. ASSUME NEW t \in Transactions, CommitApproveClose(t), NEW z \in Years
      PROVE  SoundLedger(ledger'[z]) /\ OnlyPlanned(ledger'[z], plan'[z])
  <2>1. PICK c, y : c = tx[t].close /\ y = closes[c].year OBVIOUS
  <2>2. ClosePosts(c, y) BY <1>4, <2>1, CloseWrites
  <2>3. CASE z = y BY <1>2, <1>4, <2>2, <2>3 DEF ClosePosts
  <2>4. CASE z = y + 1 BY <2>2, <2>4 DEF ClosePosts
  <2>5. CASE z \notin {y, y + 1} BY <1>3, <1>4, <2>2, <2>5 DEF ClosePosts
  <2> QED BY <2>3, <2>4, <2>5
<1>5. ASSUME NEW t \in Transactions, CommitApproveReopen(t), NEW z \in Years
      PROVE  SoundLedger(ledger'[z]) /\ OnlyPlanned(ledger'[z], plan'[z])
  <2>1. PICK c, y : c = reopens[tx[t].reopen].close /\ y = closes[c].year OBVIOUS
  <2>2. closes[c].status = "COMPLETED"
    <3>1. tx[t].kind = "approveReopen" /\ tx[t].checked
      BY <1>5, Checked DEF CommitApproveReopen, CycleInv
    <3> QED BY <2>1, <3>1 DEF RequestInv, StillRequested
  <2>3. ReopenPosts(c, y) BY <1>5, <2>1, <2>2, ReopenWrites
  <2>4. CASE z = y BY <1>2, <1>5, <2>3, <2>4 DEF ReopenPosts
  <2>5. CASE z = y + 1 BY <1>2, <1>5, <2>3, <2>5 DEF ReopenPosts
  <2>6. CASE z \notin {y, y + 1} BY <1>3, <1>5, <2>3, <2>6 DEF ReopenPosts
  <2> QED BY <2>4, <2>5, <2>6
<1>6. ASSUME \A t \in Transactions : ~ CommitApproveClose(t) /\ ~ CommitApproveReopen(t),
             NEW z \in Years
      PROVE  SoundLedger(ledger'[z]) /\ OnlyPlanned(ledger'[z], plan'[z])
  BY <1>2, <1>6, DocumentPosts DEF Documented
<1> QED BY <1>4, <1>5, <1>6 DEF LedgersPlanned

LEMMA ClosingsStep ==
    ASSUME CycleInv, RequestInv, PlansOK, LedgersPlanned, ClosingsReferred, [Next]_vars
    PROVE  ClosingsReferred'
<1>1. /\ CycleTypeOK /\ LedgersOK /\ ClosesWritten
      /\ \A c \in 1..Len(closes) : closes'[c].year = closes[c].year
  BY Settled, RequestsKept DEF CycleInv, Kept
<1>2. ASSUME NEW z \in Years, NEW p, NEW o, IfAny(ledger[z], p, o) PROVE IfAny(ledger'[z], p, o)
  <2>1. SoundLedger(ledger[z]) BY DEF LedgersPlanned
  <2>2. IsSequence(ledger'[z]) BY LedgerStep DEF CycleInv, Written, Grown
  <2>3. DOMAIN ledger[z] = 1..Len(ledger[z]) /\ DOMAIN ledger'[z] = 1..Len(ledger'[z])
    BY <2>1, <2>2 DEF SoundLedger, IsSequence
  <2> QED BY <1>2, <2>3, EntryKept DEF IfAny
<1>3. ASSUME NEW c \in 1..Len(closes'), closes'[c].status = "COMPLETED",
             NEW z, z = closes'[c].year
      PROVE  /\ IfAny(ledger'[z], closes'[c].closing, "CLOSING")
             /\ IfAny(ledger'[z], closes'[c].regularization, "REGULARIZATION")
  <2>1. c \in 1..Len(closes) BY <1>1, <1>3 DEF ClosesWritten
  <2>2. z \in Years /\ z = closes[c].year BY <1>1, <1>3, <2>1, RequestYear
  <2>3. CASE closes'[c] = closes[c]
    <3>1. /\ IfAny(ledger[z], closes[c].closing, "CLOSING")
          /\ IfAny(ledger[z], closes[c].regularization, "REGULARIZATION")
      BY <1>3, <2>1, <2>2, <2>3 DEF ClosingsReferred
    <3> QED BY <1>2, <2>2, <2>3, <3>1
  <2>4. ASSUME NEW t \in Transactions, CommitApproveClose(t), tx[t].close = c
        PROVE  /\ IfAny(ledger'[z], closes'[c].closing, "CLOSING")
               /\ IfAny(ledger'[z], closes'[c].regularization, "REGULARIZATION")
    <3>1. ClosePosts(c, z) BY <2>2, <2>4, CloseWrites
    <3> QED BY <3>1 DEF ClosePosts
  <2>5. ASSUME NEW t \in Transactions, CommitCancelClose(t), tx[t].close = c PROVE FALSE
    BY <1>1, <1>3, <2>5, Cancelled
  <2> QED BY <1>1, <2>1, <2>3, <2>4, <2>5 DEF ClosesWritten, SettlesClose
<1> QED BY <1>3 DEF ClosingsReferred

-----------------------------------------------------------------------------
(* What the openings and the closings of a year add up to.                   *)

\* What the entries of openings of the next year and of closings of a year add
\* up to: what the close in force posted, and nothing without one.
CarriedAt(y, a) ==
    /\ \A c : InForceOf(y, c) =>
         /\ PartOf("OPENING", ledger[y + 1], a) = AmountAt(ledger[y + 1], closes[c].opening, a)
         /\ PartOf("CLOSING", ledger[y], a) = AmountAt(ledger[y], closes[c].closing, a)
         /\ PartOf("OPENING", ledger[y + 1], a) + PartOf("CLOSING", ledger[y], a) = 0
    /\ (\A c : ~ InForceOf(y, c)) =>
         PartOf("OPENING", ledger[y + 1], a) = 0 /\ PartOf("CLOSING", ledger[y], a) = 0
Carried == \A y \in Years : y + 1 \in Years => \A a \in Accounts : CarriedAt(y, a)
NothingLeft == \A y \in Years : year[y] # "OPEN" => \A a \in Accounts : TotalOf(ledger[y], a) = 0

\* Everything that the last theorem rests on.
CarryInv ==
    /\ PlansOK /\ LedgersPlanned /\ ClosingsReferred /\ Carried /\ NothingLeft
    /\ \A t \in Transactions : StillPlanned(t)

\* An entry at a position does not change, nor does the close that points to it.
LEMMA AmountsStay ==
    ASSUME CycleInv, RequestInv, OpeningsReferred, ClosingsReferred, LedgersPlanned, [Next]_vars,
           NEW y \in Years, y + 1 \in Years, NEW c, InForceOf(y, c), NEW a \in Accounts
    PROVE  /\ AmountAt(ledger'[y + 1], closes'[c].opening, a)
                = AmountAt(ledger[y + 1], closes[c].opening, a)
           /\ AmountAt(ledger'[y], closes'[c].closing, a) = AmountAt(ledger[y], closes[c].closing, a)
<1>1. c \in 1..Len(closes) /\ closes[c].status = "COMPLETED" /\ closes[c].year = y
  BY DEF InForceOf, CloseInForce
<1>2. closes'[c] = closes[c] BY <1>1, Settled DEF SettledStay
<1>3. PICK j, k : j = closes[c].closing /\ k = closes[c].opening OBVIOUS
<1>4. AmountAt(ledger'[y + 1], k, a) = AmountAt(ledger[y + 1], k, a)
  <2>1. CASE k = 0 BY <2>1 DEF AmountAt
  <2>2. CASE k # 0
    <3>1. k \in 1..Len(ledger[y + 1]) BY <1>1, <1>3, <2>2 DEF OpeningsReferred, EntryFrom
    <3>2. ledger'[y + 1][k] = ledger[y + 1][k] BY <3>1, EntryKept
    <3> QED BY <3>2 DEF AmountAt
  <2> QED BY <2>1, <2>2
<1>5. AmountAt(ledger'[y], j, a) = AmountAt(ledger[y], j, a)
  <2>1. CASE j = 0 BY <2>1 DEF AmountAt
  <2>2. CASE j # 0
    <3>1. SoundLedger(ledger[y]) BY DEF LedgersPlanned
    <3>2. j \in 1..Len(ledger[y])
      BY <1>1, <1>3, <2>2, <3>1 DEF ClosingsReferred, IfAny, SoundLedger
    <3>3. ledger'[y][j] = ledger[y][j] BY <3>2, EntryKept
    <3> QED BY <3>3 DEF AmountAt
  <2> QED BY <2>1, <2>2
<1> QED BY <1>2, <1>3, <1>4, <1>5

LEMMA CarriedStays ==
    ASSUME CycleInv, RequestInv, OpeningsReferred, ClosingsReferred, LedgersPlanned, [Next]_vars,
           NEW y \in Years, y + 1 \in Years, NEW a \in Accounts, CarriedAt(y, a),
           \A c : InForceOf(y, c)' <=> InForceOf(y, c),
           PartOf("OPENING", ledger'[y + 1], a) = PartOf("OPENING", ledger[y + 1], a),
           PartOf("CLOSING", ledger'[y], a) = PartOf("CLOSING", ledger[y], a)
    PROVE  CarriedAt(y, a)'
<1>1. ASSUME NEW c, InForceOf(y, c)'
      PROVE  /\ PartOf("OPENING", ledger'[y + 1], a) = AmountAt(ledger'[y + 1], closes'[c].opening, a)
             /\ PartOf("CLOSING", ledger'[y], a) = AmountAt(ledger'[y], closes'[c].closing, a)
             /\ PartOf("OPENING", ledger'[y + 1], a) + PartOf("CLOSING", ledger'[y], a) = 0
  <2>1. InForceOf(y, c) BY <1>1
  <2>2. /\ PartOf("OPENING", ledger[y + 1], a) = AmountAt(ledger[y + 1], closes[c].opening, a)
        /\ PartOf("CLOSING", ledger[y], a) = AmountAt(ledger[y], closes[c].closing, a)
        /\ PartOf("OPENING", ledger[y + 1], a) + PartOf("CLOSING", ledger[y], a) = 0
    BY <2>1 DEF CarriedAt
  <2> QED BY <2>1, <2>2, AmountsStay
<1>2. ASSUME \A c : ~ InForceOf(y, c)'
      PROVE  PartOf("OPENING", ledger'[y + 1], a) = 0 /\ PartOf("CLOSING", ledger'[y], a) = 0
  BY <1>2 DEF CarriedAt
<1> QED BY <1>1, <1>2 DEF CarriedAt

\* A close carries over what its year leaves.
LEMMA CloseCarries ==
    ASSUME CycleInv, RequestInv, OpeningsReferred, ClosedAlike, CarryInv, [Next]_vars,
           NEW t \in Transactions, CommitApproveClose(t)
    PROVE  Carried' /\ NothingLeft'
<1>1. PICK k, y : k = tx[t].close /\ y = closes[k].year OBVIOUS
<1>2. /\ y \in Years /\ y + 1 \in Years /\ year[y] = "OPEN"
      /\ year' = [year EXCEPT ![y] = "CLOSED", ![y + 1] = "OPEN"]
  BY <1>1, Committed
<1>3. ClosePosts(k, y) BY <1>1, CloseWrites DEF CarryInv
<1>4. /\ InForceOf(y, k)' /\ \A z : InForceOf(z, k)' => z = y
      /\ \A z, c : c # k => (InForceOf(z, c)' <=> InForceOf(z, c))
  BY <1>1, ForceOfClose
<1>5. y # y + 1 /\ year \in [Years -> Statuses] BY <1>2 DEF Years, CycleInv, CycleTypeOK
<1>6. \A z : ~ InForceOf(z, k)
  <2>1. closes[k].status = "REQUESTED" BY <1>1, SettlerHolds DEF SettlesClose
  <2> QED BY <2>1 DEF InForceOf, CloseInForce
<1>7. \A c : ~ InForceOf(y, c) BY <1>2 DEF ClosedAlike
<1>8. \A c : InForceOf(y, c)' => c = k BY <1>4, <1>7
<1>9. ASSUME NEW a \in Accounts PROVE CarriedAt(y, a)'
  <2>1. PartOf("OPENING", ledger[y + 1], a) = 0 /\ PartOf("CLOSING", ledger[y], a) = 0
    BY <1>2, <1>7, <1>9 DEF CarryInv, Carried, CarriedAt
  <2>2. /\ PartOf("CLOSING", ledger'[y], a) =
             PartOf("CLOSING", ledger[y], a) + AmountAt(ledger'[y], closes'[k].closing, a)
        /\ PartOf("OPENING", ledger'[y + 1], a) =
             PartOf("OPENING", ledger[y + 1], a) + AmountAt(ledger'[y + 1], closes'[k].opening, a)
        /\ AmountAt(ledger'[y], closes'[k].closing, a) \in Int
        /\ AmountAt(ledger'[y + 1], closes'[k].opening, a) \in Int
        /\ AmountAt(ledger'[y], closes'[k].closing, a)
             + AmountAt(ledger'[y + 1], closes'[k].opening, a) = 0
    BY <1>3, <1>9 DEF ClosePosts
  <2>3. /\ PartOf("CLOSING", ledger'[y], a) = AmountAt(ledger'[y], closes'[k].closing, a)
        /\ PartOf("OPENING", ledger'[y + 1], a) = AmountAt(ledger'[y + 1], closes'[k].opening, a)
        /\ PartOf("OPENING", ledger'[y + 1], a) + PartOf("CLOSING", ledger'[y], a) = 0
    BY <2>1, <2>2
  <2> QED BY <1>4, <1>8, <2>3 DEF CarriedAt
<1>10. ASSUME NEW z \in Years, z + 1 \in Years, z # y, NEW a \in Accounts PROVE CarriedAt(z, a)'
  <2>1. \A c : InForceOf(z, c)' <=> InForceOf(z, c) BY <1>4, <1>6, <1>10
  <2>2. PartOf("OPENING", ledger'[z + 1], a) = PartOf("OPENING", ledger[z + 1], a)
    <3>1. CASE z + 1 = y BY <1>3, <1>10, <3>1 DEF ClosePosts
    <3>2. CASE z + 1 # y
      <4>1. z + 1 # y + 1 BY <1>2, <1>10 DEF Years
      <4> QED BY <1>3, <1>10, <3>2, <4>1 DEF ClosePosts
    <3> QED BY <3>1, <3>2
  <2>3. PartOf("CLOSING", ledger'[z], a) = PartOf("CLOSING", ledger[z], a)
    BY <1>3, <1>10 DEF ClosePosts
  <2>4. CarriedAt(z, a) BY <1>10 DEF CarryInv, Carried
  <2> QED BY <1>10, <2>1, <2>2, <2>3, <2>4, CarriedStays DEF CarryInv
<1>11. ASSUME NEW z \in Years, year'[z] # "OPEN", NEW a \in Accounts PROVE TotalOf(ledger'[z], a) = 0
  <2>1. z # y + 1 BY <1>2, <1>5, <1>11
  <2>2. CASE z = y BY <1>3, <1>11, <2>2 DEF ClosePosts
  <2>3. CASE z # y
    <3>1. ledger'[z] = ledger[z] BY <1>3, <1>11, <2>1, <2>3 DEF ClosePosts
    <3>2. year'[z] = year[z] BY <1>2, <1>5, <1>11, <2>1, <2>3
    <3> QED BY <1>11, <3>1, <3>2 DEF CarryInv, NothingLeft
  <2> QED BY <2>2, <2>3
<1>12. Carried'
  <2>1. ASSUME NEW z \in Years, z + 1 \in Years, NEW a \in Accounts PROVE CarriedAt(z, a)'
    BY <1>9, <1>10, <2>1
  <2> QED BY <2>1 DEF Carried
<1> QED BY <1>11, <1>12 DEF NothingLeft

\* The year that a reopening takes back has nothing but openings and what
\* reversed them.
LEMMA OnlyOpenings ==
    ASSUME CycleInv, RequestInv, BooksInv, NEW t \in Transactions, CommitApproveReopen(t),
           NEW c, c = reopens[tx[t].reopen].close, NEW y, y = closes[c].year,
           SoundLedger(ledger[y + 1])
    PROVE  From("OPENING", ledger[y + 1]) = DOMAIN ledger[y + 1]
<1>1. PICK z, s : z = y + 1 /\ s = ledger[z] OBVIOUS
<1>2. tx[t].kind = "approveReopen" /\ tx[t].checked
  BY Checked DEF CommitApproveReopen, CycleInv
<1>3. NoSuccessorJournalActivity(y, reopens) BY <1>2 DEF BooksInv, StillReversible
<1>4. DOMAIN s = 1..Len(s) BY <1>1 DEF SoundLedger
<1>5. ASSUME NEW k \in 1..Len(closes), closes[k].year = y, closes[k].status = "COMPLETED",
             closes[k].opening # 0
      PROVE  s[closes[k].opening].origin = "OPENING"
  BY <1>1, <1>5 DEF BooksInv, OpeningsReferred, EntryFrom
<1>6. ASSUME NEW p \in 1..Len(s) PROVE p \in From("OPENING", s)
  <2>1. CASE \E k \in 1..Len(closes) :
               closes[k].year = y /\ closes[k].status = "COMPLETED" /\ closes[k].opening = p
    <3>1. PICK k \in 1..Len(closes) :
             closes[k].year = y /\ closes[k].status = "COMPLETED" /\ closes[k].opening = p
      BY <2>1
    <3>2. closes[k].opening # 0 BY <1>6, <3>1
    <3>3. s[closes[k].opening].origin = "OPENING" BY <1>5, <3>1, <3>2
    <3>4. s[p].origin = "OPENING" BY <3>1, <3>3
    <3> QED BY <1>4, <1>6, <3>4 DEF From
  <2>2. ASSUME NEW q \in 1..Len(reopens), NEW k \in 1..Len(closes), k = reopens[q].close,
               closes[k].year = y, closes[k].status = "COMPLETED",
               reopens[q].status = "COMPLETED", reopens[q].opening = p
        PROVE  p \in From("OPENING", s)
    <3>1. p # 0 BY <1>6
    <3>2. closes[k].opening # 0 /\ s[p].of = closes[k].opening
      BY <1>1, <2>2, <3>1 DEF BooksInv, ReversalsReferred, EntryFrom
    <3>3. s[s[p].of].origin = "OPENING" BY <1>5, <2>2, <3>2
    <3> QED BY <1>4, <1>6, <3>2, <3>3 DEF From
  <2> QED BY <1>1, <1>3, <1>6, <2>1, <2>2 DEF NoSuccessorJournalActivity
<1>7. From("OPENING", s) \subseteq DOMAIN s BY DEF From
<1> QED BY <1>1, <1>4, <1>6, <1>7

\* A reopening takes back what its close carried over.
LEMMA ReopenCarries ==
    ASSUME CycleInv, RequestInv, BooksInv, ClosedAlike, CarryInv, [Next]_vars,
           NEW t \in Transactions, CommitApproveReopen(t)
    PROVE  Carried' /\ NothingLeft'
<1>1. PICK k, y : k = reopens[tx[t].reopen].close /\ y = closes[k].year OBVIOUS
<1>2. /\ y \in Years /\ y + 1 \in Years
      /\ year' = [year EXCEPT ![y + 1] = "REVERSED", ![y] = "OPEN"]
  BY <1>1, Committed
<1>3. /\ InForceOf(y, k) /\ \A z : ~ InForceOf(z, k)'
      /\ \A z : InForceOf(z, k) => z = y
      /\ \A z, c : c # k => (InForceOf(z, c)' <=> InForceOf(z, c))
  BY <1>1, ForceOfReopen
<1>4. ReopenPosts(k, y)
  <2>1. closes[k].status = "COMPLETED" BY <1>3 DEF InForceOf, CloseInForce
  <2> QED BY <1>1, <2>1, ReopenWrites DEF CarryInv, BooksInv
<1>5. y # y + 1 /\ year \in [Years -> Statuses] BY <1>2 DEF Years, CycleInv, CycleTypeOK
<1>6. \A c : ~ InForceOf(y, c)'
  <2>1. \A c : InForceOf(y, c) => c = k BY <1>2, <1>3 DEF ClosedAlike
  <2> QED BY <1>3, <2>1
<1>7. ASSUME NEW a \in Accounts
      PROVE  /\ PartOf("OPENING", ledger[y + 1], a) = AmountAt(ledger[y + 1], closes[k].opening, a)
             /\ PartOf("CLOSING", ledger[y], a) = AmountAt(ledger[y], closes[k].closing, a)
             /\ PartOf("OPENING", ledger[y + 1], a) \in Int /\ PartOf("CLOSING", ledger[y], a) \in Int
  <2>1. /\ PartOf("OPENING", ledger[y + 1], a) = AmountAt(ledger[y + 1], closes[k].opening, a)
        /\ PartOf("CLOSING", ledger[y], a) = AmountAt(ledger[y], closes[k].closing, a)
    BY <1>2, <1>3, <1>7 DEF CarryInv, Carried, CarriedAt
  <2>2. SoundLedger(ledger[y]) /\ SoundLedger(ledger[y + 1])
    BY <1>2 DEF CarryInv, LedgersPlanned
  <2> QED BY <1>7, <2>1, <2>2, TotalType
<1>8. ASSUME NEW a \in Accounts PROVE CarriedAt(y, a)'
  <2>1. /\ PartOf("CLOSING", ledger'[y], a) =
             PartOf("CLOSING", ledger[y], a) - AmountAt(ledger[y], closes[k].closing, a)
        /\ PartOf("OPENING", ledger'[y + 1], a) =
             PartOf("OPENING", ledger[y + 1], a) - AmountAt(ledger[y + 1], closes[k].opening, a)
    BY <1>4, <1>8 DEF ReopenPosts
  <2>2. PartOf("OPENING", ledger'[y + 1], a) = 0 /\ PartOf("CLOSING", ledger'[y], a) = 0
    BY <1>7, <1>8, <2>1
  <2> QED BY <1>6, <2>2 DEF CarriedAt
<1>9. ASSUME NEW z \in Years, z + 1 \in Years, z # y, NEW a \in Accounts PROVE CarriedAt(z, a)'
  <2>1. \A c : InForceOf(z, c)' <=> InForceOf(z, c) BY <1>3, <1>9
  <2>2. PartOf("OPENING", ledger'[z + 1], a) = PartOf("OPENING", ledger[z + 1], a)
    <3>1. CASE z + 1 = y BY <1>4, <1>9, <3>1 DEF ReopenPosts
    <3>2. CASE z + 1 # y
      <4>1. z + 1 # y + 1 BY <1>2, <1>9 DEF Years
      <4> QED BY <1>4, <1>9, <3>2, <4>1 DEF ReopenPosts
    <3> QED BY <3>1, <3>2
  <2>3. PartOf("CLOSING", ledger'[z], a) = PartOf("CLOSING", ledger[z], a)
    BY <1>4, <1>9 DEF ReopenPosts
  <2>4. CarriedAt(z, a) BY <1>9 DEF CarryInv, Carried
  <2> QED BY <1>9, <2>1, <2>2, <2>3, <2>4, CarriedStays DEF CarryInv, BooksInv
<1>10. ASSUME NEW a \in Accounts PROVE TotalOf(ledger'[y + 1], a) = 0
  <2>1. TotalOf(ledger'[y + 1], a) =
          TotalOf(ledger[y + 1], a) - AmountAt(ledger[y + 1], closes[k].opening, a)
    BY <1>4, <1>10 DEF ReopenPosts
  <2>2. From("OPENING", ledger[y + 1]) = DOMAIN ledger[y + 1]
    BY <1>1, <1>2, OnlyOpenings DEF CarryInv, LedgersPlanned
  <2>3. TotalOf(ledger[y + 1], a) = PartOf("OPENING", ledger[y + 1], a)
    BY <2>2 DEF TotalOf, PartOf, Balance
  <2> QED BY <1>7, <1>10, <2>1, <2>3
<1>11. ASSUME NEW z \in Years, year'[z] # "OPEN", NEW a \in Accounts PROVE TotalOf(ledger'[z], a) = 0
  <2>1. z # y BY <1>2, <1>5, <1>11
  <2>2. CASE z = y + 1 BY <1>10, <1>11, <2>2
  <2>3. CASE z # y + 1
    <3>1. ledger'[z] = ledger[z] BY <1>4, <1>11, <2>1, <2>3 DEF ReopenPosts
    <3>2. year'[z] = year[z] BY <1>2, <1>5, <1>11, <2>1, <2>3
    <3> QED BY <1>11, <3>1, <3>2 DEF CarryInv, NothingLeft
  <2> QED BY <2>2, <2>3
<1>12. Carried'
  <2>1. ASSUME NEW z \in Years, z + 1 \in Years, NEW a \in Accounts PROVE CarriedAt(z, a)'
    BY <1>8, <1>9, <2>1
  <2> QED BY <2>1 DEF Carried
<1> QED BY <1>11, <1>12 DEF NothingLeft

\* Nothing else touches what was carried over.
LEMMA OthersCarry ==
    ASSUME CycleInv, RequestInv, OpeningsReferred, CarryInv, [Next]_vars,
           \A t \in Transactions : ~ CommitApproveClose(t) /\ ~ CommitApproveReopen(t)
    PROVE  Carried' /\ NothingLeft'
<1>1. \A y, c : InForceOf(y, c)' <=> InForceOf(y, c) BY ForceKept
<1>2. year \in [Years -> Statuses] BY DEF CycleInv, CycleTypeOK
<1>3. ASSUME NEW z \in Years, z + 1 \in Years, NEW a \in Accounts PROVE CarriedAt(z, a)'
  <2>1. /\ PartOf("OPENING", ledger'[z + 1], a) = PartOf("OPENING", ledger[z + 1], a)
        /\ PartOf("CLOSING", ledger'[z], a) = PartOf("CLOSING", ledger[z], a)
    <3>1. Documented(z) /\ Documented(z + 1) BY <1>3, DocumentPosts DEF CarryInv
    <3> QED BY <1>3, <3>1 DEF Documented
  <2>2. CarriedAt(z, a) BY <1>3 DEF CarryInv, Carried
  <2> QED BY <1>1, <1>3, <2>1, <2>2, CarriedStays DEF CarryInv
<1>4. ASSUME NEW z \in Years, year'[z] # "OPEN", NEW a \in Accounts PROVE TotalOf(ledger'[z], a) = 0
  <2>1. year'[z] = year[z]
    <3>1. CASE CreateInitialYear
      <4>1. year' = [year EXCEPT ![1] = "OPEN"] BY <3>1 DEF CreateInitialYear
      <4> QED BY <1>2, <1>4, <4>1
    <3> QED BY <3>1, YearWriters DEF CycleInv
  <2>2. ledger'[z] = ledger[z] BY <1>4, <2>1, FrozenStep
  <2> QED BY <1>4, <2>1, <2>2 DEF CarryInv, NothingLeft
<1> QED BY <1>3, <1>4 DEF Carried, NothingLeft

LEMMA CarryStep ==
    ASSUME CycleInv, RequestInv, BooksInv, ClosedAlike, CarryInv, [Next]_vars
    PROVE  CarryInv'
<1>1. OpeningsReferred BY DEF BooksInv
<1>2. PlansOK' BY PlansStep DEF CarryInv
<1>3. LedgersPlanned' BY <1>1, LedgersPlannedStep DEF CarryInv
<1>4. ClosingsReferred' BY ClosingsStep DEF CarryInv
<1>5. ASSUME NEW t \in Transactions PROVE StillPlanned(t)' BY <1>5, StillPlannedStep DEF CarryInv
<1>6. Carried' /\ NothingLeft' BY <1>1, CloseCarries, ReopenCarries, OthersCarry
<1> QED BY <1>2, <1>3, <1>4, <1>5, <1>6 DEF CarryInv

LEMMA CarryStart == Init => CarryInv
<1> SUFFICES ASSUME Init PROVE CarryInv OBVIOUS
<1>1. PICK s : s = <<>> OBVIOUS
<1>2. SoundLedger(s) /\ DOMAIN s = {} BY <1>1 DEF SoundLedger
<1>3. /\ \A y \in Years : ledger[y] = s /\ year[y] = "ABSENT" /\ plan[y] = NoAccounts
      /\ closes = <<>> /\ plan = [y \in Years |-> NoAccounts]
      /\ \A t \in Transactions : tx[t] = Idle
  BY <1>1 DEF Init
<1>4. NoAccounts \in [Accounts -> {"absent", "own", "copied"}] /\ \A a \in Accounts : NoAccounts[a] = "absent"
  BY DEF NoAccounts
<1>5. PlansOK BY <1>3, <1>4 DEF PlansOK
<1>6. LedgersPlanned BY <1>2, <1>3 DEF LedgersPlanned, OnlyPlanned
<1>7. ClosingsReferred BY <1>3 DEF ClosingsReferred
<1>8. ASSUME NEW a \in Accounts, NEW P \in SUBSET DOMAIN s PROVE BalanceAt(s, P)[a] = 0
  <2>1. PICK f : f = [p \in DOMAIN s |-> s[p].amount[a]] OBVIOUS
  <2>2. SoundLedger(s) BY <1>2
  <2>3. BalanceAt(s, P)[a] = SumFunctionOnSet(f, P) /\ IsFiniteSet(P)
    BY <1>8, <2>1, <2>2, BalanceIs
  <2>4. P = {} BY <1>2, <1>8
  <2>5. \A p \in P : f[p] = 0 BY <2>4
  <2> QED BY <2>3, <2>5, SumOfZeros
<1>9. ASSUME NEW a \in Accounts
      PROVE  TotalOf(s, a) = 0 /\ \A o : PartOf(o, s, a) = 0
  <2>1. \A o : From(o, s) \in SUBSET DOMAIN s BY DEF From
  <2>2. PICK P \in SUBSET DOMAIN s : P = DOMAIN s OBVIOUS
  <2> QED BY <1>8, <1>9, <2>1, <2>2 DEF TotalOf, PartOf, Balance
<1>10. NothingLeft BY <1>3, <1>9 DEF NothingLeft
<1>11. Carried
  <2>1. \A y, c : ~ InForceOf(y, c) BY <1>3 DEF InForceOf
  <2>2. ASSUME NEW y \in Years, y + 1 \in Years, NEW a \in Accounts PROVE CarriedAt(y, a)
    BY <1>3, <1>9, <2>1, <2>2 DEF CarriedAt
  <2> QED BY <2>2 DEF Carried
<1>12. \A t \in Transactions : StillPlanned(t) BY <1>3, IdleType DEF StillPlanned
<1> QED BY <1>5, <1>6, <1>7, <1>10, <1>11, <1>12 DEF CarryInv

\* A ledger is its closings and the rest.
LEMMA RestOf ==
    ASSUME NEW s, SoundLedger(s), NEW a \in Accounts
    PROVE  /\ TotalOf(s, a) = PartOf("CLOSING", s, a) + BalanceAt(s, DOMAIN s \ From("CLOSING", s))[a]
           /\ BalanceAt(s, DOMAIN s \ From("CLOSING", s))[a] \in Int
<1>1. PICK A, B, D : /\ A = From("CLOSING", s) /\ D = DOMAIN s
                     /\ B = DOMAIN s \ From("CLOSING", s)
  OBVIOUS
<1>2. A \in SUBSET DOMAIN s /\ B \in SUBSET DOMAIN s /\ D \in SUBSET DOMAIN s
      /\ A \cap B = {} /\ A \cup B = D
  BY <1>1 DEF From
<1>3. PICK f : f = [p \in DOMAIN s |-> s[p].amount[a]] OBVIOUS
<1>4. BalanceAt(s, A)[a] = SumFunctionOnSet(f, A) /\ IsFiniteSet(A) /\ \A p \in A : f[p] \in Int
  BY <1>2, <1>3, BalanceIs
<1>5. /\ BalanceAt(s, B)[a] = SumFunctionOnSet(f, B) /\ BalanceAt(s, B)[a] \in Int
      /\ IsFiniteSet(B) /\ \A p \in B : f[p] \in Int
  BY <1>2, <1>3, BalanceIs
<1>6. BalanceAt(s, D)[a] = SumFunctionOnSet(f, D) BY <1>2, <1>3, BalanceIs
<1>7. SumFunctionOnSet(f, A \cup B) = SumFunctionOnSet(f, A) + SumFunctionOnSet(f, B)
  BY <1>2, <1>4, <1>5, SumSplits
<1> QED BY <1>1, <1>2, <1>4, <1>5, <1>6, <1>7 DEF TotalOf, PartOf, Balance

LEMMA CarriedMeans ==
    ASSUME CycleInv, ClosedAlike, CarryInv
    PROVE  BalancesCarriedOver
<1>1. ASSUME NEW y \in Years, year[y] # "OPEN", NEW a \in Accounts PROVE Balance(ledger[y])[a] = 0
  BY <1>1 DEF CarryInv, NothingLeft, TotalOf
<1>2. ASSUME NEW y \in Years, year[y] = "CLOSED"
      PROVE  BalanceAt(ledger[y + 1], From("OPENING", ledger[y + 1]))
               = BalanceAt(ledger[y], DOMAIN ledger[y] \ From("CLOSING", ledger[y]))
  <2>1. PICK c : InForceOf(y, c) BY <1>2 DEF ClosedAlike
  <2>2. y + 1 \in Years BY <2>1, RequestYear DEF InForceOf, CycleInv
  <2>3. PICK s, z : s = ledger[y] /\ z = ledger[y + 1] OBVIOUS
  <2>4. SoundLedger(s) /\ SoundLedger(z) BY <1>2, <2>2, <2>3 DEF CarryInv, LedgersPlanned
  <2>5. PICK O, R : O = From("OPENING", z) /\ R = DOMAIN s \ From("CLOSING", s) OBVIOUS
  <2>6. ASSUME NEW a \in Accounts PROVE BalanceAt(z, O)[a] = BalanceAt(s, R)[a]
    <3>1. PartOf("OPENING", z, a) + PartOf("CLOSING", s, a) = 0
      BY <1>2, <2>1, <2>2, <2>3, <2>6 DEF CarryInv, Carried, CarriedAt
    <3>2. TotalOf(s, a) = 0 BY <1>2, <2>3, <2>6 DEF CarryInv, NothingLeft
    <3>3. /\ TotalOf(s, a) = PartOf("CLOSING", s, a) + BalanceAt(s, R)[a]
          /\ BalanceAt(s, R)[a] \in Int
      BY <2>4, <2>5, <2>6, RestOf
    <3>4. PartOf("OPENING", z, a) \in Int /\ PartOf("CLOSING", s, a) \in Int
      BY <2>4, <2>6, TotalType
    <3>5. PartOf("OPENING", z, a) = BalanceAt(s, R)[a] BY <3>1, <3>2, <3>3, <3>4
    <3> QED BY <2>5, <3>5 DEF PartOf
  <2>7. /\ BalanceAt(z, O) = [a \in Accounts |-> BalanceAt(z, O)[a]]
        /\ BalanceAt(s, R) = [a \in Accounts |-> BalanceAt(s, R)[a]]
    BY DEF BalanceAt
  <2>8. BalanceAt(z, O) = BalanceAt(s, R) BY <2>6, <2>7
  <2> QED BY <2>3, <2>5, <2>8
<1> QED BY <1>1, <1>2 DEF BalancesCarriedOver

\* A year that is not open has no balance, and the next one opens with what the
\* closed one held before its closing entry, whatever is closed, reopened and
\* closed again, and whatever accounts are opened in between.
THEOREM BalancesStayCarried == Spec => []BalancesCarriedOver
<1>1. Init => CarryInv /\ ClosedAlike BY CarryStart DEF Init, ClosedAlike, InForceOf
<1>2. CycleInv /\ RequestInv /\ BooksInv /\ ClosedAlike /\ CarryInv /\ [Next]_vars
        => CarryInv' /\ ClosedAlike'
  BY CarryStep, ClosedAlikeStep
<1>3. CycleInv /\ ClosedAlike /\ CarryInv => BalancesCarriedOver BY CarriedMeans
<1> QED BY <1>1, <1>2, <1>3, CycleInvariant, RequestsAreSettledOnce, BooksAgreeWithRequests, PTL DEF Spec
=============================================================================
